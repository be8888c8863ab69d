-------------------------------- MODULE Cbor --------------------------------
(***************************************************************************)
(* dtn_cbor.c: items, how they are made, changed, compared and copied; how *)
(* many bytes an item is said to take, and the bytes written for it; and   *)
(* reading an item from a buffer that may hold only its beginning.         *)
(* dtn_utf8.c: which byte sequences are UTF-8, and the code points they    *)
(* stand for.  Bytes are numbers below 256.                                *)
(*                                                                         *)
(* An item is a tuple whose first element names its type:                  *)
(*   <<"uint", n>> <<"int", n>> <<"string", bytes>> <<"utf8", bytes>>      *)
(*   <<"array", items>> <<"map", pairs>> <<"time", bytes>> <<"epoch", n>>  *)
(*   <<"ubignum", bytes>> <<"ibignum", bytes>> <<"fraction", array>>       *)
(*   <<"bigfloat", array>> <<"tag", head, n, data>> <<"simple", head, n>>  *)
(*   <<"float", text>> <<"double", text>>                                  *)
(*   <<"false">> <<"true">> <<"null">> <<"undef">>                         *)
(* The pairs of a map are a set, the data of a tag is NoItem when it  *)
(* has none, and a float is the text it is printed as.                     *)
(***************************************************************************)
EXTENDS Integers, Sequences, SequencesExt, FiniteSets, Bitwise

\* g_config.limits
CONSTANTS StringLimit, Utf8Limit, ArrayLimit, UndefArrayLimit, MapLimit, UndefMapLimit

LOCAL Continues(b) == b \in 128 .. 191

\* The bytes a character that begins with b takes; 0 if none begins with b.
CharacterLength(b) ==
    CASE b <= 127            -> 1
      [] b \in 194 .. 223    -> 2
      [] b \in 224 .. 239    -> 3
      [] b \in 240 .. 244    -> 4
      [] OTHER               -> 0

\* The second byte is narrower where a shorter form, a surrogate or a code
\* point beyond U+10FFFF would come out.
SecondByte(first, b) ==
    /\ Continues(b)
    /\ first = 224 => b >= 160
    /\ first = 237 => b <= 159
    /\ first = 240 => b >= 144
    /\ first = 244 => b <= 143

\* One whole character at position i of s.
CharacterAt(s, i) ==
    LET n == CharacterLength(s[i])
    IN /\ n > 0 /\ i + n - 1 <= Len(s)
       /\ n > 1 => SecondByte(s[i], s[i + 1])
       /\ \A k \in 2 .. n - 1 : Continues(s[i + k])

\* The bytes that dtn_utf8_last_valid walks over: the whole characters before
\* the first byte that begins none.
LastValid(s) ==
    LET walk[i \in 1 .. Len(s) + 1] ==
          IF i <= Len(s) /\ CharacterAt(s, i) THEN walk[i + CharacterLength(s[i])] ELSE i - 1
    IN walk[1]

ValidateSequence(s) == Len(s) > 0 /\ LastValid(s) = Len(s)

\* dtn_utf8_encode_code_point: no bytes for a surrogate or a number too large.
EncodeCodePoint(n) ==
    LET tail(k) == 128 + ((n \div 64 ^ k) % 64)
    IN CASE n <= 127                       -> <<n>>
         [] n \in 128 .. 2047              -> <<192 + n \div 64, tail(0)>>
         [] n \in 55296 .. 57343           -> <<>>
         [] n \in 2048 .. 65535 /\ n \notin 55296 .. 57343
                                           -> <<224 + n \div 4096, tail(1), tail(0)>>
         [] n \in 65536 .. 1114111         -> <<240 + n \div 262144, tail(2), tail(1), tail(0)>>
         [] OTHER                          -> <<>>

\* dtn_utf8_decode_code_point: the code point and the bytes it took, none if
\* there is no whole character.
DecodeCodePoint(s) ==
    IF s = <<>> \/ ~CharacterAt(s, 1) THEN [point |-> 0, bytes |-> 0]
    ELSE LET n == CharacterLength(s[1])
             head == IF n = 1 THEN s[1] ELSE s[1] % (2 ^ (7 - n))
             value[k \in 1 .. n] == IF k = 1 THEN head ELSE value[k - 1] * 64 + (s[k] % 64)
         IN [point |-> value[n], bytes |-> n]

-----------------------------------------------------------------------------
\* A code point written in UTF-8 is valid text and comes back; what stands for
\* none is not written.
CodePointIsRead(n) ==
    \A s \in {EncodeCodePoint(n)} :
        IF n \in 55296 .. 57343 \/ n > 1114111 THEN s = <<>>
        ELSE ValidateSequence(s) /\ DecodeCodePoint(s) = [point |-> n, bytes |-> Len(s)]
-----------------------------------------------------------------------------
NoItem == <<"none">>

\* A setter leaves an item of another type alone, and so does one whose
\* argument is refused.
Updated(c, type, allowed, new) == IF c[1] = type /\ allowed THEN new ELSE c

False == <<"false">>
True  == <<"true">>
Null  == <<"null">>
Undef == <<"undef">>

Uint(n) == <<"uint", n>>
IsUint(c) == c[1] = "uint"
GetUint(c) == IF IsUint(c) THEN c[2] ELSE 0
SetUint(c, n) == Updated(c, "uint", TRUE, Uint(n))

\* A positive number is refused.
NegativeInt(n) == IF n > 0 THEN NoItem ELSE <<"int", n>>
SetInt(c, n) == Updated(c, "int", n <= 0, <<"int", n>>)

ByteString(s) == <<"string", s>>
IsString(c) == c[1] = "string"
SetString(c, s) == Updated(c, "string", TRUE, ByteString(s))

\* No bytes make an empty item; only UTF-8 is taken, and no empty sequence is set.
Utf8String(s) == IF s = <<>> \/ ValidateSequence(s) THEN <<"utf8", s>> ELSE NoItem
SetUtf8(c, s) == Updated(c, "utf8", ValidateSequence(s), <<"utf8", s>>)

Time(s) == <<"time", s>>
SetTime(c, s) == Updated(c, "time", TRUE, Time(s))
TimeEpoch(n) == <<"epoch", n>>
SetTimeEpoch(c, n) == Updated(c, "epoch", TRUE, TimeEpoch(n))
UBignum(s) == <<"ubignum", s>>
SetUBignum(c, s) == Updated(c, "ubignum", TRUE, UBignum(s))
IBignum(s) == <<"ibignum", s>>
SetIBignum(c, s) == Updated(c, "ibignum", TRUE, IBignum(s))

Simple(head) == <<"simple", head, 0>>
SetSimpleValue(c, n) == Updated(c, "simple", TRUE, <<"simple", c[2], n>>)
Tag(head) == <<"tag", head, 0, NoItem>>
SetTagValue(c, n) == Updated(c, "tag", TRUE, <<"tag", c[2], n, c[4]>>)
SetTagData(c, data) == Updated(c, "tag", TRUE, <<"tag", c[2], c[3], data>>)
Float(text) == <<"float", text>>
Double(text) == <<"double", text>>

Array(s) == <<"array", s>>
IsArray(c) == c[1] = "array"
ArrayCount(c) == IF IsArray(c) THEN Len(c[2]) ELSE 0
ArrayPush(c, item) == Updated(c, "array", TRUE, Array(Append(c[2], item)))
\* The first item (queue) or the last (stack) is taken out.
ArrayPopQueue(c) == Updated(c, "array", c[2] # <<>>, Array(Tail(c[2])))
ArrayPopStack(c) == Updated(c, "array", c[2] # <<>>, Array(Front(c[2])))
\* Positions count from 0; one that is not there answers NULL.  Setting one
\* behind the last fills up with items that are not there.
ArrayGet(c, i) == IF IsArray(c) /\ i \in 0 .. Len(c[2]) - 1 THEN c[2][i + 1] ELSE NoItem
ArraySet(c, i, item) ==
    Updated(c, "array", TRUE,
        Array([k \in 1 .. (IF i < Len(c[2]) THEN Len(c[2]) ELSE i + 1) |->
                  IF k = i + 1 THEN item ELSE IF k <= Len(c[2]) THEN c[2][k] ELSE NoItem]))

\* The items of a decimal fraction or a bigfloat are an array or not there.
DecFraction(a) == IF a = NoItem \/ IsArray(a) THEN <<"fraction", a>> ELSE NoItem
SetDecFraction(c, a) == Updated(c, "fraction", IsArray(a), <<"fraction", a>>)
Bigfloat(a) == IF a = NoItem \/ IsArray(a) THEN <<"bigfloat", a>> ELSE NoItem
SetBigfloat(c, a) == Updated(c, "bigfloat", IsArray(a), <<"bigfloat", a>>)

(***************************************************************************)
(* Matching and copying.                                                   *)
(***************************************************************************)
\* Byte strings are compared as C strings.
UpToZero(s) == IF Contains(s, 0) THEN SubSeq(s, 1, SelectInSeq(s, LAMBDA b : b = 0) - 1) ELSE s

\* Keys of these types are hashed by their address: an equal one is not found
\* (but for the one in 255 that falls into the same slot).
HashedByAddress == {"array", "map", "ubignum", "ibignum", "fraction", "bigfloat"}

\* cbor_match: a tag and a simple value are compared without their head, a tag
\* without data with that of the other not looked at; the items of fractions
\* and bigfloats from the second to one past the end, which is not there.
RECURSIVE Match(_, _)
\* The key that a dictionary finds for another.
SameKey(a, b) == a[1] \notin HashedByAddress /\ Match(a, b)
\* key_contained, for every pair.
Contained(m, n) == \A p \in m : \E q \in n : SameKey(q[1], p[1]) /\ Match(p[2], q[2])
Match(a, b) ==
    /\ a[1] = b[1]
    /\ CASE a = NoItem -> FALSE
         [] a[1] = "array" ->
              /\ Len(a[2]) = Len(b[2])
              /\ \A i \in DOMAIN a[2] : Match(a[2][i], b[2][i])
         [] a[1] = "map" ->
              Cardinality(a[2]) = Cardinality(b[2]) /\ Contained(a[2], b[2]) /\ Contained(b[2], a[2])
         [] a[1] \in {"fraction", "bigfloat"} -> ArrayCount(a[2]) = 0 /\ ArrayCount(b[2]) = 0
         [] a[1] = "tag" ->
              a[3] = b[3] /\ (a[4] # NoItem => Match(a[4], b[4]))
         [] a[1] = "simple" -> a[3] = b[3]
         [] a[1] = "string" -> (a[2] = <<>>) = (b[2] = <<>>) /\ UpToZero(a[2]) = UpToZero(b[2])
         [] OTHER -> a = b

\* The pair of an equal key goes.
PairSet(pairs, k, v) == {p \in pairs : ~SameKey(p[1], k)} \cup {<<k, v>>}

Map(pairs) == <<"map", pairs>>
MapSet(c, k, v) == Updated(c, "map", TRUE, Map(PairSet(c[2], k, v)))
MapGet(c, k) ==
    IF c[1] = "map" /\ \E p \in c[2] : SameKey(p[1], k)
    THEN (CHOOSE p \in c[2] : SameKey(p[1], k))[2] ELSE NoItem

\* cbor_copy: the head of a tag or a simple value stays 0 in the copy, and an
\* empty string, whose bytes are NULL, has no copy.
RECURSIVE Copy(_)
Copy(c) ==
    CASE c[1] \in {"string", "utf8", "time", "ubignum", "ibignum"} ->
           IF c[2] = <<>> THEN NoItem ELSE c
      [] c[1] = "array" ->
           LET s == [i \in DOMAIN c[2] |-> Copy(c[2][i])]
           IN IF Contains(s, NoItem) THEN NoItem ELSE Array(s)
      [] c[1] = "map" ->
           LET s == {<<Copy(p[1]), Copy(p[2])>> : p \in c[2]}
           IN IF \E p \in s : NoItem \in {p[1], p[2]} THEN NoItem ELSE <<"map", s>>
      [] c[1] \in {"fraction", "bigfloat"} ->
           IF Copy(c[2]) = NoItem THEN NoItem ELSE <<c[1], Copy(c[2])>>
      [] c[1] = "tag" ->
           <<"tag", 0, c[3], Copy(c[4])>>
      [] c[1] = "simple" -> <<"simple", 0, c[3]>>
      [] OTHER -> c

-----------------------------------------------------------------------------
(***************************************************************************)
(* Bytes.  A head is the major type and a number, in the head itself or in *)
(* the 1, 2, 4 or 8 bytes behind it; numbers are below 2^31 here, so the   *)
(* widest form of a head is read but not written.                          *)
(***************************************************************************)
BigEndian(n, width) ==
    [i \in 1 .. width |-> IF width - i > 3 THEN 0 ELSE (n \div 256 ^ (width - i)) % 256]

\* direct: the largest number that goes into the head.
HeadUpTo(major, n, direct) ==
    CASE n <= direct               -> <<major * 32 + n>>
      [] n > direct /\ n <= 255    -> <<major * 32 + 24>> \o BigEndian(n, 1)
      [] n > 255 /\ n <= 65535     -> <<major * 32 + 25>> \o BigEndian(n, 2)
      [] OTHER                     -> <<major * 32 + 26>> \o BigEndian(n, 4)

HeadWithMore(major, n) == HeadUpTo(major, n, 24)
HeadOf(major, n) == HeadUpTo(major, n, 23)
Absolute(n) == IF n < 0 THEN -n ELSE n

(***************************************************************************)
(* Sizes.  A container's head is sized by the BYTES of its items, not by   *)
(* their number; a tag's own byte is counted for a fraction or a bigfloat  *)
(* only.                                                                   *)
(***************************************************************************)
UintEncodingSize(n) == Len(HeadOf(0, n))
IntEncodingSize(n) == Len(HeadOf(1, Absolute(n)))
StringEncodingSize(s) == Len(HeadOf(2, Len(s))) + Len(s)
FloatEncodingSize(text) == Len(text) + 1

RECURSIVE EncodingSize(_)
TotalSize(items) == FoldLeft(LAMBDA n, x : n + EncodingSize(x), 0, items)
ArrayEncodingSize(items) == LET n == TotalSize(items) IN UintEncodingSize(n) + n
\* The keys and values of the pairs of a map, in an order of its own.
Flat(pairs) == FlattenSeq(SetToSeq(pairs))
MapEncodingSize(pairs) == ArrayEncodingSize(Flat(pairs))
TagEncodingSize(c) == UintEncodingSize(c[3]) + IF c[4] = NoItem THEN 0 ELSE EncodingSize(c[4])

EncodingSize(c) ==
    CASE c[1] \in {"uint", "epoch"} -> UintEncodingSize(c[2])
      [] c[1] = "int" -> IntEncodingSize(c[2])
      [] c[1] \in {"string", "utf8", "time", "ubignum", "ibignum"} -> StringEncodingSize(c[2])
      [] c[1] = "array" -> ArrayEncodingSize(c[2])
      [] c[1] = "map" -> MapEncodingSize(c[2])
      [] c[1] \in {"fraction", "bigfloat"} ->
           1 + IF c[2] = NoItem THEN 0 ELSE ArrayEncodingSize(c[2][2])
      [] c[1] = "tag" -> TagEncodingSize(c)
      [] c[1] = "simple" -> UintEncodingSize(c[3])
      [] c[1] \in {"float", "double"} -> FloatEncodingSize(c[2])
      [] OTHER -> 1

(***************************************************************************)
(* Bytes, written to a buffer of size bytes: those up to next.             *)
(***************************************************************************)
\* What encode answers when it fails; no byte is negative.
FAIL == <<-1>>
Fit(bytes, size) == IF Len(bytes) <= size THEN bytes ELSE FAIL

EncodeUint(n, size) == Fit(HeadOf(0, n), size)
EncodeInt(n, size) == Fit(HeadOf(1, Absolute(n)), size)
EncodeString(s, size) == Fit(HeadOf(2, Len(s)) \o s, size)
EncodeUtf8(s, size) == Fit(HeadOf(3, Len(s)) \o s, size)
EncodeDateTime(s, size) == Fit(<<192>> \o HeadOf(2, Len(s)) \o s, size)
EncodeDateTimeEpoch(n, size) == Fit(<<193>> \o HeadOf(0, n), size)
EncodeUBignum(s, size) == Fit(<<194>> \o HeadOf(2, Len(s)) \o s, size)
EncodeIBignum(s, size) == Fit(<<195>> \o HeadOf(2, Len(s)) \o s, size)

\* Items are asked for from item 0, which is not there, to one past the end:
\* only an empty fraction or bigfloat can be written.
EncodeFraction(a, size) == IF ArrayCount(a) = 0 THEN Fit(<<196, 128>>, size) ELSE FAIL
EncodeBigfloat(a, size) == IF ArrayCount(a) = 0 THEN Fit(<<197, 128>>, size) ELSE FAIL

\* One byte of the text, the last, is not counted in next.
EncodeFloat(text, size) == IF Len(text) + 1 > size THEN FAIL ELSE <<250>> \o Front(text)
EncodeDouble(text, size) == IF Len(text) + 1 > size THEN FAIL ELSE <<251>> \o Front(text)

EncodeSimple(head, n, size) ==
    CASE head \in 224 .. 243 -> Fit(<<head | (n % 256)>>, size)
      [] head = 248 -> Fit(<<248>> \o BigEndian(n, 1), size)
      [] head = 249 -> Fit(<<249>> \o BigEndian(n, 2), size)
      [] head = 250 -> Fit(<<250>> \o BigEndian(n, 4), size)
      [] head = 251 -> Fit(<<251>> \o BigEndian(n, 8), size)
      [] OTHER -> FAIL

RECURSIVE Encode(_, _)
\* bytes, then the items one behind the other.
EncodeAll(items, bytes, size) ==
    FoldLeft(LAMBDA out, x :
               IF out = FAIL THEN FAIL
               ELSE LET one == Encode(x, size - Len(out))
                    IN IF one = FAIL THEN FAIL ELSE out \o one,
             Fit(bytes, size), items)

\* More than 17 items (0x11, not 0x17) take a byte for their number.
EncodeArray(items, size) == EncodeAll(items, HeadUpTo(4, Len(items), 17), size)

\* The head of a map holds the BYTES of its pairs, not their number.
EncodeMap(pairs, size) == EncodeAll(Flat(pairs), HeadOf(5, TotalSize(Flat(pairs))), size)

EncodeTag(head, n, data, size) ==
    CASE head \in 198 .. 212 -> Fit(<<head | (n % 256)>>, size)
      [] head \in 213 .. 215 -> EncodeAll(<<data>>, <<head>>, size)
      [] head = 217 -> EncodeAll(<<data>>, <<217>> \o BigEndian(n, 2), size)
      [] head = 218 -> EncodeAll(<<data>>, <<218>> \o BigEndian(n, 4), size)
      [] head = 219 -> EncodeAll(<<data>>, <<219>> \o BigEndian(n, 8), size)
      [] OTHER -> FAIL

Encode(c, size) ==
    IF size < 1 \/ c = NoItem THEN FAIL
    ELSE CASE c[1] = "undef" -> <<247>>
           [] c[1] = "false" -> <<244>>
           [] c[1] = "true" -> <<245>>
           [] c[1] = "null" -> <<246>>
           [] c[1] = "uint" -> EncodeUint(c[2], size)
           [] c[1] = "int" -> EncodeInt(c[2], size)
           [] c[1] = "string" -> EncodeString(c[2], size)
           [] c[1] = "utf8" -> EncodeUtf8(c[2], size)
           [] c[1] = "array" -> EncodeArray(c[2], size)
           [] c[1] = "map" -> EncodeMap(c[2], size)
           [] c[1] = "time" -> EncodeDateTime(c[2], size)
           [] c[1] = "epoch" -> EncodeDateTimeEpoch(c[2], size)
           [] c[1] = "ubignum" -> EncodeUBignum(c[2], size)
           [] c[1] = "ibignum" -> EncodeIBignum(c[2], size)
           [] c[1] = "fraction" -> EncodeFraction(c[2], size)
           [] c[1] = "bigfloat" -> EncodeBigfloat(c[2], size)
           [] c[1] = "tag" -> EncodeTag(c[2], c[3], c[4], size)
           [] c[1] = "simple" -> EncodeSimple(c[2], c[3], size)
           [] c[1] = "float" -> EncodeFloat(c[2], size)
           [] c[1] = "double" -> EncodeDouble(c[2], size)

\* dtn_cbor_encode_array_of_indefinite_length.
EncodeIndefinite(items, size) ==
    LET out == EncodeAll(items, <<159>>, size)
    IN IF size < 2 \/ out = FAIL \/ Len(out) = size THEN FAIL ELSE out \o <<255>>
-----------------------------------------------------------------------------
(* Reading size bytes from position at of b.  The answer is "full" with    *)
(* the item and the position next behind it, "partial" when the bytes may  *)
(* be the beginning of an item, "none" when they cannot.  A read beyond    *)
(* the bytes, which the checks of long strings let through, finds 0.       *)

Full(item, next) == [match |-> "full", item |-> item, next |-> next]
Partial(next) == [match |-> "partial", item |-> <<>>, next |-> next]
NONE == [match |-> "none", item |-> <<>>, next |-> 0]

\* What is left up to end is a size_t: behind the end it is not negative but huge.
HUGE == 2 ^ 30
Left(end, at) == IF at <= end THEN end - at ELSE HUGE

ByteAt(b, i) == IF i <= Len(b) THEN b[i] ELSE 0
Bytes(b, at, n) == [i \in 1 .. n |-> ByteAt(b, at + i - 1)]
Number(bytes) == FoldLeft(LAMBDA n, x : n * 256 + x, 0, bytes)

\* The argument of a head: its form, its value and the length of the head.
Width(info) == IF info \in 24 .. 27 THEN 2 ^ (info - 24) ELSE 0
ArgumentOf(info, width, b, at, size) ==
    CASE info <= 23 -> [form |-> "direct", value |-> info, len |-> 1]
      [] info \in 24 .. 27 /\ size < 1 + width -> [form |-> "partial", value |-> 0, len |-> 0]
      [] info \in 24 .. 27 /\ size >= 1 + width ->
           [form |-> "wide", value |-> Number(Bytes(b, at + 1, width)), len |-> 1 + width]
      [] info = 31 -> [form |-> "indefinite", value |-> 0, len |-> 1]
      [] OTHER -> [form |-> "none", value |-> 0, len |-> 0]
Argument(b, at, size) == ArgumentOf(ByteAt(b, at) % 32, Width(ByteAt(b, at) % 32), b, at, size)

UintOf(a, at, size) ==
    CASE a.form \in {"direct", "wide"} -> Full(Uint(a.value), at + a.len)
      [] a.form = "partial" -> Partial(at + size)
      [] OTHER -> NONE
DecodeUint(b, at, size) == UintOf(Argument(b, at, size), at, size)

\* A direct number is read with its head: 0x21 is -33.
IntOf(a, head, at, size) ==
    CASE a.form = "direct" -> Full(NegativeInt(-head), at + 1)
      [] a.form = "wide" -> Full(NegativeInt(-a.value), at + a.len)
      [] a.form = "partial" -> Partial(at + size)
      [] OTHER -> NONE
DecodeInt(b, at, size) == IntOf(Argument(b, at, size), ByteAt(b, at), at, size)

(***************************************************************************)
(* Strings.  Whatever the length of the head, size is compared with the    *)
(* length of the string + 1.  An indefinite one ends at the first 0xFF.    *)
(***************************************************************************)
\* Where the content is: [from, length, next], or Partial or NONE.
UpTo(from, first) == Full([from |-> from, length |-> first - from], first + 1)
ExtentOf(a, ends, at, size) ==
    CASE a.form = "none" -> NONE
      [] a.form = "indefinite" /\ ends = {} -> Partial(at)
      [] a.form = "indefinite" /\ ends # {} -> UpTo(at + 1, CHOOSE i \in ends : \A j \in ends : i <= j)
      [] a.form = "partial" \/ (a.form \in {"direct", "wide"} /\ size < a.value + 1) -> Partial(at + size)
      [] OTHER -> Full([from |-> at + a.len, length |-> a.value], at + a.len + a.value)
StringExtent(b, at, size) ==
    ExtentOf(Argument(b, at, size), {i \in at .. at + size - 1 : ByteAt(b, i) = 255}, at, size)

Content(b, extent) == Bytes(b, extent.from, extent.length)

TextOf(r, b) ==
    CASE r.match # "full" -> r
      [] r.match = "full" /\ r.item.length > StringLimit -> NONE
      [] OTHER -> Full(ByteString(Content(b, r.item)), r.next)
DecodeTextString(b, at, size) == TextOf(StringExtent(b, at, size), b)

Accepted(item, next) == IF item = NoItem THEN NONE ELSE Full(item, next)
Utf8Of(r, b) ==
    CASE r.match # "full" -> r
      [] r.match = "full" /\ r.item.length > Utf8Limit -> NONE
      [] OTHER -> Accepted(Utf8String(Content(b, r.item)), r.next)
DecodeUtf8String(b, at, size) == Utf8Of(StringExtent(b, at, size), b)

RECURSIVE Decode(_, _, _)

\* count items one after the other up to the position end; item is the
\* sequence of them.
RECURSIVE DecodeItems(_, _, _, _, _)
DecodeItems(b, at, end, count, items) ==
    IF count = 0 THEN Full(items, at)
    ELSE LET one == Decode(b, at, Left(end, at))
         IN IF one.match # "full" THEN one
            ELSE DecodeItems(b, one.next, end, count - 1, Append(items, one.item))

\* Items up to the break byte, which the last byte is kept for.
RECURSIVE DecodeUntilBreak(_, _, _, _, _)
DecodeUntilBreak(b, at, end, limit, items) ==
    IF end - at - 1 <= 0
    THEN IF at # end /\ ByteAt(b, at) = 255 THEN Full(items, at + 1) ELSE Partial(end)
    ELSE IF Len(items) + 1 = limit THEN NONE
    ELSE LET one == Decode(b, at, end - at - 1)
         IN CASE one.match # "full" -> one
              [] one.match = "full" /\ ByteAt(b, one.next) = 255 ->
                   IF one.next # end THEN Full(Append(items, one.item), one.next + 1) ELSE Partial(end)
              [] OTHER -> DecodeUntilBreak(b, one.next, end, limit, Append(items, one.item))

ArrayItems(a, b, at, size) ==
    CASE a.form = "indefinite" /\ size = 1 -> Partial(at + size)
      [] a.form = "indefinite" /\ size > 1 ->
           DecodeUntilBreak(b, at + 1, at + size, UndefArrayLimit, <<>>)
      [] a.form = "none" -> NONE
      [] a.form = "partial" -> Partial(at + size)
      [] OTHER -> IF a.value > ArrayLimit THEN NONE
                  ELSE IF size < a.value + a.len THEN Partial(at + size)
                  ELSE DecodeItems(b, at + a.len, at + size, a.value, <<>>)
ArrayOf(items) == IF items.match = "full" THEN Full(Array(items.item), items.next) ELSE items
DecodeArray(b, at, size) == ArrayOf(ArrayItems(Argument(b, at, size), b, at, size))

\* The pairs of a sequence of keys and values; the last of two equal keys holds.
Pairs(items) ==
    FoldLeft(LAMBDA m, i : PairSet(m, items[2 * i - 1], items[2 * i]), {},
             [i \in 1 .. Len(items) \div 2 |-> i])

\* The limit is not looked at for a count of two bytes.  In a map of
\* indefinite length a key or value that is not whole is no match, and a value
\* is only followed by the break.
RECURSIVE DecodePairsUntilBreak(_, _, _, _)
DecodePairsUntilBreak(b, at, end, items) ==
    IF end - at - 1 <= 0
    THEN IF at = end THEN Partial(end)
         ELSE IF ByteAt(b, at) = 255 THEN Full(items, at + 1) ELSE NONE
    ELSE IF Len(items) \div 2 + 1 = UndefMapLimit THEN NONE
    ELSE LET key == Decode(b, at, end - at - 1)
             value == IF key.match = "full" THEN Decode(b, key.next, Left(end - 1, key.next)) ELSE NONE
             more == items \o <<key.item, value.item>>
         IN IF value.match # "full" THEN NONE
            ELSE IF ByteAt(b, value.next) # 255 THEN DecodePairsUntilBreak(b, value.next, end, more)
            ELSE IF value.next = end THEN Partial(end) ELSE Full(more, value.next + 1)

MapItems(a, b, at, size) ==
    CASE a.form = "indefinite" ->
           IF ByteAt(b, at + 1) # 255 THEN DecodePairsUntilBreak(b, at + 1, at + size, <<>>)
           ELSE IF size > 1 THEN Full(<<>>, at + 2) ELSE Partial(at + size)
      [] a.form = "none" -> NONE
      [] a.form = "partial" -> Partial(at + size)
      [] OTHER -> IF a.value > MapLimit /\ a.len # 3 THEN NONE
                  ELSE DecodeItems(b, at + a.len, at + size, 2 * a.value, <<>>)
MapOf(items, a, at) ==
    CASE items.match = "full" -> Full(Map(Pairs(items.item)), items.next)
      [] items.match = "partial" /\ a.form \in {"direct", "wide"} -> Partial(at)
      [] OTHER -> items
DecodeMap(b, at, size) ==
    MapOf(MapItems(Argument(b, at, size), b, at, size), Argument(b, at, size), at)

\* The content of a tag, as another type or as the data of a tag.
Retyped(r, type) == IF r.match = "full" THEN Full(<<type, r.item[2]>>, r.next) ELSE r
Wrapped(r, type) == IF r.match = "full" THEN Full(<<type, r.item>>, r.next) ELSE r
Tagged(r, head, nbr) == IF r.match = "full" THEN Full(<<"tag", head, nbr, r.item>>, r.next) ELSE r

\* The decoder named by the tag is called whatever the major type behind it:
\* what it does not know is no match.
Expect(b, at, size, major, decoded) ==
    IF size = 0 THEN Partial(at - 1) ELSE IF ByteAt(b, at) \div 32 # major THEN NONE ELSE decoded

WideTag(b, at, size, width) ==
    IF size < 1 + width THEN Partial(at + size)
    ELSE Tagged(Decode(b, at + 1 + width, size - 1 - width), ByteAt(b, at), Number(Bytes(b, at + 1, width)))
TagOf(head, b, at, size, in, left) ==
    CASE head = 193 -> Retyped(Expect(b, in, left, 0, DecodeUint(b, in, left)), "epoch")
      [] head \in {192, 194, 195} ->
           Retyped(Expect(b, in, left, 2, DecodeTextString(b, in, left)),
                   CASE head = 192 -> "time" [] head = 194 -> "ubignum" [] head = 195 -> "ibignum")
      [] head \in {196, 197} ->
           Wrapped(Expect(b, in, left, 4, DecodeArray(b, in, left)), IF head = 196 THEN "fraction" ELSE "bigfloat")
      [] head \in 198 .. 212 -> Full(<<"tag", head, head % 32, NoItem>>, in)
      [] head \in 213 .. 215 -> Tagged(Decode(b, in, left), head, head)
      [] head = 216 -> IF size < 2 THEN Partial(at + size) ELSE Full(<<"tag", head, ByteAt(b, in), NoItem>>, at + 2)
      [] head \in 217 .. 219 -> WideTag(b, at, size, 2 ^ (head - 216))
      [] OTHER -> NONE
DecodeTag(b, at, size) == TagOf(ByteAt(b, at), b, at, size, at + 1, size - 1)

\* A float is read as the text of 2, 4 or 8 digits.
FloatText(b, at, size, type, width) ==
    IF size < 1 + width THEN Partial(at + size) ELSE Full(<<type, Bytes(b, at + 1, width)>>, at + 1 + width)
SimpleOf(head, b, at, size) ==
    CASE head \in 224 .. 243 -> Full(<<"simple", head, head % 32>>, at + 1)
      [] head = 244 -> Full(False, at + 1)
      [] head = 245 -> Full(True, at + 1)
      [] head = 246 -> Full(Null, at + 1)
      [] head = 247 -> Full(Undef, at + 1)
      [] head = 248 -> IF size < 2 THEN Partial(at + size) ELSE Full(<<"simple", head, ByteAt(b, at + 1)>>, at + 2)
      [] head = 249 -> FloatText(b, at, size, "float", 2)
      [] head = 250 -> FloatText(b, at, size, "float", 4)
      [] head = 251 -> FloatText(b, at, size, "double", 8)
      [] OTHER -> NONE
DecodeSimple(b, at, size) == SimpleOf(ByteAt(b, at), b, at, size)

ItemOf(major, b, at, size) ==
    CASE major = 0 -> DecodeUint(b, at, size)
      [] major = 1 -> DecodeInt(b, at, size)
      [] major = 2 -> DecodeTextString(b, at, size)
      [] major = 3 -> DecodeUtf8String(b, at, size)
      [] major = 4 -> DecodeArray(b, at, size)
      [] major = 5 -> DecodeMap(b, at, size)
      [] major = 6 -> DecodeTag(b, at, size)
      [] OTHER -> DecodeSimple(b, at, size)

Decode(b, at, size) == IF size < 1 THEN Partial(at) ELSE ItemOf(ByteAt(b, at) \div 32, b, at, size)
=============================================================================
