-------------------------------- MODULE Json --------------------------------
(***************************************************************************)
(* dtn_json_grammar, dtn_item_json and dtn_json_io_buffer of dtn_base: one *)
(* side writes items and sends the text, the other matches and decodes     *)
(* what has arrived of it.                                                 *)
(*                                                                         *)
(* A character is "{" "}" "[" "]" "," ":", "q" for the quote, "e" for the  *)
(* backslash, "1" for a digit, "n" "l" for a literal, "_" for a line break *)
(* or a tab, and "a" for any other.  Behind the text there is "end".       *)
(***************************************************************************)
EXTENDS Integers, SequencesExt

CONSTANTS
    Streams,        \* the sequences of items that are sent
    ObjectsOnly,    \* config.objects_only of the buffer
    MaxChunk        \* bound on the characters of one read

Digits == {"1"}
Rank == [c \in {"1", "a", "l", "n", "{", "}", "[", "]", ",", ":", "e"} |->
            CASE c = "," -> 1 [] c = "1" -> 2 [] c = ":" -> 3 [] c = "[" -> 4 [] c = "e" -> 5
              [] c = "]" -> 6 [] c = "a" -> 7 [] c = "l" -> 8 [] c = "n" -> 9 [] c = "{" -> 10 [] OTHER -> 11]

\* Items: <<"literal", <<>>>>, <<"number", digits>>, <<"string", characters>>,
\* <<"array", items>>, <<"object", [keys -> items]>>.
NULL == <<"literal", <<>>>>

At(t, i) == IF i \in DOMAIN t THEN t[i] ELSE "end"
Literal == <<"n", "l">>
LiteralAt(t, i, k) == \A j \in 1 .. k : At(t, i + j - 1) = Literal[j]
IsSpace(c) == c = "_"

Least(S) == CHOOSE k \in S : \A j \in S : k <= j
Lesser(m, n) == IF m < n THEN m ELSE n

\* How many of the n characters from i on are white space before another comes.
Spaces(t, i, n) ==
    Lesser(n, Least({k \in i .. (IF i > Len(t) THEN i ELSE Len(t) + 1) : ~IsSpace(At(t, k))}) - i)
\* The same without a bound: it ends behind the text.
AllSpaces(t, i) == Spaces(t, i, Len(t) + 1)

\* dtn_json_clear_whitespace: the position, and what is left from there.
Passed(i, n, k) == [at |-> i + k, left |-> n - k]
ClearSpace(t, i, n) == Passed(i, n, IF n < 1 THEN 0 ELSE Spaces(t, i, n))

\* size_t: what is taken from nothing leaves a lot.
HUGE == 2 ^ 20
Minus(n, k) == (n - k) % HUGE

-----------------------------------------------------------------------------
(* Strings. *)

\* Inside the quotes: a backslash takes the next character with it.
Escaped == {"q", "e", "n"}
ValidInside(s) ==
    LET ok[i \in 1 .. Len(s) + 2] ==
          \/ i > Len(s)
          \/ IF s[i] = "e" THEN i < Len(s) /\ s[i + 1] \in Escaped /\ ok[i + 2]
             ELSE s[i] \notin {"q", "_", "end"} /\ ok[i + 1]
    IN ok[1]
ValidateString(s, quotes) ==
    IF quotes
    THEN Len(s) >= 2 /\ s[1] = "q" /\ s[Len(s)] = "q" /\ ValidInside(SubSeq(s, 2, Len(s) - 1))
    ELSE Len(s) >= 1 /\ ValidInside(s)

\* Where a string that begins before i stops: at a quote without a backslash
\* before it, at the last of size characters, or behind the text.
Quotes(t, i, last) == {k \in i .. last : t[k] = "q" /\ t[k - 1] # "e"}
StringStop(t, i, size) ==
    LET last == Lesser(i + size - 1, Len(t) + 1)
    IN IF size <= 1 THEN i ELSE Least(Quotes(t, i, last - 1) \cup {last})

Extent(ok, from, to) == [ok |-> ok, from |-> from, to |-> to]
NoExtent == Extent(FALSE, 0, 0)

Inside(t, i, stop) ==
    IF At(t, stop) = "q" /\ stop > i /\ ValidateString(SubSeq(t, i, stop - 1), FALSE)
    THEN Extent(TRUE, i, stop - 1) ELSE NoExtent

\* dtn_json_match_string: the characters between the quotes; there is one at
\* least.
MatchString(t, at, size) ==
    LET c == ClearSpace(t, at, size)
    IN IF c.left >= 2 /\ At(t, c.at) = "q" THEN Inside(t, c.at + 1, StringStop(t, c.at + 1, c.left - 1)) ELSE NoExtent

\* dtn_json_match_array, dtn_json_match_object: up to the bracket that closes,
\* brackets within strings counted with the others.
Brackets(t, i, k, open, close) ==
    FoldLeft(LAMBDA d, c : IF c = open THEN d + 1 ELSE IF c = close THEN d - 1 ELSE d, 0, SubSeq(t, i, k))
Closings(t, i, last, open, close) == {k \in i .. last : t[k] = close /\ Brackets(t, i, k, open, close) = -1}
UpToClosing(i, closing) == IF closing = {} THEN NoExtent ELSE Extent(TRUE, i, Least(closing) - 1)
MatchBrackets(t, at, size, open, close) ==
    IF size >= 2 /\ At(t, at) = open
    THEN UpToClosing(at + 1, Closings(t, at + 1, Lesser(at + size - 1, Len(t)), open, close))
    ELSE NoExtent

-----------------------------------------------------------------------------
(* Decoding, from position i with n characters left: the item and its      *)
(* length, or None.                                                        *)

Decoded(item, len) == [ok |-> TRUE, item |-> item, len |-> len]
None == [ok |-> FALSE, item |-> NULL, len |-> 0]
DigitsAt(t, i) ==
    Least({k \in i .. Len(t) + 1 : At(t, k) \notin Digits}) - i

DecodeNumber(t, i, n) ==
    LET k == DigitsAt(t, i) IN IF k <= n THEN Decoded(<<"number", SubSeq(t, i, i + k - 1)>>, k) ELSE None
DecodeLiteral(t, i, n) ==
    IF n >= Len(Literal) /\ LiteralAt(t, i, Len(Literal)) THEN Decoded(NULL, Len(Literal)) ELSE None
StringOf(t, m) == IF m.ok THEN Decoded(<<"string", SubSeq(t, m.from, m.to)>>, m.to - m.from + 3) ELSE None
DecodeString(t, i, n) == IF n >= 2 THEN StringOf(t, MatchString(t, i, n)) ELSE None

RECURSIVE Decode(_, _, _), DecodeItems(_, _, _, _), DecodePairs(_, _, _, _)

\* The rest of an array: a comma may come before the bracket.
ItemsFrom(t, c, items) == DecodeItems(t, c.at, c.left, items)
AfterItem(t, c, all) ==
    IF c.left = 1 THEN [ok |-> TRUE, items |-> all]
    ELSE IF At(t, c.at) # "," THEN [ok |-> FALSE, items |-> <<>>]
    ELSE ItemsFrom(t, ClearSpace(t, c.at + 1, Minus(c.left, 1)), all)
WithItem(t, i, n, d, items) ==
    IF d.ok THEN AfterItem(t, ClearSpace(t, i + d.len, Minus(n, d.len)), Append(items, d.item))
    ELSE [ok |-> FALSE, items |-> <<>>]
DecodeItems(t, i, n, items) ==
    IF n <= 1 THEN [ok |-> TRUE, items |-> items] ELSE WithItem(t, i, n, Decode(t, i, n), items)

ArrayOf(d, len) == IF d.ok THEN Decoded(<<"array", d.items>>, len) ELSE None
ArrayIn(t, i, m) ==
    IF m.ok THEN ArrayOf(ItemsFrom(t, ClearSpace(t, m.from, m.to - m.from + 2), <<>>), m.to - i + 2) ELSE None
DecodeArray(t, i, n) == ArrayIn(t, i, MatchBrackets(t, i, n, "[", "]"))

\* The rest of an object.  One character less than those of a key is taken
\* off n, which then is too large.
NoPairs == [ok |-> FALSE, pairs |-> <<>>]
Paired(pairs, k, item) == [x \in DOMAIN pairs \cup {k} |-> IF x = k THEN item ELSE pairs[x]]
AfterPair(t, c, all) ==
    IF At(t, c.at) = "}" THEN [ok |-> TRUE, pairs |-> all]
    ELSE IF At(t, c.at) # "," THEN NoPairs
    ELSE DecodePairs(t, c.at + 1, Minus(c.left, 1), all)
WithValue(t, v, k, d, pairs) ==
    IF d.ok THEN AfterPair(t, ClearSpace(t, v.at + d.len, Minus(v.left, d.len)), Paired(pairs, k, d.item)) ELSE NoPairs
ValueFor(t, v, k, pairs) == WithValue(t, v, k, Decode(t, v.at, v.left), pairs)
AfterKey(t, colon, k, pairs) ==
    IF At(t, colon.at) # ":" THEN NoPairs
    ELSE ValueFor(t, ClearSpace(t, colon.at + 1, Minus(colon.left, 1)), k, pairs)
WithKey(t, i, n, key, pairs) ==
    IF key.ok THEN AfterKey(t, ClearSpace(t, key.to + 2, Minus(n, key.to - i + 1)), SubSeq(t, key.from, key.to), pairs)
    ELSE NoPairs
DecodePairs(t, i, n, pairs) ==
    IF n <= 1 THEN [ok |-> At(t, i) = "}", pairs |-> pairs] ELSE WithKey(t, i, n, MatchString(t, i, n), pairs)

PairsFrom(t, c) == DecodePairs(t, c.at, c.left, <<>>)
ObjectOf(d, len) == IF d.ok THEN Decoded(<<"object", d.pairs>>, len) ELSE None
ObjectIn(t, i, m) ==
    IF m.ok THEN ObjectOf(PairsFrom(t, ClearSpace(t, m.from, m.to - m.from + 2)), m.to - i + 2) ELSE None
DecodeObject(t, i, n) == ObjectIn(t, i, MatchBrackets(t, i, n, "{", "}"))

ValueAt(t, first, i, n) ==
    CASE first = "{" -> DecodeObject(t, i, n)
      [] first = "[" -> DecodeArray(t, i, n)
      [] first = "q" -> DecodeString(t, i, n)
      [] first = "n" -> DecodeLiteral(t, i, n)
      [] first \in Digits -> DecodeNumber(t, i, n)
      [] OTHER -> None
Longer(d, spaces) == IF d.ok THEN Decoded(d.item, spaces + d.len) ELSE None
DecodeAfter(t, i, c) == Longer(ValueAt(t, At(t, c.at), c.at, c.left), c.at - i)
Decode(t, i, n) == IF n >= 1 THEN DecodeAfter(t, i, ClearSpace(t, i, n)) ELSE None

\* dtn_item_from_json_string: all of it is one value.
AllOf(d, size) == IF d.ok /\ d.len = size THEN d ELSE None
FromJson(t, from, size) == AllOf(Decode(t, from, size), size)

-----------------------------------------------------------------------------
(* The grammar: what the size characters from i on begin with.  A match    *)
(* has the position behind it and the objects and arrays still open; it    *)
(* may end with the text in the middle of anything.                        *)

Match(next, objects, arrays) == [ok |-> TRUE, next |-> next, objects |-> objects, arrays |-> arrays]
Mismatch == [ok |-> FALSE, next |-> 0, objects |-> 0, arrays |-> 0]

GrammarString(t, i, size, m) ==
    LET stop == StringStop(t, i + 1, size - 1)
    IN IF At(t, i) # "q" THEN Mismatch
       ELSE IF size = 1 THEN Match(i + 1, m.objects, m.arrays)
       ELSE IF At(t, stop) = "q" /\ ~ValidateString(SubSeq(t, i, stop), TRUE) THEN Mismatch
       ELSE Match(stop + 1, m.objects, m.arrays)

\* Mutant: a literal is there or not.
GrammarLiteralWhole(t, i, size, m) ==
    IF size >= Len(Literal) /\ LiteralAt(t, i, Len(Literal)) THEN Match(i + Len(Literal), m.objects, m.arrays)
    ELSE Mismatch

GrammarLiteral(t, i, size, m) ==
    LET k == Lesser(size, Len(Literal))
    IN IF LiteralAt(t, i, k) THEN Match(i + k, m.objects, m.arrays) ELSE Mismatch

GrammarNumber(t, i, size, m) ==
    Match(i + Lesser(DigitsAt(t, i), size), m.objects, m.arrays)

RECURSIVE GrammarValue(_, _, _, _), GrammarItems(_, _, _, _, _), GrammarPairs(_, _, _, _, _)

Closed(m, at, o, a) == Match(at, m.objects - o, m.arrays - a)
Unfinished(m, at) == Match(at, m.objects, m.arrays)

\* The loop of match_array over the text from s to end, at position i.
GrammarAfterItem(t, s, end, v, at, c) ==
    IF at >= end THEN Unfinished(v, at)
    ELSE IF c = "," THEN IF at + 1 < end THEN GrammarItems(t, s, end, at + 1, v) ELSE Unfinished(v, at + 1)
    ELSE IF c = "]" THEN Closed(v, at + 1, 0, 1)
    ELSE IF at + 1 = end /\ (c = "[" \/ (c = "{" /\ v.arrays > 0)) THEN Unfinished(v, at)
    ELSE IF c \in {"[", "{"} THEN GrammarItems(t, s, end, at, v)
    ELSE Mismatch
GrammarWithItem(t, s, end, v) ==
    LET at == v.next + AllSpaces(t, v.next)
    IN IF ~v.ok THEN Mismatch
       ELSE IF v.next >= end THEN v ELSE GrammarAfterItem(t, s, end, v, at, At(t, at))
GrammarItems(t, s, end, i, m) == GrammarWithItem(t, s, end, GrammarValue(t, i, end - i, m))

\* The bracket is at s; c is behind the white space that follows it.
GrammarInArray(t, s, size, opened, c) ==
    IF size = 1 THEN opened
    ELSE IF c.left < 1 THEN Unfinished(opened, c.at)
    ELSE IF At(t, c.at) = "]" THEN Closed(opened, c.at + 1, 0, 1)
    ELSE GrammarItems(t, s, s + size, c.at, opened)
GrammarArray(t, s, size, m) ==
    GrammarInArray(t, s, size, Match(s, m.objects, m.arrays + 1), ClearSpace(t, s + 1, size - 1))

\* The loop of match_object, after the bracket or a comma: the key, the colon,
\* the value and what comes behind it.
GrammarAfterPair(t, s, end, v, c) ==
    IF v.next >= end \/ c.left < 1 THEN Unfinished(v, c.at)
    ELSE IF At(t, c.at) = "," THEN IF c.left > 1 THEN GrammarPairs(t, s, end, c.at + 1, v) ELSE Unfinished(v, c.at + 1)
    ELSE IF At(t, c.at) = "}" THEN Closed(v, c.at + 1, 1, 0)
    ELSE IF c.left = 1 /\ At(t, c.at) \in {"{", "["} THEN Unfinished(v, c.at)
    ELSE Mismatch
GrammarWithValue(t, s, end, v) ==
    IF v.ok THEN GrammarAfterPair(t, s, end, v, ClearSpace(t, v.next, end - v.next)) ELSE Mismatch
GrammarAtColon(t, s, end, d, m) ==
    IF d.left < 1 THEN Unfinished(m, d.at)
    ELSE IF At(t, d.at) # ":" THEN Mismatch
    ELSE IF d.left = 1 THEN Unfinished(m, d.at + 1)
    ELSE GrammarWithValue(t, s, end, GrammarValue(t, d.at + 1, d.left - 1, m))
GrammarWithKey(t, s, end, key, m) ==
    IF key.ok THEN GrammarAtColon(t, s, end, ClearSpace(t, key.next, end - key.next), m) ELSE Mismatch
GrammarAtKey(t, s, end, k, m) ==
    IF k.left = 0 THEN Unfinished(m, k.at)
    ELSE GrammarWithKey(t, s, end, GrammarString(t, k.at, k.left, m), m)
GrammarPairs(t, s, end, i, m) == GrammarAtKey(t, s, end, ClearSpace(t, i, end - i), m)

GrammarInObject(t, s, size, opened, c) ==
    IF size = 1 THEN opened
    ELSE IF c.left < 1 THEN Unfinished(opened, c.at)
    ELSE IF At(t, c.at) = "}" THEN Closed(opened, c.at + 1, 1, 0)
    ELSE GrammarPairs(t, s, s + size, c.at, opened)
GrammarObject(t, s, size, m) ==
    GrammarInObject(t, s, size, Match(s, m.objects + 1, m.arrays), ClearSpace(t, s + 1, size - 1))

GrammarOf(t, c, at, n, m) ==
    IF n < 1 THEN Unfinished(m, at)
    ELSE CASE c = "{" -> GrammarObject(t, at, n, m)
           [] c = "[" -> GrammarArray(t, at, n, m)
           [] c = "q" -> GrammarString(t, at, n, m)
           [] c = "n" -> GrammarLiteral(t, at, n, m)
           [] c \in Digits -> GrammarNumber(t, at, n, m)
           [] OTHER -> Mismatch
GrammarValue(t, i, size, m) ==
    LET at == i + AllSpaces(t, i)
    IN IF size < 1 THEN Mismatch ELSE GrammarOf(t, At(t, at), at, size - (at - i), m)

\* dtn_json_match over the size characters from `from' on: the last character
\* of the first value, 0 if there is none.
RECURSIVE MatchValues(_, _, _, _, _)
AfterValue(t, from, end, first, m, v, c) ==
    IF v.next # m.next /\ c.left > 0 THEN MatchValues(t, from, end, first, [v EXCEPT !.next = c.at])
    ELSE [ok |-> TRUE, last |-> first,
          complete |-> v.next # m.next /\ c.left = 0 /\ v.objects = 0 /\ v.arrays = 0]
WithMatch(t, from, end, last, m, v) ==
    IF v.ok THEN AfterValue(t, from, end, IF last = 0 /\ v.next # m.next THEN v.next - 1 ELSE last, m, v,
                            ClearSpace(t, v.next, end - v.next))
    ELSE [ok |-> FALSE, last |-> 0, complete |-> FALSE]
MatchValues(t, from, end, last, m) ==
    WithMatch(t, from, end, last, m, GrammarValue(t, m.next, end - m.next, m))
JsonMatch(t, from, size) ==
    IF size < 1 THEN [ok |-> FALSE, last |-> 0, complete |-> FALSE]
    ELSE MatchValues(t, from, from + size, 0, Match(from, 0, 0))

-----------------------------------------------------------------------------
(* Encoding into a buffer of the size that was calculated before.          *)

\* dtn_item_json_config_stringify_minimal and _default.
Minimal == [line |-> <<>>, indent |-> <<>>]
Default == [line |-> <<"_">>, indent |-> <<"_">>]

Kind(v) == v[1]
Content(v) == v[2]
IsEmpty(v) == Kind(v) \in {"array", "object"} /\ DOMAIN Content(v) = {}
IsNested(v) == Kind(v) \in {"array", "object"} /\ ~IsEmpty(v)

\* dtn_json_parser_collocate_ascending: a key goes before the first that is
\* larger at the first difference; a key that has ended is smaller.
Before(k, s) ==
    \E x \in 1 .. Len(k) + 1 :
       /\ x <= Len(s) + 1 /\ SubSeq(k, 1, x - 1) = SubSeq(s, 1, x - 1)
       /\ x <= Len(s) /\ (x > Len(k) \/ Rank[k[x]] < Rank[s[x]])
Collocate(list, k) ==
    LET larger == {i \in DOMAIN list : Before(k, list[i])}
    IN IF larger = {} THEN Append(list, k) ELSE InsertAt(list, Least(larger), k)
Keys(v) == FoldLeft(Collocate, <<>>, SetToSeq(DOMAIN Content(v)))

RECURSIVE Calculate(_, _, _)
Calculate(v, c, depth) ==
    LET indent == depth * Len(c.indent)
        entries == Len(c.line) * 2 + 2 + indent * 2
        separator == 1 + Len(c.line)
        inner == (depth + 1) * Len(c.indent)
    IN CASE Kind(v) = "literal" -> Len(Literal)
         [] Kind(v) = "number" -> Len(Content(v))
         [] Kind(v) = "string" -> Len(Content(v)) + 2
         [] IsEmpty(v) -> 2
         [] Kind(v) = "array" /\ ~IsEmpty(v) ->
              FoldLeft(LAMBDA n, x : n + separator + Calculate(x, c, depth + 1) + (IF IsNested(x) THEN 0 ELSE inner),
                       entries - separator, Content(v))
         [] OTHER ->
              FoldLeft(LAMBDA n, k : n + inner + Len(k) + 3 + (IF IsNested(Content(v)[k]) THEN Len(c.indent) ELSE 0)
                                       + Calculate(Content(v)[k], c, depth + 1) + separator,
                       entries - separator, Keys(v))

\* A buffer with what was written to it.
Left(w) == Minus(w.size, Len(w.text))
Put(w, s) == [w EXCEPT !.text = @ \o s]
WriteIf(w, enough, s) == IF w.ok /\ enough THEN Put(w, s) ELSE [w EXCEPT !.ok = FALSE]
Write(w, s) == WriteIf(w, Left(w) >= Len(s), s)
Indent(w, c, depth) ==
    IF c.indent = <<>> THEN w
    ELSE WriteIf(w, Left(w) >= depth /\ (depth > 0 => Left(w) > depth), [i \in 1 .. depth |-> "_"])

Intro(w, c, depth, open) == Write(Indent(w, c, depth), <<open>> \o c.line)
Outro(w, c, depth, close) == Write(Indent(Write(w, c.line), c, depth), <<close>>)
Separated(w, c) == Write(w, <<",">> \o c.line)
\* Mutant: one character is taken back.
TakenBackComma(w, c) == [w EXCEPT !.text = SubSeq(@, 1, Len(@) - 1)]

\* The last separator is taken back.
TakenBack(w, c) == [w EXCEPT !.text = SubSeq(@, 1, Len(@) - 1 - Len(c.line))]

RECURSIVE Encode(_, _, _, _)
EncodeItem(w, c, depth, v) == Encode(IF IsNested(v) THEN w ELSE Indent(w, c, depth), c, depth, v)
EncodeArray(w, c, depth, v) ==
    LET all == FoldLeft(LAMBDA s, i : LET e == EncodeItem(s, c, depth + 1, Content(v)[i])
                                      IN IF i < Len(Content(v)) THEN Separated(e, c) ELSE e,
                        Intro(w, c, depth, "["), [i \in DOMAIN Content(v) |-> i])
    IN Outro(all, c, depth, "]")

EncodePair(w, c, depth, k, v) ==
    LET key == Write(Write(Indent(w, c, depth), <<"q">> \o k \o <<"q">>), <<":">>)
        gap == WriteIf(key, Left(key) >= 2, IF IsNested(v) THEN c.line ELSE <<>>)
    IN Separated(Encode(gap, c, depth, v), c)
EncodeObject(w, c, depth, v) ==
    LET all == FoldLeft(LAMBDA s, k : EncodePair(s, c, depth + 1, k, Content(v)[k]),
                        Intro(w, c, depth, "{"), Keys(v))
    IN Outro(TakenBack(all, c), c, depth, "}")

Encode(w, c, depth, v) ==
    CASE Kind(v) = "literal" -> Write(w, Literal)
      [] Kind(v) = "number" -> Write(w, Content(v))
      [] Kind(v) = "string" -> Write(w, <<"q">> \o Content(v) \o <<"q">>)
      [] Kind(v) = "array" /\ IsEmpty(v) -> Put(w, <<"[", "]">>)
      [] Kind(v) = "object" /\ IsEmpty(v) -> Write(w, <<"{", "}">>)
      [] Kind(v) = "array" /\ ~IsEmpty(v) -> EncodeArray(w, c, depth, v)
      [] OTHER -> EncodeObject(w, c, depth, v)

\* dtn_item_to_json_with_config.
ToJson(v, c) == Encode([ok |-> TRUE, text |-> <<>>, size |-> Calculate(v, c, 0)], c, 0, v)

-----------------------------------------------------------------------------
(* dtn_json_io_buffer: the text of a stream arrives in pieces of any size. *)

VARIABLES
    items, config,  \* what is sent, and how
    text,           \* what has yet to arrive
    kept,           \* the buffer
    got,            \* the items given to the callback
    failed          \* the failure callback was called, and the buffer dropped

vars == <<items, config, text, kept, got, failed>>

Init ==
    /\ items \in Streams /\ config \in {Minimal, Default}
    /\ text = FlattenSeq([i \in DOMAIN items |-> ToJson(items[i], config).text])
    /\ kept = <<>> /\ got = <<>> /\ failed = FALSE

\* dtn_json_io_buffer_push from position start on; what could not be decoded
\* is passed over and stays in the buffer.
RECURSIVE Parse(_, _, _)
Parsed(buffer, d, last, values) ==
    IF d.ok THEN Parse(SubSeq(buffer, last + 1, Len(buffer)), 1, Append(values, d.item))
    ELSE Parse(buffer, last + 1, values)
ParseMatched(buffer, at, m, values) ==
    IF (ObjectsOnly /\ At(buffer, at) # "{") \/ ~m.ok THEN [ok |-> FALSE, buffer |-> <<>>, values |-> values]
    ELSE IF m.last = 0 THEN [ok |-> TRUE, buffer |-> buffer, values |-> values]
    ELSE Parsed(buffer, FromJson(buffer, at, m.last - at + 1), m.last, values)
ParseFrom(buffer, c, values) == ParseMatched(buffer, c.at, JsonMatch(buffer, c.at, c.left), values)
Parse(buffer, start, values) ==
    IF start > Len(buffer) THEN [ok |-> TRUE, buffer |-> buffer, values |-> values]
    ELSE ParseFrom(buffer, ClearSpace(buffer, start, Len(buffer) - start + 1), values)

Arrive ==
    \E k \in 1 .. Lesser(MaxChunk, Len(text)) :
       \E p \in {Parse(kept \o SubSeq(text, 1, k), 1, got)} :
          /\ ~failed
          /\ text' = SubSeq(text, k + 1, Len(text))
          /\ kept' = p.buffer /\ got' = p.values /\ failed' = ~p.ok
          /\ UNCHANGED <<items, config>>

Next == Arrive
Spec == Init /\ [][Next]_vars

(***************************************************************************)
(* Properties.                                                             *)
(***************************************************************************)
\* Text that comes back: not empty, and without a bracket, which would be
\* counted.  (A text with a backslash at its end hides the quote; no stream
\* gets beyond it.)
PlainText(s) ==
    s # <<>> /\ \A i \in DOMAIN s : s[i] \notin {"[", "]", "{", "}"}
RECURSIVE Plain(_)
Plain(v) ==
    CASE Kind(v) = "string" -> PlainText(Content(v))
      [] Kind(v) \in {"array", "object"} ->
           \A k \in DOMAIN Content(v) : Plain(Content(v)[k]) /\ (Kind(v) = "object" => PlainText(k))
      [] OTHER -> TRUE

\* An item is written in the size that was calculated for it, its text is
\* matched as a whole, its beginnings as beginnings only, and it is read again.
WrittenIsRead ==
    kept = <<>> /\ got = <<>> =>
       \A i \in DOMAIN items :
          \A w \in {ToJson(items[i], config)} :
             /\ w.ok /\ Len(w.text) = w.size
             /\ JsonMatch(w.text, 1, w.size).complete
             /\ Kind(items[i]) \in {"array", "object"} =>
                   \A k \in 1 .. w.size - 1 :
                      \A m \in {JsonMatch(w.text, 1, k)} : m.ok /\ ~m.complete
             /\ Plain(items[i]) => FromJson(w.text, 1, w.size) = Decoded(items[i], w.size)

\* However the text is cut, the callback gets the items that were sent, in
\* order; those that do not come back are passed over, and hold up no other.
StreamIsRead ==
    LET plain == SelectSeq(items, Plain)
        read == SelectSeq(got, Plain)
    IN /\ ~failed
       /\ \A i \in DOMAIN got : \E j \in DOMAIN items : got[i] = items[j]
       /\ IsPrefix(read, plain)
       /\ text = <<>> => read = plain

\* dtn_json_grammar.h:173: "if true, return success, even if the JSON parsing
\* is unfinished, but valid up to size": no beginning of what was written is
\* taken for something that is not JSON, wherever the stream was cut.
BeginningMatches == ~failed
=============================================================================
