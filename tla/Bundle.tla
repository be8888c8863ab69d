------------------------------- MODULE Bundle -------------------------------
(***************************************************************************)
(* dtn_bundle.c without its security part: a bundle is an array of blocks, *)
(* the primary block first and the payload block last, each an array with  *)
(* its own checksum behind its items.                                      *)
(***************************************************************************)
EXTENDS Cbor

CONSTANTS
    Crc16(_),   \* crc16x25: the 2 bytes of the checksum of a byte sequence
    Crc32(_)    \* dtn_crc32c: the 4 bytes

Odd(flags) == flags % 2 = 1     \* flag 1: the bundle is a fragment

Blocks(bundle) == bundle[2]
Primary(bundle) == ArrayGet(bundle, 0)

(***************************************************************************)
(* Checksums are over the block's bytes with the checksum, which are its   *)
(* last, zeroed.                                                           *)
(***************************************************************************)
Zeroed(bytes, width) == [i \in DOMAIN bytes |-> IF i > Len(bytes) - width THEN 0 ELSE bytes[i]]

CrcWidth(type) == IF type = 1 THEN 2 ELSE 4
SumOver(bytes, type) ==
    IF bytes = FAIL THEN FAIL
    ELSE IF type = 1 THEN Crc16(Zeroed(bytes, 2)) ELSE Crc32(Zeroed(bytes, 4))
Checksum(block, type) == SumOver(Encode(block, EncodingSize(block)), type)

\* What get_byte_string finds: the bytes of whatever item has some.
BytesOf(c) == IF c[1] \in {"string", "utf8", "time", "ubignum", "ibignum"} THEN c[2] ELSE <<>>

CheckCrcLength(block, type, crc) == Len(BytesOf(crc)) >= CrcWidth(type)
CheckCrc(block, type, crc) ==
    /\ Len(BytesOf(crc)) >= CrcWidth(type)
    /\ Checksum(block, type) = SubSeq(BytesOf(crc), 1, CrcWidth(type))

CheckPrimaryBlock(block) ==
    LET item(i) == ArrayGet(block, i)
        fragment == Odd(GetUint(item(1)))
    IN /\ ArrayCount(block) >= 8
       /\ item(0) = Uint(7) /\ \A i \in {1, 2, 7} \cup (IF fragment THEN {8, 9} ELSE {}) : IsUint(item(i))
       /\ item(2)[2] \in {0, 1, 2}
       /\ \A i \in 3 .. 5 : IsString(item(i))
       /\ IsArray(item(6)) /\ ArrayCount(item(6)) = 2
       /\ item(2) # Uint(0) => CheckCrc(block, item(2)[2], item(IF fragment THEN 10 ELSE 8))

CheckCanonicalBlock(block) ==
    LET item(i) == ArrayGet(block, i)
    IN /\ ArrayCount(block) >= 5
       /\ \A i \in 0 .. 3 : IsUint(item(i))
       /\ item(3)[2] \in {0, 1, 2}
       /\ IsString(item(4))
       /\ item(3) # Uint(0) => CheckCrc(block, item(3)[2], item(5))

CheckCanonicalBlocks(bundle) ==
    \A i \in 2 .. ArrayCount(bundle) : CheckCanonicalBlock(Blocks(bundle)[i])

CheckPayloadBlock(bundle) == ArrayGet(ArrayGet(bundle, ArrayCount(bundle) - 1), 0) = Uint(1)

Verify(bundle) ==
    CheckPrimaryBlock(Primary(bundle)) /\ CheckCanonicalBlocks(bundle) /\ CheckPayloadBlock(bundle)

(***************************************************************************)
(* Decoding, of size bytes from the beginning of b.                        *)
(***************************************************************************)
\* What the items of a primary block may be, as far as they have arrived; the
\* checksum is taken for an array of two.
FitsAddress(items) ==
    LET n == Len(items)
    IN CASE n \in 4 .. 7 -> IsString(items[n])
         [] OTHER -> IsUint(items[n])
FitsPrimary(items) ==
    LET n == Len(items)
        last == items[n]
    IN CASE n = 1 -> last = Uint(7)
         [] n \in {2, 3, 8} -> IsUint(last)
         [] n \in 4 .. 6 -> IsString(last)
         [] n = 7 -> IsArray(last) /\ ArrayCount(last) = 2
         [] OTHER -> IF Odd(GetUint(items[2])) /\ n \in {9, 10} THEN IsUint(last)
                     ELSE IsArray(last) /\ ArrayCount(last) = 2

PrimaryItems(items) ==
    8 + (IF Odd(GetUint(items[2])) THEN 2 ELSE 0) + (IF GetUint(items[3]) > 0 THEN 1 ELSE 0)

RECURSIVE CheckItems(_, _, _)
CheckItems(b, at, items) ==
    IF at > Len(b) \/ (Len(items) >= 8 /\ Len(items) = PrimaryItems(items)) THEN TRUE
    ELSE \E one \in {Decode(b, at, Len(b) - at + 1)} :
            \/ one.match = "partial"
            \/ /\ one.match = "full"
               /\ FitsPrimary(Append(items, one.item))
               /\ CheckItems(b, one.next, Append(items, one.item))

CheckPrimaryBytes(b) == b[1] \in 136 .. 139 /\ CheckItems(b, 2, <<>>)

\* The loop is left behind the break byte, or where an item ends beyond the
\* bytes (next is not written then).
BlockHeads(blocks) == IF blocks = <<>> THEN 136 .. 139 ELSE {133, 134}
GoodBlock(block, blocks) == IF blocks = <<>> THEN CheckPrimaryBlock(block) ELSE CheckCanonicalBlock(block)

RECURSIVE DecodeBlocks(_, _, _, _)
AfterBlock(one, b, at, end, blocks) ==
    CASE one.match = "none" -> NONE
      [] one.match = "partial" ->
           IF blocks = <<>> /\ ~CheckPrimaryBytes(Bytes(b, at, one.next - at)) THEN NONE
           ELSE Partial(one.next)
      [] OTHER ->
           IF ~GoodBlock(one.item, blocks) THEN NONE
           ELSE IF one.next = end THEN Partial(one.next)
           ELSE IF ByteAt(b, one.next) = 255 THEN Full(Append(blocks, one.item), one.next + 1)
           ELSE DecodeBlocks(b, one.next, end, Append(blocks, one.item))
DecodeBlocks(b, at, end, blocks) ==
    IF at > end THEN Full(blocks, 0)
    ELSE IF ByteAt(b, at) \notin BlockHeads(blocks) THEN NONE
    ELSE AfterBlock(Decode(b, at, end - at), b, at, end, blocks)

Verified(bundle, next) == IF ArrayCount(bundle) < 2 \/ ~Verify(bundle) THEN NONE ELSE Full(bundle, next)
WholeBundle(r) == IF r.match = "full" THEN Verified(Array(r.item), r.next) ELSE r
DecodeBundle(b, size) ==
    IF size < 1 \/ b[1] # 159 THEN NONE
    ELSE IF size = 1 THEN Partial(1) ELSE WholeBundle(DecodeBlocks(b, 2, size + 1, <<>>))

(***************************************************************************)
(* Encoding sets the checksums of the blocks first, one after the other:   *)
(* those set stay set when a later one fails.                              *)
(***************************************************************************)
Ok(block) == [ok |-> TRUE, block |-> block]
Failed(block) == [ok |-> FALSE, block |-> block]

\* The checksum goes over the first bytes of the item that is there, whatever
\* their number; without one, one of the right length is made.
Summed(block, sum, old, crc) ==
    IF sum = FAIL \/ ~IsString(old) \/ old[2] = <<>> THEN Failed(block)
    ELSE Ok(ArraySet(block, crc, ByteString([i \in DOMAIN old[2] |-> IF i <= Len(sum) THEN sum[i] ELSE old[2][i]])))
WithCrc(block, type, crc) == Summed(block, Checksum(block, type), ArrayGet(block, crc), crc)

NewCrc(type) == ByteString(IF type = 1 THEN <<49, 50>> ELSE <<49, 50, 51, 52>>)

\* The item holds the type; there is a checksum already in the blocks
\* that have one of these counts.
SetCrcAt(block, item, counts) ==
    CASE ~IsUint(item) \/ GetUint(item) > 2 -> Failed(block)
      [] item = Uint(0) -> Ok(block)
      [] OTHER -> WithCrc(IF ArrayCount(block) \in counts THEN block ELSE ArrayPush(block, NewCrc(item[2])),
                          item[2], IF ArrayCount(block) \in counts THEN ArrayCount(block) - 1 ELSE ArrayCount(block))

SetCrcPrimary(block) == SetCrcAt(block, ArrayGet(block, 2), {9, 11})
PushCrcBlock(block) == SetCrcAt(block, ArrayGet(block, 3), {})
SetCrcBlock(block) == SetCrcAt(block, ArrayGet(block, 3), {6})

SetAll(bundle, set) ==
    [ok |-> \A i \in DOMAIN set : set[i].ok,
     block |-> Array([i \in DOMAIN set |->
                        IF \A k \in 1 .. i - 1 : set[k].ok THEN set[i].block ELSE Blocks(bundle)[i]])]
SetCrcs(bundle) ==
    SetAll(bundle, [i \in DOMAIN Blocks(bundle) |->
                      IF i = 1 THEN SetCrcPrimary(Blocks(bundle)[1]) ELSE SetCrcBlock(Blocks(bundle)[i])])

\* The bytes, or FAIL, and the bundle as it is left.
Encoded(set, size) ==
    [bundle |-> set.block,
     bytes |-> IF size < 1 \/ ~set.ok \/ ~Verify(set.block) THEN FAIL
               ELSE EncodeIndefinite(Blocks(set.block), size)]
EncodeBundle(bundle, size) == Encoded(SetCrcs(bundle), size)

BundleEncodingSize(bundle) == EncodingSize(bundle)

(***************************************************************************)
(* The primary block.  A setter of an item that is not there yet pushes    *)
(* it, so that the items are to be set in their order; one that finds an   *)
(* item of another type leaves it.                                         *)
(***************************************************************************)
NoBundle == Array(<<>>)

PutInto(array, i, item) ==
    IF ArrayGet(array, i) = NoItem THEN ArrayPush(array, item)
    ELSE IF ArrayGet(array, i)[1] = item[1] THEN ArraySet(array, i, item)
    ELSE array
Put(bundle, i, item) ==
    IF Primary(bundle) = NoItem THEN bundle
    ELSE ArraySet(bundle, 0, PutInto(Primary(bundle), i, item))

PrimaryGetVersion(bundle) == GetUint(ArrayGet(Primary(bundle), 0))
PrimaryGetFlags(bundle) == GetUint(ArrayGet(Primary(bundle), 1))
PrimaryGetCrcType(bundle) == GetUint(ArrayGet(Primary(bundle), 2))
PrimaryGetDestination(bundle) == ArrayGet(Primary(bundle), 3)
PrimaryGetSource(bundle) == ArrayGet(Primary(bundle), 4)
PrimaryGetReport(bundle) == ArrayGet(Primary(bundle), 5)
PrimaryGetTimestamp(bundle) == ArrayGet(Primary(bundle), 6)
PrimaryGetLifetime(bundle) == GetUint(ArrayGet(Primary(bundle), 7))
PrimaryGetFragmentOffset(bundle) == GetUint(ArrayGet(Primary(bundle), 8))
PrimaryGetTotalDataLength(bundle) == GetUint(ArrayGet(Primary(bundle), 9))

\* The version makes the primary block.
PrimarySetVersion(bundle) ==
    Put(IF Primary(bundle) = NoItem THEN ArrayPush(bundle, Array(<<>>)) ELSE bundle, 0, Uint(7))
PrimarySetFlags(bundle, flags) == Put(bundle, 1, Uint(flags))
PrimarySetCrcType(bundle, type) == Put(bundle, 2, Uint(type))
PrimarySetDestination(bundle, s) == Put(bundle, 3, ByteString(s))
PrimarySetSource(bundle, s) == Put(bundle, 4, ByteString(s))
PrimarySetReport(bundle, s) == Put(bundle, 5, ByteString(s))
OrEmpty(item) == IF IsArray(item) THEN item ELSE Array(<<>>)
PrimarySetTimestamp(bundle, time, seq) ==
    Put(bundle, 6, PutInto(PutInto(OrEmpty(PrimaryGetTimestamp(bundle)), 0, Uint(time)), 1, Uint(seq)))
PrimarySetLifetime(bundle, n) == Put(bundle, 7, Uint(n))
PrimarySetFragmentOffset(bundle, n) == Put(bundle, 8, Uint(n))
PrimarySetTotalDataLength(bundle, n) == Put(bundle, 9, Uint(n))

\* p: the arguments, as a record; only a bundle without a block takes one.
WithFragment(bundle, p) ==
    IF Odd(p.flags) THEN PrimarySetTotalDataLength(PrimarySetFragmentOffset(bundle, p.offset), p.length) ELSE bundle
AddPrimaryBlock(bundle, p) ==
    IF Primary(bundle) # NoItem THEN bundle
    ELSE WithFragment(PrimarySetLifetime(PrimarySetTimestamp(PrimarySetReport(PrimarySetSource(
           PrimarySetDestination(PrimarySetCrcType(PrimarySetFlags(PrimarySetVersion(bundle),
           p.flags), p.crc), p.destination), p.source), p.report), p.time, p.seq), p.lifetime), p)

(***************************************************************************)
(* The other blocks.                                                       *)
(***************************************************************************)
AddBlock(bundle, code, nbr, flags, crc, data) ==
    LET head == <<Uint(code), Uint(nbr), Uint(flags), Uint(crc)>>
    IN ArrayPush(bundle, Array(IF data = NoItem THEN head ELSE Append(head, data)))

AddPreviousNode(bundle, node) == AddBlock(bundle, 6, 6, 0, 0, ByteString(node))
\* The data of these two is not a string, which Verify asks for.
AddBundleAge(bundle, age) == AddBlock(bundle, 7, 7, 0, 0, Uint(age))
AddHopCount(bundle, count, limit) == AddBlock(bundle, 10, 10, 0, 0, Array(<<Uint(limit), Uint(count)>>))

GetCode(block) == GetUint(ArrayGet(block, 0))
GetNumber(block) == GetUint(ArrayGet(block, 1))
GetFlags(block) == GetUint(ArrayGet(block, 2))
GetCrcType(block) == GetUint(ArrayGet(block, 3))
GetData(block) == ArrayGet(block, 4)

SetCode(block, n) == ArraySet(block, 0, SetUint(ArrayGet(block, 0), n))
SetNumber(block, n) == ArraySet(block, 1, SetUint(ArrayGet(block, 1), n))
SetFlags(block, n) == ArraySet(block, 2, SetUint(ArrayGet(block, 2), n))
SetCrcType(block, n) == ArraySet(block, 3, SetUint(ArrayGet(block, 3), n))
SetData(block, data) == ArraySet(block, 4, data)

\* The position of the block with a number, 0 for the primary block; there is
\* none beyond the blocks.
PositionOf(bundle, nbr) ==
    IF nbr = 0 \/ ArrayCount(bundle) = 0 THEN 0
    ELSE CHOOSE i \in 1 .. ArrayCount(bundle) :
            /\ \A j \in 1 .. i - 1 : GetNumber(Blocks(bundle)[j + 1]) # nbr
            /\ i < ArrayCount(bundle) => GetNumber(Blocks(bundle)[i + 1]) = nbr
GetBlock(bundle, nbr) == ArrayGet(bundle, PositionOf(bundle, nbr))

SetRaw(bundle, array) == IF IsArray(array) THEN array ELSE bundle
CopyBundle(bundle) == Copy(bundle)
=============================================================================
