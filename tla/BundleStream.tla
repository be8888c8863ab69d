---------------------------- MODULE BundleStream ----------------------------
(***************************************************************************)
(* A bundle from node to node: a node builds one with the calls of         *)
(* dtn_bundle.h, encodes it and sends it; the bytes arrive one after the   *)
(* other at the next node, which tries to decode what it has each time,    *)
(* may change the bundle and sends it on.  On the way one byte may change. *)
(***************************************************************************)
EXTENDS Bundle

CONSTANTS
    Primaries,      \* arguments of dtn_bundle_add_primary_block
    Payloads,       \* byte sequences
    Addresses,      \* for the destination, the source and the previous node
    BufferSize,
    MaxChanges,     \* bound on the calls that change a bundle
    MaxBlocks,      \* bound on its blocks
    MaxHops,        \* bound on the times it is sent
    Damages         \* {<<position, byte>>}: bytes that change on the way

VARIABLES
    bundle,     \* the bundle of the node that works on it
    sent,       \* the bundle that was sent
    wire,       \* its bytes, as they arrive
    damaged,
    arrived,    \* how many have arrived
    answer,     \* what decoding these said
    changes, hops

vars == <<bundle, sent, wire, damaged, arrived, answer, changes, hops>>

Init ==
    /\ bundle = NoBundle /\ sent = NoBundle
    /\ wire = <<>> /\ damaged = FALSE /\ arrived = 0 /\ answer = Partial(1)
    /\ changes = 0 /\ hops = 0

AtWork == wire = <<>>

Becomes(new) ==
    /\ AtWork /\ new # bundle
    /\ changes < MaxChanges /\ changes' = changes + 1
    /\ bundle' = new
    /\ UNCHANGED <<sent, wire, damaged, arrived, answer, hops>>

AddPrimary ==
    /\ AtWork /\ Primary(bundle) = NoItem
    /\ \E p \in Primaries : bundle' = AddPrimaryBlock(bundle, p)
    /\ UNCHANGED <<sent, wire, damaged, arrived, answer, changes, hops>>

AddPayload ==
    /\ Primary(bundle) # NoItem /\ ArrayCount(bundle) < MaxBlocks
    /\ \E data \in Payloads, crc \in 0 .. 2 :
         Becomes(AddBlock(bundle, 1, 1, 0, crc, ByteString(data)))

AddExtension ==
    /\ Primary(bundle) # NoItem /\ ArrayCount(bundle) < MaxBlocks
    /\ \/ \E a \in Addresses : Becomes(AddPreviousNode(bundle, a))
       \/ Becomes(AddBundleAge(bundle, 1))
       \/ Becomes(AddHopCount(bundle, 1, 2))

ChangePrimary ==
    \/ \E n \in 0 .. 1 : Becomes(PrimarySetFlags(bundle, n))
    \/ \E n \in 0 .. 2 : Becomes(PrimarySetCrcType(bundle, n))
    \/ \E a \in Addresses : \/ Becomes(PrimarySetDestination(bundle, a))
                            \/ Becomes(PrimarySetSource(bundle, a))
                            \/ Becomes(PrimarySetReport(bundle, a))
    \/ Becomes(PrimarySetTimestamp(bundle, 3, 4))
    \/ Becomes(PrimarySetLifetime(bundle, 5))
    \/ Becomes(PrimarySetFragmentOffset(bundle, 6))
    \/ Becomes(PrimarySetTotalDataLength(bundle, 7))

ChangeBlock ==
    \E nbr \in {1, 6} :
      \E i \in {PositionOf(bundle, nbr)}, block \in {GetBlock(bundle, nbr)} :
         /\ block # NoItem
         /\ \/ \E data \in Payloads : Becomes(ArraySet(bundle, i, SetData(block, ByteString(data))))
            \/ \E n \in 0 .. 2 : Becomes(ArraySet(bundle, i, SetCrcType(block, n)))
            \/ Becomes(ArraySet(bundle, i, SetFlags(block, 1)))
            \/ Becomes(ArraySet(bundle, i, SetNumber(block, 3)))
            \/ Becomes(ArraySet(bundle, i, SetCode(block, 192)))

\* A node goes on with a copy.
WorkOnCopy ==
    /\ CopyBundle(bundle) # NoItem
    /\ Becomes(SetRaw(bundle, CopyBundle(bundle)))

\* The node encodes and sends; a bundle that is not encoded keeps the
\* checksums that were set, one more each time it is tried.
Send ==
    /\ AtWork /\ hops < MaxHops
    /\ \E e \in {EncodeBundle(bundle, BufferSize)} :
         IF e.bytes = FAIL THEN Becomes(e.bundle)
         ELSE /\ bundle' = e.bundle /\ sent' = e.bundle
              /\ wire' = e.bytes /\ arrived' = 0 /\ answer' = Partial(1)
              /\ hops' = hops + 1 /\ damaged' = FALSE
              /\ UNCHANGED changes

Damage ==
    /\ wire # <<>> /\ arrived = 0 /\ ~damaged
    /\ \E d \in Damages :
         /\ d[1] <= Len(wire) /\ wire[d[1]] # d[2]
         /\ wire' = [wire EXCEPT ![d[1]] = d[2]]
    /\ damaged' = TRUE
    /\ UNCHANGED <<bundle, sent, arrived, answer, changes, hops>>

Arrive ==
    /\ arrived < Len(wire) /\ answer.match = "partial"
    /\ arrived' = arrived + 1
    /\ answer' = DecodeBundle(SubSeq(wire, 1, arrived + 1), arrived + 1)
    /\ UNCHANGED <<bundle, sent, wire, damaged, changes, hops>>

\* The next node takes over what it has decoded.
TakeOver ==
    /\ wire # <<>> /\ answer.match = "full"
    /\ bundle' = answer.item
    /\ wire' = <<>> /\ arrived' = 0 /\ answer' = Partial(1) /\ damaged' = FALSE
    /\ UNCHANGED <<sent, changes, hops>>

Next ==
    \/ AddPrimary \/ AddPayload \/ AddExtension \/ ChangePrimary \/ ChangeBlock \/ WorkOnCopy
    \/ Send \/ Damage \/ Arrive \/ TakeOver

Spec == Init /\ [][Next]_vars

(***************************************************************************)
(* Properties.                                                             *)
(***************************************************************************)
\* Of a bundle that arrives unchanged, dtn_bundle_decode calls every beginning
\* partial, and the whole is the bundle that was sent.
WholeOrPartial ==
    wire # <<>> /\ ~damaged /\ arrived > 0 =>
        answer = IF arrived = Len(wire) THEN Full(sent, arrived + 1) ELSE Partial(answer.next)

\* A bundle whose blocks all carry a checksum is not taken with another
\* payload, destination or source than was sent when one byte has changed.
DamageNoticed ==
    wire # <<>> /\ answer.match = "full" =>
        \/ PrimaryGetCrcType(sent) = 0
        \/ \E i \in 2 .. ArrayCount(sent) : GetCrcType(Blocks(sent)[i]) = 0
        \/ /\ PrimaryGetDestination(answer.item) = PrimaryGetDestination(sent)
           /\ PrimaryGetSource(answer.item) = PrimaryGetSource(sent)
           /\ GetData(GetBlock(answer.item, 1)) = GetData(GetBlock(sent, 1))

\* A bundle that was encoded takes, encoded again, the same bytes, and no more
\* than dtn_bundle_encoding_size says.
EncodedAgain ==
    wire # <<>> /\ ~damaged /\ arrived = 0 =>
        /\ EncodeBundle(sent, BufferSize).bytes = wire
        /\ Len(wire) <= BundleEncodingSize(sent)
=============================================================================
