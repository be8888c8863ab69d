--------------------------- MODULE BundleSecurity ---------------------------
(***************************************************************************)
(* The security part of dtn_bundle.c: integrity blocks with an HMAC over a *)
(* target block, confidentiality blocks whose targets' data are encrypted; *)
(* and dtn_bpsec.c, the abstract security block that is the data of both.  *)
(* Keys, hashes and ciphertexts are terms: a hash is what it was taken of, *)
(* and only the key and the additional data of an encryption undo it.      *)
(* Written to bytes an abstract security block is one more string; that it *)
(* is one is what decoding finds out: <<"plain", p>>, <<"asb", block>>.    *)
(* At the end, a bundle that a node protects as its configuration says (the *)
(* tunnel node and the file node do it alike), that something on the way may *)
(* change, and that is unprotected and verified with the calls of dtn_bundle.h. *)
(***************************************************************************)
EXTENDS Bundle

\* dtn_bpsec.c.
NewAsb ==
    [target |-> Array(<<>>), context |-> Uint(0), flags |-> Uint(0),
     source |-> Array(<<>>), parameter |-> Array(<<>>), results |-> Array(<<>>)]

AddTarget(asb, nbr) == [asb EXCEPT !.target = ArrayPush(@, Uint(nbr))]
SetContextId(asb, n) == [asb EXCEPT !.context = SetUint(@, n)]
SetContextFlags(asb, n) == [asb EXCEPT !.flags = SetUint(@, n)]

\* uri: [scheme, name]; the id of an entry is that of the scheme, not that of
\* the target.
SetSource(asb, uri) ==
    [asb EXCEPT !.source =
        ArrayPush(@, Array(<<Uint(IF uri.scheme = "dtn" THEN 1 ELSE 2), ByteString(uri.name)>>))]

\* find_source_id: the name under the id; more than one, an unknown id or none
\* is no source.
NoSource == <<>>
GetSource(asb, id) ==
    LET entries == SelectSeq(asb.source[2], LAMBDA e : ArrayGet(e, 0) = Uint(id))
    IN IF Len(entries) = 1 /\ id \in {1, 2} THEN ArrayGet(entries[1], 1)[2] ELSE NoSource

AddContextParameter(asb, id, value) ==
    [asb EXCEPT !.parameter = ArrayPush(@, Array(<<Uint(id), value>>))]

\* The value of the parameter at a position if it has the id, counted from 0.
Parameter(asb, i, id) ==
    LET p == ArrayGet(asb.parameter, i)
    IN IF IsArray(p) /\ ArrayGet(p, 0) = Uint(id) THEN ArrayGet(p, 1) ELSE NoItem

AddAesVariant(asb, aes) == AddContextParameter(asb, 2, Uint(IF aes = "A128GCM" THEN 1 ELSE 3))
GetAesVariant(asb) == IF Parameter(asb, 1, 2) = Uint(1) THEN "A128GCM" ELSE "A256GCM"

AddShaVariant(asb, sha) ==
    AddContextParameter(asb, 1, Uint(CASE sha = "HMAC256" -> 5 [] sha = "HMAC384" -> 6 [] OTHER -> 7))
GetShaVariant(asb) ==
    CASE Parameter(asb, 0, 1) = Uint(5) -> "HMAC256"
      [] Parameter(asb, 0, 1) = Uint(7) -> "HMAC512"
      [] OTHER -> "HMAC384"

\* The key of a BIB is its second parameter; that of a BCB is its third, behind
\* the variant, whose id is 2 as well and which has no bytes.
AddWrappedKey(asb, key) == AddContextParameter(asb, 2, ByteString(key))
GetWrappedKey(asb, otherwise) ==
    IF Parameter(asb, 1, 2) = NoItem THEN otherwise ELSE BytesOf(Parameter(asb, 1, 2))

AddIv(asb, iv) == AddContextParameter(asb, 1, ByteString(iv))
GetIvBehind(asb, otherwise) ==
    IF Parameter(asb, 1, 1) = NoItem THEN otherwise ELSE BytesOf(Parameter(asb, 1, 1))
GetIv(asb, otherwise) ==
    IF Parameter(asb, 0, 1) = NoItem THEN otherwise ELSE BytesOf(Parameter(asb, 0, 1))

\* The last parameter holds the flags.
LastParameter(asb, id) == Parameter(asb, ArrayCount(asb.parameter) - 1, id)
AddIntegrityFlagsBib(asb, flags) == AddContextParameter(asb, 3, Uint(flags))
AddIntegrityFlagsBcb(asb, flags) == AddContextParameter(asb, 4, Uint(flags))
GetIntegrityFlagsBib(asb, otherwise) ==
    IF LastParameter(asb, 3) = NoItem THEN otherwise ELSE GetUint(LastParameter(asb, 3))
GetIntegrityFlagsBcb(asb, otherwise) ==
    IF LastParameter(asb, 4) = NoItem THEN otherwise ELSE GetUint(LastParameter(asb, 4))

\* Results are numbered from 1; the last one with a number is found.
AddResult(asb, result) ==
    [asb EXCEPT !.results = ArrayPush(@, Array(<<Uint(ArrayCount(@) + 1), ByteString(result)>>))]
NoResult == <<>>
GetResult(asb, id) ==
    LET found == SelectSeq(asb.results[2], LAMBDA r : ArrayGet(r, 0) = Uint(id))
    IN IF found = <<>> THEN NoResult ELSE ArrayGet(Last(found), 1)[2]

AsbEncode(asb) == ByteString(<<"asb", asb>>)
IsAsb(data) == data # NoItem /\ BytesOf(data) # <<>> /\ BytesOf(data)[1] = "asb"
AsbDecode(data) == BytesOf(data)[2]

-----------------------------------------------------------------------------

\* The cryptography: dtn_hmac, dtn_aes_key_wrap, gcm_encrypt and gcm_decrypt.
Hmac(sha, input, key) == <<"hmac", sha, key, input>>
KeyWrap(key, master) == <<"wrapped", key, master>>
CannotUnwrap == <<>>
KeyUnwrap(wrapped, master) == IF wrapped[3] = master THEN wrapped[2] ELSE CannotUnwrap
GcmCipher(aes, plain, key, iv) == <<"cipher", aes, key, iv, plain>>
GcmTag(aes, plain, aad, key, iv) == <<"tag", aes, key, iv, plain, aad>>
CannotDecrypt == <<>>
GcmDecrypt(aes, cipher, aad, tag, key, iv) ==
    IF /\ cipher[1] = "cipher" /\ SubSeq(cipher, 2, 4) = <<aes, key, iv>>
       /\ tag = GcmTag(aes, cipher[5], aad, key, iv)
    THEN cipher[5] ELSE CannotDecrypt

(***************************************************************************)
(* generate_hash_input.  What is hashed has no checksum: the types of the  *)
(* target's and, if it is part, the primary block's are set to 0.          *)
(***************************************************************************)
Covers(flags, bits) == (flags & bits) # 0

OwnCrcOff(bundle, target) ==
    IF target = 0 THEN bundle ELSE ArraySet(bundle, target, SetCrcType(ArrayGet(bundle, target), 0))
WithoutCrc(bundle, flags, target) ==
    OwnCrcOff(IF target = 0 \/ Covers(flags, 1) THEN PrimarySetCrcType(bundle, 0) ELSE bundle, target)

Header(block) == SubSeq(block[2], 1, 3)

HashInput(bundle, security, target, flags, payload) ==
    LET own == IF Covers(flags, 3) THEN Header(ArrayGet(bundle, security)) ELSE <<>>
        block == ArrayGet(bundle, target)
    IN IF target = 0 THEN <<Uint(flags)>> \o own \o <<Primary(bundle)>>
       ELSE <<Uint(flags)>>
            \o (IF Covers(flags, 1) THEN <<Primary(bundle)>> ELSE <<>>)
            \o (IF Covers(flags, 2) THEN Header(block) ELSE <<>>)
            \o own
            \o (IF payload THEN <<GetData(block)>> ELSE <<>>)

NumberOf(bundle, target) == IF target = 0 THEN 0 ELSE GetNumber(ArrayGet(bundle, target))
WithData(bundle, i, data) == ArraySet(bundle, i, SetData(ArrayGet(bundle, i), data))

\* dtn_bundle_bib_protect; new is the new key or <<>>.
HeadFor(number, id, source) == SetSource(SetContextFlags(SetContextId(AddTarget(NewAsb, number), id), 1), source)
Keyed(asb, key, new) == IF new = <<>> THEN asb ELSE AddWrappedKey(asb, KeyWrap(new, key))
UsedKey(key, new) == IF new = <<>> THEN key ELSE new

\* open: the bundle without the checksums.
ProtectOpen(open, bib, target, key, flags, sha, source, new) ==
    WithData(open, bib, AsbEncode(AddResult(
        AddIntegrityFlagsBib(Keyed(AddShaVariant(HeadFor(NumberOf(open, target), 1, source), sha), key, new), flags),
        Hmac(sha, HashInput(open, bib, target, flags, TRUE), UsedKey(key, new)))))
BibProtect(bundle, bib, target, key, flags, sha, source, new) ==
    ProtectOpen(WithoutCrc(bundle, flags, target), bib, target, key, flags, sha, source, new)

\* add_new_item_to_bcb, for a BCB that has a target: with its flags, its vector
\* and (a wrapped key is not found) the key as it is.
\* asb: the head as far as it is made; the tag comes behind it.
Encrypted(open, asb, bcb, target, flags, used, aes, iv, plain) ==
    WithData(WithData(open, bcb, AsbEncode(AddResult(asb,
                 GcmTag(aes, plain, HashInput(open, bcb, target, flags, FALSE), used, iv)))),
             target, ByteString(GcmCipher(aes, plain, used, iv)))
DataBytes(bundle, target) == BytesOf(GetData(ArrayGet(bundle, target)))

UnwrappedOr(wrapped, key) == IF wrapped = <<>> THEN key ELSE KeyUnwrap(wrapped, key)
AddToOpen(open, asb, bcb, target, key, flags) ==
    Encrypted(open, AddTarget(asb, NumberOf(open, target)), bcb, target, flags,
              UnwrappedOr(GetWrappedKey(asb, <<>>), key), GetAesVariant(asb), GetIv(asb, <<>>), DataBytes(open, target))
AddNewItemToBcb(bundle, asb, bcb, target, key) ==
    AddToOpen(WithoutCrc(bundle, GetIntegrityFlagsBcb(asb, 0), target), asb, bcb, target, key,
              GetIntegrityFlagsBcb(asb, 0))

\* dtn_bundle_bcb_protect; new is the new key or <<>>.
EncryptOpen(open, bcb, target, key, source, flags, aes, new, iv) ==
    Encrypted(open,
              AddIntegrityFlagsBcb(Keyed(AddAesVariant(AddIv(HeadFor(NumberOf(open, target), 2, source), iv), aes),
                                         key, new), flags),
              bcb, target, flags, UsedKey(key, new), aes, iv, DataBytes(open, target))
BcbProtect(bundle, bcb, target, key, source, flags, aes, new, iv) ==
    LET old == GetData(ArrayGet(bundle, bcb))
    IN IF IsAsb(old) THEN AddNewItemToBcb(bundle, AsbDecode(old), bcb, target, key)
       ELSE EncryptOpen(WithoutCrc(bundle, flags, target), bcb, target, key, source, flags, aes, new, iv)

IsBibProtected(bundle) == \E i \in DOMAIN Blocks(bundle) : GetCode(Blocks(bundle)[i]) = 11 /\ GetNumber(Blocks(bundle)[i]) # 0
IsBcbProtected(bundle) == \E i \in DOMAIN Blocks(bundle) : GetCode(Blocks(bundle)[i]) = 12 /\ GetNumber(Blocks(bundle)[i]) # 0

(***************************************************************************)
(* Verifying and unprotecting go over the blocks with one container, which *)
(* is not cleared between them: what a block does not say is as an earlier *)
(* one said, and the results are counted on.                               *)
(***************************************************************************)
Container == [wrapped |-> <<>>, iv |-> <<>>, flags |-> 0, count |-> 0]
Start(bundle) == [ok |-> TRUE, bundle |-> bundle, container |-> Container]
Stop(state) == [state EXCEPT !.ok = FALSE]

\* store: the master keys by the names of their sources.
MasterKey(store, source) == IF source \in DOMAIN store THEN store[source] ELSE <<>>
KeyOf(container, master) ==
    IF container.wrapped = <<>> THEN master ELSE KeyUnwrap(container.wrapped, master)

\* The source looked for is the one whose scheme has the number of the result.
CheckIntegrityForTarget(state, bib, asb, id, store) ==
    LET count == state.container.count + 1
        counted == [state EXCEPT !.container.count = count]
        target == PositionOf(state.bundle, id)
        flags == state.container.flags
        master == MasterKey(store, GetSource(asb, count))
        key == KeyOf(state.container, master)
        open == WithoutCrc(state.bundle, flags, target)
    IN IF target = ArrayCount(state.bundle) \/ GetResult(asb, count) = NoResult \/ master = <<>> \/ key = <<>>
       THEN Stop(counted)
       ELSE [counted EXCEPT
               !.bundle = open,
               !.ok = Hmac(GetShaVariant(asb), HashInput(open, bib, target, flags, TRUE), key) = GetResult(asb, count)]

BibVerifyBlock(state, bib, store) ==
    LET data == GetData(ArrayGet(state.bundle, bib))
        asb == AsbDecode(data)
        flags == GetIntegrityFlagsBib(asb, state.container.flags)
        read == [state EXCEPT !.container.wrapped = GetWrappedKey(asb, @),
                              !.container.flags = IF flags = 0 THEN 7 ELSE flags]
    IN IF GetCode(ArrayGet(state.bundle, bib)) # 11 THEN state
       ELSE IF ~IsAsb(data) \/ asb.context # Uint(1) THEN Stop(state)
       ELSE FoldLeft(LAMBDA s, id : IF s.ok THEN CheckIntegrityForTarget(s, bib, asb, GetUint(id), store) ELSE s,
                     read, asb.target[2])

\* The answer and the bundle, whose checksum types are reset on the way.
BibVerify(bundle, store) ==
    FoldLeft(LAMBDA s, i : IF s.ok THEN BibVerifyBlock(s, i - 1, store) ELSE s,
             Start(bundle), [i \in DOMAIN Blocks(bundle) |-> i])

BcbUnprotectTarget(state, bcb, asb, id, store) ==
    LET count == state.container.count + 1
        counted == [state EXCEPT !.container.count = count]
        target == PositionOf(state.bundle, id)
        flags == state.container.flags
        master == MasterKey(store, GetSource(asb, 1))
        key == KeyOf(state.container, master)
        open == WithoutCrc(state.bundle, flags, target)
        plain == GcmDecrypt(GetAesVariant(asb), BytesOf(GetData(ArrayGet(open, target))),
                            HashInput(open, bcb, target, flags, FALSE), GetResult(asb, count), key,
                            state.container.iv)
    IN IF target = ArrayCount(state.bundle) THEN Stop(state)
       ELSE IF GetResult(asb, count) = NoResult \/ master = <<>> \/ key = <<>> THEN Stop(counted)
       ELSE IF plain = CannotDecrypt THEN Stop([counted EXCEPT !.bundle = open])
       ELSE [counted EXCEPT !.bundle = WithData(open, target, ByteString(plain))]

BcbUnprotectBlock(state, bcb, store) ==
    LET data == GetData(ArrayGet(state.bundle, bcb))
        asb == AsbDecode(data)
        flags == GetIntegrityFlagsBcb(asb, state.container.flags)
        read == [state EXCEPT !.container.wrapped = GetWrappedKey(asb, @),
                              !.container.iv = GetIv(asb, @),
                              !.container.flags = IF flags = 0 THEN 7 ELSE flags]
    IN IF GetCode(ArrayGet(state.bundle, bcb)) # 12 THEN state
       ELSE IF ~IsAsb(data) \/ asb.context # Uint(2) THEN Stop(state)
       ELSE FoldLeft(LAMBDA s, id : IF s.ok THEN BcbUnprotectTarget(s, bcb, asb, GetUint(id), store) ELSE s,
                     read, asb.target[2])

\* Targets that were decrypted before one fails stay decrypted.
BcbUnprotect(bundle, store) ==
    FoldLeft(LAMBDA s, i : IF s.ok THEN BcbUnprotectBlock(s, i - 1, store) ELSE s,
             Start(bundle), [i \in DOMAIN Blocks(bundle) |-> i])

-----------------------------------------------------------------------------
CONSTANTS
    Inputs,     \* configuration items, as records of what they hold
    Sources,    \* [scheme, name]
    Key,        \* the master key both sides have
    NewKey, Iv, \* what generate_new_key and generate_iv make
    MaxChanges  \* bound on what is changed on the way

VARIABLES
    config,     \* what the configuration says
    source,
    bundle,
    made,       \* the bundle before it was protected
    phase,      \* "make", "way", "open", "verified", "refused"
    changed     \* how often something was changed on the way

vars == <<config, source, bundle, made, phase, changed>>

\* dtn_security_config_from_item: additional data is all or nothing, and the
\* variants have a default.
SecurityConfig(input) ==
    [header |-> input.header, bibNewKey |-> input.bibNewKey,
     bibFlags |-> IF input.bibAad THEN 7 ELSE 0,
     sha |-> CASE input.sha = "sha256" -> "HMAC256" [] input.sha = "sha512" -> "HMAC512" [] OTHER -> "HMAC384",
     bib |-> input.bib, payload |-> input.payload, bcbNewKey |-> input.bcbNewKey,
     bcbFlags |-> IF input.bcbAad THEN 7 ELSE 0,
     aes |-> IF input.aes = "128" THEN "A128GCM" ELSE "A256GCM"]

Text == ByteString(<<"plain", "text">>)
Payload == ByteString(<<"plain", "payload">>)
Store == [n \in {s.name : s \in Sources} |-> Key]

\* The blocks, the payload last: primary, BIB number 2, BCB number 3, payload.
WithPrimary(s) ==
    AddPrimaryBlock(NoBundle, [flags |-> 0, crc |-> 1, destination |-> <<"plain", "destination">>,
                               source |-> s.name, report |-> s.name, time |-> 1, seq |-> 1, lifetime |-> 1])
WithBib(b, c) == IF c.header THEN AddBlock(b, 11, 2, 0, 0, Text) ELSE b
WithBcb(b, c) == IF c.bib \/ c.payload THEN AddBlock(b, 12, 3, 0, 0, Text) ELSE b
Made(c, s) == AddBlock(WithBcb(WithBib(WithPrimary(s), c), c), 1, 1, 0, 1, Payload)

ProtectedBib(b, c, s) ==
    IF ~c.header THEN b
    ELSE BibProtect(b, PositionOf(b, 2), 0, Key, c.bibFlags, c.sha, s, IF c.bibNewKey THEN NewKey ELSE <<>>)

ProtectedBcb(b, c, s, nbr) ==
    BcbProtect(b, PositionOf(b, 3), PositionOf(b, nbr), Key, s, c.bcbFlags, c.aes,
               IF c.bcbNewKey THEN NewKey ELSE <<>>, Iv)

Closed(b, c, s, nbr) == IF (nbr = 2 /\ c.bib) \/ (nbr = 1 /\ c.payload) THEN ProtectedBcb(b, c, s, nbr) ELSE b
Protected(b, c, s) == Closed(Closed(ProtectedBib(b, c, s), c, s, 2), c, s, 1)

Init ==
    /\ \E input \in Inputs : config = SecurityConfig(input)
    /\ source \in Sources
    /\ bundle = Made(config, source) /\ made = bundle
    /\ phase = "make" /\ changed = 0

\* Without a BIB there is nothing to encrypt in its place: the bundle is given up.
Protect ==
    /\ phase = "make"
    /\ IF config.bib /\ ~config.header
       THEN phase' = "refused" /\ UNCHANGED bundle
       ELSE phase' = "way" /\ bundle' = Protected(bundle, config, source)
    /\ UNCHANGED <<config, source, made, changed>>

Change(new) ==
    /\ phase = "way" /\ new # bundle /\ changed < MaxChanges
    /\ bundle' = new /\ changed' = changed + 1
    /\ UNCHANGED <<config, source, made, phase>>

\* A block has its data or its head changed (its type code, its number, its
\* flags), is dropped, or changes places with a block behind it.
Without(b, i) == Array(RemoveAt(Blocks(b), i + 1))
Exchanged(b, i, j) == ArraySet(ArraySet(b, i, ArrayGet(b, j)), j, ArrayGet(b, i))

ChangeOnTheWay ==
    \/ Change(PrimarySetDestination(bundle, <<"plain", "elsewhere">>))
    \/ Change(PrimarySetLifetime(bundle, 9))
    \/ \E i \in 1 .. ArrayCount(bundle) - 1 :
         \/ Change(WithData(bundle, i, ByteString(<<"plain", "changed">>)))
         \/ \E code \in {1, 6, 11, 12} : Change(ArraySet(bundle, i, SetCode(ArrayGet(bundle, i), code)))
         \/ \E nbr \in {1, 2, 3} : Change(ArraySet(bundle, i, SetNumber(ArrayGet(bundle, i), nbr)))
         \/ Change(ArraySet(bundle, i, SetFlags(ArrayGet(bundle, i), 1)))
         \/ Change(Without(bundle, i))
         \/ \E j \in i + 1 .. ArrayCount(bundle) - 1 : Change(Exchanged(bundle, i, j))

\* Decoding has refused a bundle whose last block is no payload.
Unprotect ==
    /\ phase = "way"
    /\ \E u \in {BcbUnprotect(bundle, Store)} :
          /\ bundle' = u.bundle
          /\ phase' = IF CheckPayloadBlock(bundle) /\ u.ok THEN "open" ELSE "refused"
    /\ UNCHANGED <<config, source, made, changed>>

VerifyOpened ==
    /\ phase = "open"
    /\ \E v \in {BibVerify(bundle, Store)} :
          /\ bundle' = v.bundle
          /\ phase' = IF v.ok THEN "verified" ELSE "refused"
    /\ UNCHANGED <<config, source, made, changed>>

Next == Protect \/ ChangeOnTheWay \/ Unprotect \/ VerifyOpened

Spec == Init /\ [][Next]_vars

(***************************************************************************)
(* Properties.                                                             *)
(***************************************************************************)
\* What a verified bundle's integrity block covers is as it was made, and what
\* its confidentiality block covers is back as it was: the destination and the
\* lifetime under a BIB, the payload under a BCB, and with additional data the
\* flags of the payload block; as long as the bundle has the block.  Of a bundle
\* that has no BIB or BCB (any more), or none with that type code, nothing is
\* verified or unprotected, and the calls succeed (2466, 2997): only is_bib_protected
\* and is_bcb_protected tell, and they do not know what the sender did.
VerifiedIsAsMade ==
    phase = "verified" =>
        /\ config.header /\ IsBibProtected(bundle) =>
             /\ PrimaryGetDestination(bundle) = PrimaryGetDestination(made)
             /\ PrimaryGetLifetime(bundle) = PrimaryGetLifetime(made)
        /\ config.payload /\ IsBcbProtected(bundle) =>
             /\ GetData(GetBlock(bundle, 1)) = Payload
             /\ config.bcbFlags = 7 => GetFlags(GetBlock(bundle, 1)) = GetFlags(GetBlock(made, 1))

\* A bundle that nobody changed is not refused, with the configurations that
\* work: a dtn source for a BIB, additional data (0 flags are read as 7), and
\* no new key for the BCB (it is not found again).
OwnBundleAccepted ==
    phase = "refused" /\ changed = 0 =>
        \/ config.bib /\ ~config.header
        \/ config.header /\ (config.bibFlags = 0 \/ source.scheme # "dtn")
        \/ (config.bib \/ config.payload) /\ (config.bcbFlags = 0 \/ config.bcbNewKey \/ source.scheme # "dtn")
=============================================================================
