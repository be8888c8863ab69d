----------------------------- MODULE CborStream -----------------------------
(***************************************************************************)
(* A value and its way through a stream: a node builds it with the calls   *)
(* of dtn_cbor.h and encodes it; the bytes arrive one after the other at   *)
(* another, which tries to decode what it has each time, as the readers of *)
(* streams do, and may go on with what it has decoded.                     *)
(***************************************************************************)
EXTENDS Cbor

CONSTANTS
    Values,     \* what is made by a call without an item
    Contents,   \* byte sequences that are set
    Received,   \* byte sequences that come from somewhere else
    MaxCalls,   \* bound on the calls that change the value
    BufferSize

VARIABLES
    value,      \* the item of the node that works on it
    calls,
    wire,       \* its bytes, as they arrive; <<>> while it is worked on
    arrived,    \* how many have arrived
    answer      \* what decoding these said

vars == <<value, calls, wire, arrived, answer>>

Init ==
    /\ \/ value \in Values /\ wire = <<>>
       \/ value = NoItem /\ wire \in Received
    /\ calls = 0 /\ arrived = 0
    /\ answer = Partial(1)

AtWork == wire = <<>> /\ value # NoItem

Becomes(new) ==
    /\ AtWork /\ new # value /\ new # NoItem
    /\ calls < MaxCalls /\ calls' = calls + 1
    /\ value' = new
    /\ UNCHANGED <<wire, arrived, answer>>

\* The setter of every type is called; those of the other types do nothing.
SetValue ==
    \/ \E n \in {23, 24, 70000} :
         \/ Becomes(SetUint(value, n))
         \/ Becomes(SetInt(value, -n))
         \/ Becomes(SetTimeEpoch(value, n))
         \/ Becomes(SetSimpleValue(value, n))
         \/ Becomes(SetTagValue(value, n))
    \/ \E s \in Contents :
         \/ Becomes(SetString(value, s))
         \/ Becomes(SetUtf8(value, s))
         \/ Becomes(SetTime(value, s))
         \/ Becomes(SetUBignum(value, s))
         \/ Becomes(SetIBignum(value, s))

PutIn ==
    \E v \in Values :
       \/ Becomes(ArrayPush(value, v))
       \/ ArrayCount(value) > 0 /\ Becomes(ArraySet(value, 0, v))
       \/ Becomes(MapSet(value, Uint(1), v))
       \/ Becomes(MapSet(value, Utf8String(<<97>>), v))
       \/ Becomes(SetTagData(value, v))
       \/ Becomes(SetDecFraction(value, v))
       \/ Becomes(SetBigfloat(value, v))
       \/ Becomes(DecFraction(value)) \/ Becomes(Bigfloat(value))

TakeOut ==
    \/ Becomes(ArrayPopQueue(value))
    \/ Becomes(ArrayPopStack(value))
    \/ Becomes(ArrayGet(value, 0))
    \/ Becomes(MapGet(value, Uint(1)))

WorkOnCopy == Becomes(Copy(value))

Send ==
    /\ AtWork /\ Encode(value, BufferSize) # FAIL
    /\ wire' = Encode(value, BufferSize)
    /\ UNCHANGED <<value, calls, arrived, answer>>

Arrive ==
    /\ arrived < Len(wire)
    /\ arrived' = arrived + 1
    /\ answer' = Decode(SubSeq(wire, 1, arrived + 1), 1, arrived + 1)
    /\ UNCHANGED <<value, calls, wire>>

\* The other node goes on with what it has.
TakeOver ==
    /\ answer.match = "full"
    /\ value' = answer.item
    /\ wire' = <<>> /\ arrived' = 0 /\ answer' = Partial(1)
    /\ UNCHANGED calls

Next == SetValue \/ PutIn \/ TakeOut \/ WorkOnCopy \/ Send \/ Arrive \/ TakeOver

Spec == Init /\ [][Next]_vars

(***************************************************************************)
(* Properties.                                                             *)
(***************************************************************************)
\* What does not come back as it was sent: numbers from -23 to 0, which are
\* read with their head, floats, tags and simple values whose number does not
\* fit their head, and the pairs of a map, whose head counts bytes.
RECURSIVE ComesBack(_)
ComesBack(c) ==
    CASE c[1] = "int" -> c[2] < -23
      [] c[1] \in {"float", "double"} -> FALSE
      [] c[1] = "map" -> c[2] = {}
      [] c[1] = "array" -> \A i \in DOMAIN c[2] : ComesBack(c[2][i])
      [] c[1] = "tag" ->
           CASE c[2] \in 198 .. 212 -> c[3] = c[2] % 32 /\ c[4] = NoItem
             [] c[2] \in 213 .. 215 -> c[3] = c[2] /\ c[4] # NoItem /\ ComesBack(c[4])
             [] OTHER -> c[4] # NoItem /\ ComesBack(c[4]) /\ (c[2] = 217 => c[3] < 65536)
      [] c[1] = "simple" ->
           IF c[2] = 248 THEN c[3] < 256 ELSE c[2] \in 224 .. 243 /\ c[3] = c[2] % 32
      [] OTHER -> TRUE

\* The last bytes of a string whose length is not in its head are not waited for.
RECURSIVE HasLongString(_)
HasLongString(c) ==
    CASE c[1] \in {"string", "utf8", "time", "ubignum", "ibignum"} -> Len(c[2]) > 23
      [] c[1] = "array" -> \E i \in DOMAIN c[2] : HasLongString(c[2][i])
      [] c[1] = "tag" -> c[4] # NoItem /\ HasLongString(c[4])
      [] OTHER -> FALSE

\* An item that was encoded comes back when all its bytes have arrived and
\* not before: what is missing is waited for, and an array is neither cut nor
\* taken for something else.
RoundTrip ==
    AtWork \/ value = NoItem \/ arrived = 0 \/ ~ComesBack(value) \/
    IF arrived = Len(wire) THEN answer = Full(value, arrived + 1)
    ELSE HasLongString(value) \/ answer.match = "partial"
=============================================================================
