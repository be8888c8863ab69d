------------------------------- MODULE Buffer -------------------------------
(***************************************************************************)
(* dtn_buffer.c: bytes with a length and a capacity.  A freed buffer keeps  *)
(* its memory in a cache and comes back with it.  `bytes' is what the user  *)
(* put into the buffer, `start' the memory, with one slot more than the     *)
(* capacity unless dtn_buffer_extend made it.                               *)
(***************************************************************************)
EXTENDS Naturals, Sequences

CONSTANTS
    Byte, ZERO,     \* the values of a byte, the zero byte among them
    MaxSize,        \* bound: the bytes one call may add
    MaxCapacity,    \* bound: the capacity of a buffer
    CacheSlots      \* capacity of the cache, one that no one else uses

VARIABLES
    start, length, capacity,    \* the buffer of the user; start is a sequence
    cached,                     \* memory of the buffers in the cache, last is next
    bytes                       \* what the user expects to read

vars == <<start, length, capacity, cached, bytes>>

Zeros(n) == [i \in 1 .. n |-> ZERO]
Data == UNION {[1 .. n -> Byte] : n \in 1 .. MaxSize}
Written(s, at, d) == [i \in 1 .. Len(s) |-> IF i \in at + 1 .. at + Len(d) THEN d[i - at] ELSE s[i]]

\* adapt_size_nocheck: memory that is too small is replaced by zeroed memory.
Adapted(s, cap, size) == IF cap >= size THEN s ELSE Zeros(size + 1)
AdaptedCapacity(cap, size) == IF cap >= size THEN cap ELSE size

Init ==
    /\ start = <<>> /\ length = 0 /\ capacity = 0
    /\ cached = <<>>
    /\ bytes = <<>>

\* dtn_buffer_free, with the cache full or not, and then dtn_buffer_create: a
\* buffer without memory is not cached, and one of size 0 not taken from it.
Renew(size) ==
    LET left == IF capacity # 0 /\ Len(cached) < CacheSlots
                THEN Append(cached, [mem |-> Zeros(Len(start)), cap |-> capacity]) ELSE cached
        hit == size > 0 /\ left # <<>>
        mem == IF hit THEN left[Len(left)].mem ELSE <<>>
        cap == IF hit THEN left[Len(left)].cap ELSE 0
    IN /\ cached' = IF hit THEN SubSeq(left, 1, Len(left) - 1) ELSE left
       /\ start' = IF size = 0 THEN <<>> ELSE Adapted(mem, cap, size)
       /\ capacity' = IF size = 0 THEN 0 ELSE AdaptedCapacity(cap, size)
       /\ length' = 0
       /\ bytes' = <<>>

Set(d) ==
    /\ start' = Written(Adapted(start, capacity, Len(d)), 0, d)
    /\ capacity' = AdaptedCapacity(capacity, Len(d))
    /\ length' = Len(d)
    /\ bytes' = d
    /\ UNCHANGED cached

Push(d) ==
    LET total == length + Len(d)
        room == IF capacity < total THEN SubSeq(start, 1, length) \o Zeros(total + 1 - length)
                ELSE start
    IN /\ total <= MaxCapacity
       /\ start' = Written(room, length, d)
       /\ capacity' = IF capacity < total THEN total ELSE capacity
       /\ length' = total
       /\ bytes' = bytes \o d
       /\ UNCHANGED cached

\* dtn_buffer_extend adds to the capacity and zeroes what is behind the bytes;
\* it allocates no byte for a terminator.
Extended(n) == SubSeq(start, 1, length) \o Zeros(capacity + n - length)

Extend(n) ==
    /\ capacity + n <= MaxCapacity
    /\ start' = Extended(n)
    /\ capacity' = capacity + n
    /\ UNCHANGED <<length, cached, bytes>>

Concat(d) ==
    /\ capacity + length + Len(d) <= MaxCapacity
    /\ start' = Written(Extended(length + Len(d)), length, d)
    /\ capacity' = capacity + length + Len(d)
    /\ length' = length + Len(d)
    /\ bytes' = bytes \o d
    /\ UNCHANGED cached

Clear ==
    /\ start' = Zeros(Len(start))
    /\ length' = 0
    /\ bytes' = <<>>
    /\ UNCHANGED <<capacity, cached>>

\* dtn_buffer_shift_length by way of a copy: clear, then set to the tail.
Shift(n) ==
    /\ start # <<>> /\ n \in 1 .. length
    /\ IF n = length
       THEN Clear
       ELSE /\ start' = Written(Zeros(Len(start)), 0, SubSeq(start, n + 1, length))
            /\ length' = length - n
            /\ bytes' = SubSeq(bytes, n + 1, Len(bytes))
            /\ UNCHANGED <<capacity, cached>>

Next ==
    \/ \E size \in 0 .. MaxSize : Renew(size)
    \/ \E d \in Data : Set(d) \/ Push(d) \/ Concat(d)
    \/ \E n \in 1 .. MaxCapacity : Extend(n) \/ Shift(n)
    \/ Clear

Spec == Init /\ [][Next]_vars

-----------------------------------------------------------------------------
\* A buffer holds what was put into it, whatever memory it came back with, and
\* its memory is never smaller than its capacity.
HoldsBytes ==
    /\ SubSeq(start, 1, length) = bytes
    /\ length <= capacity
    /\ capacity <= Len(start)
    /\ \A i \in DOMAIN cached : cached[i].cap <= Len(cached[i].mem)
=============================================================================
