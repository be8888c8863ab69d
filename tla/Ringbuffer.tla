----------------------------- MODULE Ringbuffer -----------------------------
(***************************************************************************)
(* dtn_ringbuffer: the circular array of pointers every message queue of   *)
(* the thread loop is made of.  One ring buffer object is followed through *)
(* creation, use, release and - when the registered cache of ring buffers  *)
(* is enabled - its reuse by another user.                                 *)
(*                                                                         *)
(* The array has one slot more than the promised capacity, so that         *)
(* read = write means empty; inserting into a full buffer frees the oldest *)
(* element.  Elements are opaque pointers; `fate' records what became of   *)
(* each of them, which the code itself does not track.                     *)
(***************************************************************************)
EXTENDS Naturals, Sequences, SequencesExt, FiniteSets

CONSTANTS
    Elements,       \* the pointers that can be inserted
    Null,           \* the 0 pointer: an empty slot
    Capacities,     \* capacities asked of dtn_ringbuffer_create
    FreeArgs,       \* free_element arguments used: {"client"}, {"none"} or both
    Caching,        \* is dtn_ringbuffer_enable_caching in effect
    PublicClear,    \* does a user call clear() (in src/ only free() does)
    MaxInserts      \* bound on elements_inserted, for model checking

ASSUME RingAssumption ==
    /\ Null \notin Elements
    /\ Capacities \subseteq Nat \ {0}
    /\ FreeArgs \subseteq {"client", "none"}
    /\ Caching \in BOOLEAN
    /\ PublicClear \in BOOLEAN
    /\ MaxInserts \in Nat

VARIABLES
    owner,          \* "none": not allocated, "live": in use, "cached": in g_cache
    capacity,       \* length of content
    read, write,    \* indices of the slot to access next
    content,        \* the slots, 0 .. capacity - 1
    freeElement,    \* free_element: the client's function or the dummy
    asked,          \* history: the free_element argument of the current owner
    inserted,       \* statistics.elements_inserted
    dropped,        \* statistics.elements_dropped
    popped,         \* history: elements handed out by pop
    fate            \* history: "outside", "held", "freed" or "forgotten"

indices == <<read, write>>
counters == <<inserted, dropped, popped>>
setup == <<owner, capacity, freeElement, asked>>
vars == <<owner, capacity, read, write, content, freeElement, asked,
          inserted, dropped, popped, fate>>

Slots == 0 .. capacity - 1
Held == {content[i] : i \in Slots} \ {Null}

(* Mutant: the wrap-around compares with the promised capacity. *)
SuccShort(i) == IF i + 1 >= capacity - 1 THEN 0 ELSE i + 1

(* The slot after i; index arithmetic of advance_read and advance_write. *)
Succ(i) == IF i + 1 >= capacity THEN 0 ELSE i + 1

(* Mutant: reading does not move on when the buffer is full. *)
ReadStays(w) == read

(* advance_write: the slot to read next once w is the one to write next.   *)
ReadAfterWrite(w) == IF w = read THEN Succ(read) ELSE read

(* Mutant: the slot keeps the pointer that was handed out. *)
LeftIn(i) == content

(* ringbuffer_pop empties the slot it reads. *)
TakenFrom(i) == [content EXCEPT ![i] = Null]

(* Mutant: the elements given up are not counted. *)
NotCounted(S) == 0

(* drop_element_nocheck counts the elements it finds in the slots S. *)
DropCount(S) == Cardinality({i \in S : content[i] # Null})

(* What free_element does to an element: the client's function disposes of *)
(* it, the dummy leaves nobody with a reference to it.                     *)
Disposal == IF freeElement = "client" THEN "freed" ELSE "forgotten"

(* Mutant: the part of the grown array beyond the old one is not zeroed. *)
GrownUnzeroed(c) == [i \in 0 .. c |-> IF i \in Slots THEN content[i] ELSE "garbage"]

(* realloc and memset of dtn_ringbuffer_create. *)
Grown(c) == [i \in 0 .. c |-> Null]

(* Mutant: free_element is reset after the argument was stored. *)
FreeElementResetLate(f, grows) == IF grows \/ f = "none" THEN "none" ELSE f

(* dtn_ringbuffer_create resets free_element of a cached object when its   *)
(* array grows, and stores an argument that is not 0.                      *)
FreeElementAfter(f, grows) ==
    CASE f # "none"         -> f
      [] f = "none" /\ grows -> "none"
      [] OTHER              -> freeElement

Init ==
    /\ owner = "none" /\ capacity = 0
    /\ read = 0 /\ write = 0
    /\ content = [i \in {} |-> Null]
    /\ freeElement = "none" /\ asked = "none"
    /\ inserted = 0 /\ dropped = 0 /\ popped = 0
    /\ fate = [e \in Elements |-> "outside"]

(* dtn_ringbuffer_create when no cached object is found: new_buffer_create *)
CreateNew(c, f) ==
    /\ owner = "none"
    /\ owner' = "live"
    /\ capacity' = c + 1
    /\ content' = [i \in 0 .. c |-> Null]
    /\ read' = 0 /\ write' = 0
    /\ freeElement' = f /\ asked' = f
    /\ inserted' = 0 /\ dropped' = 0 /\ popped' = 0
    /\ UNCHANGED fate

(* dtn_ringbuffer_create on a cached object: indices and statistics are    *)
(* kept, and the array only grows.                                         *)
CreateCached(c, f) ==
    /\ owner = "cached"
    /\ owner' = "live"
    /\ capacity' = IF c + 1 > capacity THEN c + 1 ELSE capacity
    /\ content' = IF c + 1 > capacity THEN Grown(c) ELSE content
    /\ freeElement' = FreeElementAfter(f, c + 1 > capacity)
    /\ asked' = f
    /\ UNCHANGED <<indices, counters, fate>>

(* ringbuffer_insert with advance_write, drop_element_nocheck and          *)
(* advance_read: the slot after the new element is emptied, and if it was  *)
(* the one to read next, reading moves on.                                 *)
Insert(e) ==
    /\ owner = "live"
    /\ fate[e] = "outside"
    /\ inserted < MaxInserts
    /\ LET next == Succ(write)
       IN  /\ content' = [content EXCEPT ![write] = e, ![next] = Null]
           /\ write' = next
           /\ read' = ReadAfterWrite(next)
           /\ dropped' = dropped + DropCount({next})
           /\ fate' = [x \in Elements |-> CASE x = e -> "held"
                                            [] x = content[next] -> Disposal
                                            [] OTHER -> fate[x]]
    /\ inserted' = inserted + 1
    /\ UNCHANGED <<setup, popped>>

(* ringbuffer_pop: hands out content[read], which may be 0 even though     *)
(* read # write (slots emptied by clear are still between the indices).    *)
Pop ==
    /\ owner = "live"
    /\ read # write
    /\ content' = TakenFrom(read)
    /\ popped' = IF content[read] = Null THEN popped ELSE popped + 1
    /\ fate' = [x \in Elements |-> IF x = content[read] THEN "outside" ELSE fate[x]]
    /\ read' = Succ(read)
    /\ UNCHANGED <<setup, write, inserted, dropped>>

(* ringbuffer_clear: every slot is emptied, the indices stay. *)
ClearSlots ==
    /\ content' = [i \in Slots |-> Null]
    /\ dropped' = dropped + DropCount(Slots)
    /\ fate' = [x \in Elements |-> IF x \in Held THEN Disposal ELSE fate[x]]
    /\ UNCHANGED <<capacity, indices, freeElement, asked, inserted, popped>>

Clear ==
    /\ PublicClear
    /\ owner = "live"
    /\ ClearSlots
    /\ UNCHANGED owner

(* ringbuffer_free: clear, then hand the object to the cache; without one, *)
(* or when the cache is full or busy, the memory is given back.            *)
Free ==
    /\ owner = "live"
    /\ owner' \in {"none"} \cup (IF Caching THEN {"cached"} ELSE {})
    /\ ClearSlots

Next ==
    \/ \E c \in Capacities, f \in FreeArgs : CreateNew(c, f) \/ CreateCached(c, f)
    \/ \E e \in Elements : Insert(e)
    \/ Pop
    \/ Clear
    \/ Free

Spec == Init /\ [][Next]_vars
-----------------------------------------------------------------------------
(* Slot i lies in the circular interval [read, write). *)
InSpan(i) == IF read <= write THEN read <= i /\ i < write
                              ELSE read <= i \/ i < write

TypeOK ==
    /\ owner \in {"none", "live", "cached"}
    /\ capacity \in Nat
    /\ read \in Nat /\ write \in Nat
    /\ content \in [Slots -> Elements \cup {Null}]
    /\ freeElement \in {"client", "none"}
    /\ asked \in {"client", "none"}
    /\ inserted \in Nat /\ dropped \in Nat /\ popped \in Nat
    /\ fate \in [Elements -> {"outside", "held", "freed", "forgotten"}]

(* Elements are only ever found between the read and the write index, so   *)
(* an insertion never overwrites a slot in use.  This is what the asserts  *)
(* of dtn_ringbuffer.c rely on: 0 == content[write_index] in               *)
(* ringbuffer_insert and 1 < capacity everywhere.                          *)
ElementsInSpan ==
    owner # "none" =>
        /\ capacity > 1
        /\ read \in Slots /\ write \in Slots
        /\ \A i \in Slots : content[i] # Null => InSpan(i)

(* Every element is in exactly one place: the one the buffer holds sits in *)
(* one slot, and the slots hold no element that was given back, freed or   *)
(* forgotten - nothing is freed twice and nothing is used after its free.  *)
EachHeldOnce ==
    /\ \A e \in Elements : fate[e] = "held" <=> e \in Held
    /\ \A i, j \in Slots : content[i] = content[j] /\ content[i] # Null => i = j

(* The statistics balance: what went in was handed out, dropped, or is     *)
(* still there - also over a reuse of the object by another owner.         *)
StatisticsBalance ==
    owner # "none" => inserted = popped + dropped + Cardinality(Held)

(* An owner that gave a free function (as the thread loop does for both of *)
(* its queues) never has an element given up without a call of it, whatever *)
(* the cached object did for its previous owner.                           *)
NothingForgotten ==
    [][\A e \in Elements :
          fate[e] = "held" /\ fate'[e] = "forgotten" => asked = "none"]_vars
-----------------------------------------------------------------------------
(* The FIFO this buffer implements: the slots from read to write, without  *)
(* the empty ones that a clear left before the oldest element.             *)
SpanLength == IF read <= write THEN write - read ELSE capacity - read + write
Span == [k \in 1 .. SpanLength |->
            content[IF read + k - 1 < capacity THEN read + k - 1
                                               ELSE read + k - 1 - capacity]]
Occupied == {k \in 1 .. SpanLength : Span[k] # Null}
Contents == IF Occupied = {} THEN <<>> ELSE SubSeq(Span, Min(Occupied), SpanLength)

Fifo == INSTANCE BoundedFifo WITH
            queue <- IF owner = "live" THEN Contents ELSE <<>>,
            bound <- IF owner = "live" THEN capacity - 1 ELSE 0

(* Refinement: a ring buffer is a FIFO that gives up its oldest element    *)
(* when full.  Reusing a cached object is opening a new one.               *)
ImplementsFifo == Fifo!Spec
=============================================================================
