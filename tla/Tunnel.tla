------------------------------- MODULE Tunnel -------------------------------
(***************************************************************************)
(* dtn_tunnel_core: two tunnel nodes, in one direction.                    *)
(*                                                                         *)
(* A worker thread takes a datagram that came in at the tunnel socket,     *)
(* makes bundles of it (create_bundles) and sends them                     *)
(* (message_udp_process).  All workers count up one sequence number,       *)
(* without a lock: self->sequence++ is a read and a write, and every       *)
(* bundle takes the value the counter then has.                            *)
(*                                                                         *)
(* The network delivers some of the bundles, and the other node collects   *)
(* the fragments and sends what is complete to its UDP receiver            *)
(* (cb_payload).  A push into the bundle buffer is one step here;          *)
(* BundleBuffer has its locks, timeouts and cleanup.                       *)
(***************************************************************************)
EXTENDS Naturals, Sequences, SequencesExt, FiniteSetsExt, Bags

LOCAL INSTANCE TLC

CONSTANTS
    Workers,    \* the threads that handle messages
    Datagrams,
    None,       \* no datagram
    Sizes,      \* the sizes of datagrams
    Chunk,      \* create_bundles cuts chunks of this size
    Least,      \* what is smaller goes as a whole: Chunk here, 1 for files
    Duplicates, \* how many of a datagram's bundles the network may duplicate
    MaxTime     \* bound of the clock

ASSUME TunnelAssumption ==
    /\ None \notin Datagrams
    /\ Sizes \subseteq Nat \ {0}
    /\ Chunk \in Nat \ {0} /\ Least \in 1 .. Chunk /\ Duplicates \in Nat /\ MaxTime \in Nat

VARIABLES
    sequence,   \* self->sequence
    task,       \* what each worker is doing
    now,        \* dtn_time_get_current_time_usecs
    length,     \* the size of each datagram, 0 before it arrives
    network,    \* the bundles on their way, as a bag
    overlapped, \* history variable: datagrams not packed alone
    keys,       \* history variable: the time stamp each datagram got, as a set
    seen,       \* the history: time stamp and number of each fragment
    entries,    \* the data: for each time stamp the fragments held
    forwarded   \* what was sent to the receiver: sequences of bundles

sender == <<sequence, task, now, length, network, overlapped, keys>>
receiver == <<seen, entries, forwarded>>
vars == <<sender, receiver>>
-----------------------------------------------------------------------------
(* The node that sends.                                                    *)

Idle == [at |-> "idle", datagram |-> None, loaded |-> 0, next |-> "idle",
         stamp |-> 0, ptr |-> 0, open |-> 0, out |-> <<>>]

SenderInit ==
    /\ sequence = 0
    /\ task = [w \in Workers |-> Idle]
    /\ now = 0
    /\ length = [d \in Datagrams |-> 0]
    /\ network = EmptyBag
    /\ overlapped = {}
    /\ keys = [d \in Datagrams |-> {}]

Busy == {w \in Workers : task[w] # Idle}

(* A datagram of any size comes in at the tunnel socket. *)
Begin(w, d, size) ==
    /\ task[w] = Idle
    /\ length[d] = 0
    /\ length' = [length EXCEPT ![d] = size]
    /\ task' = [task EXCEPT ![w] = [Idle EXCEPT !.at = "load", !.next = "stamp",
                                        !.datagram = d, !.open = size]]
    /\ overlapped' = IF Busy = {} THEN overlapped
                     ELSE overlapped \cup {d} \cup {task[v].datagram : v \in Busy}
    /\ UNCHANGED <<sequence, now, network, keys>>

(* self->sequence++, and what the worker does next. *)
Load(w) ==
    /\ task[w].at = "load"
    /\ task' = [task EXCEPT ![w].loaded = sequence, ![w].at = "store"]
    /\ UNCHANGED <<sequence, now, length, network, overlapped, keys>>

(* Mutant: the counter keeps its value. *)
SameNumber(w) == task[w].loaded

NextNumber(w) == task[w].loaded + 1

(* The loop condition `open - chunk > 0' is unsigned: it holds unless both *)
(* are equal.                                                              *)
MoreChunks(open) == open # Chunk

(* To the next chunk, or to another count before the last block. *)
Loop(t) ==
    IF MoreChunks(t.open)
    THEN [t EXCEPT !.at = "chunk"]
    ELSE [t EXCEPT !.at = "load", !.next = "last"]

Store(w) ==
    /\ task[w].at = "store"
    /\ sequence' = NextNumber(w)
    /\ task' = [task EXCEPT ![w] = IF @.next = "loop" THEN Loop(@)
                                   ELSE [@ EXCEPT !.at = task[w].next]]
    /\ UNCHANGED <<now, length, network, overlapped, keys>>

Stamp(w) ==
    LET stamped == [task[w] EXCEPT !.stamp = now] IN
    /\ task[w].at = "stamp"
    /\ task' = [task EXCEPT ![w] = IF stamped.open < Least
                                   THEN [stamped EXCEPT !.at = "whole"]
                                   ELSE Loop(stamped)]
    /\ keys' = [keys EXCEPT ![task[w].datagram] = {now}]
    /\ UNCHANGED <<sequence, now, length, network, overlapped>>

(* A bundle: the key of its ADU and its number, what it declares, and      *)
(* which bytes of the datagram's receive buffer it carries.                *)
Bundle(w, whole, bytes) ==
    [stamp |-> task[w].stamp, number |-> sequence, whole |-> whole,
     total |-> length[task[w].datagram],
     datagram |-> task[w].datagram, from |-> task[w].ptr, bytes |-> bytes]

(* Mutant: the pointer stays at the chunk. *)
SamePlace(w) == task[w].ptr

AfterChunk(w) == task[w].ptr + Chunk

MakeWhole(w) ==
    /\ task[w].at = "whole"
    /\ task' = [task EXCEPT ![w].out = <<Bundle(w, TRUE, task[w].open)>>,
                            ![w].at = "send"]
    /\ UNCHANGED <<sequence, now, length, network, overlapped, keys>>

Breaks(open) == open < Chunk

(* A chunk is taken even where less than a chunk is open, and only then    *)
(* the loop is left.                                                       *)
MakeChunk(w) ==
    LET made == [task EXCEPT ![w].out = Append(@, Bundle(w, FALSE, Chunk)),
                             ![w].ptr = AfterChunk(w),
                             ![w].at = "load"] IN
    /\ task[w].at = "chunk"
    /\ task' = IF Breaks(task[w].open)
               THEN [made EXCEPT ![w].next = "last"]
               ELSE [made EXCEPT ![w].next = "loop", ![w].open = @ - Chunk]
    /\ UNCHANGED <<sequence, now, length, network, overlapped, keys>>

MakeLast(w) ==
    /\ task[w].at = "last"
    /\ task' = [task EXCEPT
                    ![w].out = Append(@, Bundle(w, FALSE, task[w].open)),
                    ![w].at = "send"]
    /\ UNCHANGED <<sequence, now, length, network, overlapped, keys>>

(* The bundles go out over the interfaces; the network may lose, reorder   *)
(* and duplicate them.                                                     *)
SendAll(w) ==
    /\ task[w].at = "send"
    /\ \E twice \in UNION {kSubset(k, ToSet(task[w].out)) : k \in 0..Duplicates} :
           network' = network (+) SetToBag(ToSet(task[w].out)) (+) SetToBag(twice)
    /\ task' = [task EXCEPT ![w] = Idle]
    /\ UNCHANGED <<sequence, now, length, overlapped, keys>>

Tick ==
    /\ now < MaxTime
    /\ now' = now + 1
    /\ UNCHANGED <<sequence, task, length, network, overlapped, keys>>

Pack(w) ==
    \/ Load(w) \/ Store(w) \/ Stamp(w)
    \/ MakeWhole(w) \/ MakeChunk(w) \/ MakeLast(w)
    \/ SendAll(w)

SenderNext ==
    \/ \E w \in Workers : 
        \/ \E d \in Datagrams, size \in Sizes : Begin(w, d, size)
        \/ Pack(w)
    \/ Tick
-----------------------------------------------------------------------------
(* The node that receives.                                                 *)

Init ==
    /\ SenderInit
    /\ seen = {}
    /\ entries = [t \in 0..MaxTime |-> <<>>]
    /\ forwarded = <<>>

(* The queue of an entry is sorted by number: a fragment goes before the   *)
(* first that has no smaller one.                                          *)
Place(q, b) ==
    CHOOSE p \in 1..(Len(q) + 1) :
        /\ p <= Len(q) => q[p].number >= b.number
        /\ \A p1 \in 1..(p - 1) : q[p1].number < b.number

(* Mutant: always at the end. *)
AtEnd(q, b) == Append(q, b)

Insert(q, b) == InsertAt(q, Place(q, b), b)

(* Only the fragments before the place and the one after it are counted.   *)
Counted(q, b) == SubSeq(q, 1, IF Place(q, b) <= Len(q) THEN Place(q, b) ELSE Len(q))

(* The sum of the payload sizes, as the loop counts it up. *)
BytesUpTo(q) ==
    LET sum[k \in 0..Len(q)] == IF k = 0 THEN 0 ELSE sum[k - 1] + q[k].bytes
    IN  sum

Bytes(q) == BytesUpTo(q)[Len(q)]

Complete(q, b) == q # <<>> /\ Bytes(Counted(q, b)) + b.bytes >= b.total

(* dtn_bundle_buffer_push, which succeeds. *)
PushWhole(b) ==
    /\ b.whole
    /\ forwarded' = Append(forwarded, <<b>>)
    /\ UNCHANGED <<seen, entries>>

Key(b) == <<b.stamp, b.number>>

(* Mutant: fragments already seen are taken. *)
KnowsNothing(b) == FALSE

Known(b) == Key(b) \in seen

PushKnown(b) ==
    /\ ~b.whole
    /\ Known(b)
    /\ UNCHANGED receiver

PushFragment(b) ==
    LET q == entries[b.stamp] IN
    /\ ~b.whole
    /\ ~Known(b)
    /\ seen' = seen \cup {Key(b)}
    /\ IF Complete(q, b)
       THEN /\ forwarded' = Append(forwarded, Insert(q, b))
            /\ entries' = [entries EXCEPT ![b.stamp] = <<>>]
       ELSE /\ entries' = [entries EXCEPT ![b.stamp] = Insert(q, b)]
            /\ UNCHANGED forwarded

Receive(b) ==
    /\ BagIn(b, network)
    /\ network' = network (-) SetToBag({b})
    /\ PushWhole(b) \/ PushKnown(b) \/ PushFragment(b)
    /\ UNCHANGED <<sequence, task, now, length, overlapped, keys>>

Next ==
    \/ SenderNext /\ UNCHANGED receiver
    \/ \E b \in BagToSet(network) : Receive(b)

Spec == Init /\ [][Next]_vars
-----------------------------------------------------------------------------
(* Fragments carry a datagram from its first byte on, without a gap or an  *)
(* overlap.                                                                *)
Contiguous(q) ==
    /\ q # <<>> => q[1].from = 0
    /\ \A k \in 2..Len(q) : q[k].from = q[k - 1].from + q[k - 1].bytes

(* The numbers of a datagram's fragments increase in the order of its      *)
(* bytes, which the receiver relies on, unless another worker was packing  *)
(* at the same time: then the update of the counter may get lost.          *)
NumbersIncrease ==
    \A w \in Workers : task[w].datagram \notin overlapped =>
        \A k \in 2..Len(task[w].out) :
            task[w].out[k].number > task[w].out[k - 1].number

(* No other datagram was packed at the same time or has its time stamp. *)
Alone(d) ==
    /\ d \notin overlapped
    /\ \A other \in Datagrams \ {d} : keys[d] \cap keys[other] = {}

Exact(d) == length[d] < Least \/ length[d] % Chunk = 0

Content(q) == {b.datagram : b \in ToSet(q)}

Intact(q) ==
    /\ Contiguous(q)
    /\ \E d \in Datagrams : Content(q) = {d} /\ Bytes(q) = length[d]

(* Whatever the network loses, reorders or delivers twice: what reaches    *)
(* the UDP receiver is a datagram as it was sent, if it has its time stamp *)
(* and the counter to itself and its size is below a chunk or a multiple.  *)
(* Of other sizes more is forwarded than was sent (Forwards, below).       *)
ForwardedIntact ==
    \A n \in DOMAIN forwarded :
        (\A d \in Content(forwarded[n]) : Exact(d) /\ Alone(d))
            => Intact(forwarded[n])

(* A datagram sent in fragments, alone, is forwarded once at most.         *)
ForwardedOnce ==
    \A n1, n2 \in DOMAIN forwarded :
        (/\ n1 # n2
         /\ \E b \in ToSet(forwarded[n1]) : ~b.whole
         /\ \A d \in Content(forwarded[n1]) : Alone(d))
            => Content(forwarded[n1]) \cap Content(forwarded[n2]) = {}

(* README.md:57: data "is encypsulated at one Tunnel node and send to the  *)
(* counterpart Tunnel node, which forwards the data to its UDP receiver".  *)
Forwards ==
    \A n \in DOMAIN forwarded : Intact(forwarded[n])

\* Workers and datagrams have no order.
Symmetry == Permutations(Workers) \cup Permutations(Datagrams)
=============================================================================
