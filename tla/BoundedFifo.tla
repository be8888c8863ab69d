---------------------------- MODULE BoundedFifo ----------------------------
(***************************************************************************)
(* What a message queue of opendtn promises its users: elements leave it   *)
(* in the order they were inserted, and an insertion into a full queue     *)
(* succeeds by giving up the OLDEST element (dtn_ringbuffer.h: "the max    *)
(* number of elements this buffer may hold before starting to overwrite    *)
(* elements").  Ringbuffer implements this specification.                  *)
(***************************************************************************)
EXTENDS Naturals, Sequences

CONSTANT Elements

VARIABLES
    queue,      \* the elements held, oldest first
    bound       \* how many elements the queue may hold

vars == <<queue, bound>>

Init == /\ queue = <<>>
        /\ bound = 0

(* A user opens the queue, or is done with it: what it held is given up,   *)
(* and it gets a bound (0 while nobody uses it).                           *)
Open == /\ queue' = <<>>
        /\ bound' \in Nat

Insert == /\ bound > 0
          /\ \E e \in Elements :
                queue' = IF Len(queue) < bound THEN Append(queue, e)
                                               ELSE Append(Tail(queue), e)
          /\ UNCHANGED bound

Remove == /\ queue # <<>>
          /\ queue' = Tail(queue)
          /\ UNCHANGED bound

Drain == /\ queue' = <<>>
         /\ UNCHANGED bound

Next == Open \/ Insert \/ Remove \/ Drain

Spec == Init /\ [][Next]_vars
=============================================================================
