-------------------------------- MODULE List --------------------------------
(***************************************************************************)
(* What dtn_list promises whatever implements it (dtn_list.h): a sequence  *)
(* of items, some of them NULL, addressed by positions from 1, which grows *)
(* with NULLs when a position beyond its end is written.  The answer of    *)
(* the last call is part of the promise.                                   *)
(***************************************************************************)
EXTENDS Naturals, Sequences, SequencesExt

CONSTANTS
    Item,       \* what a user puts in the list
    NULL,       \* no item
    MaxLength   \* bound: the positions that are written

VARIABLES seq, answer

vars == <<seq, answer>>

Position == 1 .. MaxLength
Padded(s, n) == s \o [i \in 1 .. IF n > Len(s) THEN n - Len(s) ELSE 0 |-> NULL]
At(s, pos) == IF pos \in 1 .. Len(s) THEN s[pos] ELSE NULL

Init == seq = <<>> /\ answer = <<"done">>

Set(pos, x) ==
    /\ seq' = [Padded(seq, pos) EXCEPT ![pos] = x]
    /\ answer' = <<"item", At(seq, pos)>>

Insert(pos, x) ==
    /\ Len(seq) < MaxLength
    /\ seq' = InsertAt(Padded(seq, pos - 1), pos, x)
    /\ answer' = <<"done">>

RemoveItem(pos) ==
    /\ seq' = IF pos <= Len(seq) THEN RemoveAt(seq, pos) ELSE seq
    /\ answer' = <<"item", At(seq, pos)>>

Push(x) ==
    /\ Len(seq) < MaxLength
    /\ seq' = Append(seq, x)
    /\ answer' = <<"done">>

Pop ==
    /\ seq' = IF seq = <<>> THEN seq ELSE Front(seq)
    /\ answer' = <<"item", At(seq, Len(seq))>>

Find(x) ==
    /\ answer' = <<"pos", IF Contains(seq, x) THEN SelectInSeq(seq, LAMBDA y : y = x) ELSE 0>>
    /\ UNCHANGED seq

Get(pos) == answer' = <<"item", At(seq, pos)>> /\ UNCHANGED seq

Count == answer' = <<"pos", Len(seq)>> /\ UNCHANGED seq

Clear == seq' = <<>> /\ answer' = <<"done">>

Next ==
    \/ \E pos \in Position, x \in Item \cup {NULL} : Set(pos, x) \/ Insert(pos, x)
    \/ \E pos \in Position : RemoveItem(pos) \/ Get(pos)
    \/ \E x \in Item \cup {NULL} : Push(x)
    \/ \E x \in Item : Find(x)
    \/ Pop \/ Count \/ Clear

Spec == Init /\ [][Next]_vars
=============================================================================
