----------------------------- MODULE VectorList -----------------------------
(***************************************************************************)
(* dtn_vector_list.c: a list in an array that grows by a rate.  `size' is  *)
(* meant to be one less than the number of slots, index 0 being unused, but *)
(* a list is created with as many slots as its size.  `touched' is the      *)
(* highest index that was accessed, for the property about the bounds; an   *)
(* array is modelled larger than its slots to make an overrun visible.      *)
(* `crowded', a history variable, says that an insert or a push went on     *)
(* without the room it asked for.  Each further push writes further behind  *)
(* the slots then, so that such a list is not followed any more.            *)
(***************************************************************************)
EXTENDS Naturals, Sequences, FiniteSetsExt

CONSTANTS
    Item, NULL,
    DefaultSize,    \* VECTOR_DEFAULT_SIZE, 100 in the code
    Rates,          \* the growth rates a user chooses; dtn_vector_list_set_rate
                    \* takes any but 0
    MaxLength       \* bound: the positions that are written

VARIABLES vector, answer

vars == <<vector, answer>>

Position == 1 .. MaxLength
Index == 0 .. MaxLength + 2
Smaller(a, b) == IF a < b THEN a ELSE b

Touch(v, i) == [v EXCEPT !.touched = IF i > @ THEN i ELSE @]

\* vector_resize: answers whether it succeeded, and the vector it leaves.
CanResize(v, slots) == slots # 0 /\ v.last < slots - 1
Resized(v, slots) ==
    IF ~CanResize(v, slots) \/ v.size = slots - 1 THEN v
    ELSE [v EXCEPT !.size = slots - 1, !.slots = slots, !.touched = slots - 1,
                   !.items = [i \in Index |-> IF i < Smaller(v.size, slots) THEN @[i] ELSE NULL]]

\* vector_auto_adjust, after an element was taken out.
Adjusted(v) ==
    IF v.last >= v.size THEN v
    ELSE IF v.last = v.size - 1 THEN Resized(v, v.size + v.rate + 1)
    ELSE IF v.shrink /\ v.size - v.last > v.rate THEN Resized(v, v.last + v.rate + 1)
    ELSE v

Init ==
    /\ vector \in [ items : {[i \in Index |-> NULL]}, last : {0}, size : {DefaultSize},
                    slots : {DefaultSize}, touched : {0}, rate : Rates, shrink : BOOLEAN,
                    crowded : {FALSE} ]
    /\ answer = <<"done">>

\* impl_vector_list_set makes room up to the position and moves the end there.
Placed(v, pos, x) ==
    LET room == IF pos >= v.size THEN Resized(v, pos + 2) ELSE v
    IN [Touch(room, pos) EXCEPT !.items[pos] = x, !.last = IF pos > @ THEN pos ELSE @]

Set(pos, x) ==
    /\ answer' = <<"item", vector.items[pos]>>
    /\ vector' = Placed(vector, pos, x)

\* The room that insert and push make before they add an element.  The resize
\* never fails, but for a rate of 1 it asks for the slots there are meant to be
\* already, and does nothing (line 178).
Roomy == IF vector.last = vector.size - 1
         THEN Resized(vector, vector.size + vector.rate) ELSE vector
NoRoom == vector.last = vector.size - 1 /\ Roomy.size = vector.size

Insert(pos, x) ==
    /\ vector.last < MaxLength
    /\ IF pos > vector.last
       THEN vector' = Placed(vector, pos, x)
       ELSE vector' = [Touch(Roomy, vector.last + 2) EXCEPT
                         !.last = @ + 1, !.crowded = NoRoom,
                         !.items = [i \in Index |->
                             IF i = pos THEN x
                             ELSE IF i \in pos + 1 .. vector.last + 2 THEN @[i - 1]
                             ELSE @[i]]]
    /\ answer' = <<"done">>

RemoveItem(pos) ==
    IF pos > vector.last
    THEN answer' = <<"item", NULL>> /\ UNCHANGED vector
    ELSE /\ answer' = <<"item", vector.items[pos]>>
         /\ vector' = Adjusted([Touch(vector, vector.last + 1) EXCEPT
                         !.last = @ - 1,
                         !.items = [i \in Index |->
                             IF i = vector.last THEN NULL
                             ELSE IF i \in pos .. vector.last THEN @[i + 1]
                             ELSE @[i]]])

Push(x) ==
    /\ vector.last < MaxLength
    /\ vector' = [Touch(Roomy, vector.last + 1) EXCEPT
                    !.last = @ + 1, !.crowded = NoRoom, !.items[vector.last + 1] = x]
    /\ answer' = <<"done">>

Pop ==
    IF vector.last = 0
    THEN answer' = <<"item", NULL>> /\ UNCHANGED vector
    ELSE /\ answer' = <<"item", vector.items[vector.last]>>
         /\ vector' = Adjusted([vector EXCEPT !.items[vector.last] = NULL, !.last = @ - 1])

\* get_pos looks from index 0, which is never written, to `last'.
Find(x) ==
    LET at == {i \in 0 .. vector.last : vector.items[i] = x}
    IN answer' = <<"pos", IF at = {} THEN 0 ELSE Min(at)>> /\ UNCHANGED vector

Get(pos) ==
    /\ answer' = <<"item", IF pos > vector.last THEN NULL ELSE vector.items[pos]>>
    /\ UNCHANGED vector

Count == answer' = <<"pos", vector.last>> /\ UNCHANGED vector

Clear ==
    /\ vector' = [Touch(vector, vector.size - 1) EXCEPT
                    !.last = 0,
                    !.items = [i \in Index |-> IF i < vector.size THEN NULL ELSE @[i]]]
    /\ answer' = <<"done">>

Next ==
    /\ ~vector.crowded
    /\ \/ \E pos \in Position, x \in Item \cup {NULL} : Set(pos, x) \/ Insert(pos, x)
       \/ \E pos \in Position : RemoveItem(pos) \/ Get(pos)
       \/ \E x \in Item \cup {NULL} : Push(x)
       \/ \E x \in Item : Find(x)
       \/ Pop \/ Count \/ Clear

Spec == Init /\ [][Next]_vars

-----------------------------------------------------------------------------
\* A list that has grown never touches an index beyond its slots; one with the
\* slots it was created with touches at most the one behind them, in the shift
\* of an insert or a remove (lines 372, 396).  The exception is a rate of 1: an
\* insert or a push into a full list goes on without room, and touches two
\* indices behind the slots at most; all that follow are without bound.
WithinSlots ==
    \/ vector.touched < vector.slots
    \/ vector.touched = vector.slots /\ vector.slots = DefaultSize
    \/ vector.crowded /\ vector.rate = 1 /\ vector.touched <= vector.slots + 1

\* The vector list is a list: every call leaves and answers what it should.
Abstract == INSTANCE List WITH seq <- [i \in 1 .. vector.last |-> vector.items[i]]
IsList == Abstract!Spec
=============================================================================
