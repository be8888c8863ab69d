----------------------------- MODULE LinkedList -----------------------------
(***************************************************************************)
(* dtn_linked_list.c: a chain of cells that know their successor and their *)
(* predecessor.  The head of the list is a cell as well: its next is the   *)
(* first element and its last is the LAST element, while the first element *)
(* has no predecessor.  A list is a record, and an operation maps lists to *)
(* lists; the variable holds one list and the answer of the last call.     *)
(***************************************************************************)
EXTENDS Naturals, Sequences, SequencesExt, FiniteSets

CONSTANTS
    Cell, HEAD, NIL,    \* list entities, the one inside the list, no entity
    Item, NULL,         \* contents
    MaxLength           \* bound: the positions that are written

VARIABLES list, answer

vars == <<list, answer>>

Entity == Cell \cup {HEAD}
Position == 1 .. MaxLength

Empty == [ next    |-> [e \in Entity |-> NIL],
           last    |-> [e \in Entity |-> NIL],
           content |-> [e \in Entity |-> NULL] ]

\* The cells from the head on, and the same list read from its end.
Forward(l) ==
    LET walk[n \in 0 .. Cardinality(Cell)] == [e \in Entity \cup {NIL} |->
          IF e = NIL \/ n = 0 THEN <<>> ELSE <<e>> \o walk[n - 1][l.next[e]]]
    IN walk[Cardinality(Cell)][l.next[HEAD]]

Backward(l) ==
    LET walk[n \in 0 .. Cardinality(Cell)] == [e \in Entity \cup {NIL} |->
          IF e = NIL \/ n = 0 THEN <<>> ELSE <<e>> \o walk[n - 1][l.last[e]]]
    IN walk[Cardinality(Cell)][l.last[HEAD]]

Contents(l) == [i \in 1 .. Len(Forward(l)) |-> l.content[Forward(l)[i]]]

\* get_entity_at_position: the cell at a position, NIL beyond the end.
EntityAt(l, pos) ==
    IF pos \in 1 .. Len(Forward(l)) THEN Forward(l)[pos] ELSE NIL

\* acquire_list_entity answers a zeroed cell that no list uses;
\* release_list_entity gives it back.
Acquire(l) == CHOOSE c \in Cell : c \notin Range(Forward(l))
Release(l, e) == [l EXCEPT !.next[e] = NIL, !.last[e] = NIL, !.content[e] = NULL]

Pushed(l, x) ==
    LET new == Acquire(l)
        tail == IF l.next[HEAD] = NIL THEN HEAD ELSE l.last[HEAD]
    IN [l EXCEPT !.content[new] = x,
                 !.next[tail] = new,
                 !.last[new] = IF tail = HEAD THEN NIL ELSE tail,
                 !.last[HEAD] = new]

\* expand_list_to_position pushes NULLs until there is a cell before pos.
Expanded(l, pos) ==
    LET grow[k \in Len(Forward(l)) .. MaxLength] ==
          IF k = Len(Forward(l)) THEN l ELSE Pushed(grow[k - 1], NULL)
    IN IF pos - 1 > Len(Forward(l)) THEN grow[pos - 1] ELSE l

Before(l, pos) == IF pos = 1 THEN HEAD ELSE EntityAt(l, pos - 1)

\* As Inserted, without the end of the list being moved to the new cell.
InsertedEndKept(l, pos, x) ==
    LET new == Acquire(l)
        entity == Before(l, pos)
        after == l.next[entity]
        linked == [l EXCEPT !.content[new] = x,
                            !.next[new] = after,
                            !.last[new] = IF entity = HEAD THEN NIL ELSE entity,
                            !.next[entity] = new]
    IN IF after # NIL THEN [linked EXCEPT !.last[after] = new] ELSE linked

Inserted(l, pos, x) ==
    LET new == Acquire(l)
        entity == Before(l, pos)
        after == l.next[entity]
        linked == [l EXCEPT !.content[new] = x,
                            !.next[new] = after,
                            !.last[new] = IF entity = HEAD THEN NIL ELSE entity,
                            !.next[entity] = new]
        back == IF after # NIL THEN [linked EXCEPT !.last[after] = new] ELSE linked
    IN IF l.last[HEAD] \in {entity, NIL} THEN [back EXCEPT !.last[HEAD] = new] ELSE back

Removed(l, e) ==
    LET first == IF l.next[HEAD] = e THEN [l EXCEPT !.next[HEAD] = l.next[e]] ELSE l
        end   == IF l.last[HEAD] = e THEN [first EXCEPT !.last[HEAD] = l.last[e]] ELSE first
        ahead == IF l.last[e] # NIL THEN [end EXCEPT !.next[l.last[e]] = l.next[e]] ELSE end
        back  == IF l.next[e] # NIL THEN [ahead EXCEPT !.last[l.next[e]] = l.last[e]] ELSE ahead
    IN Release(back, e)

Popped(l) ==
    LET last == l.last[HEAD]
        cut  == [l EXCEPT !.last[HEAD] = l.last[last],
                          !.next[IF l.last[last] = NIL THEN HEAD ELSE l.last[last]] = NIL]
    IN Release(cut, last)

Init == list = Empty /\ answer = <<"done">>

Set(pos, x) ==
    LET l == Expanded(list, pos)
        e == l.next[Before(l, pos)]
    IN IF e = NIL
       THEN list' = Pushed(l, x) /\ answer' = <<"item", NULL>>
       ELSE list' = [l EXCEPT !.content[e] = x] /\ answer' = <<"item", l.content[e]>>

Insert(pos, x) ==
    /\ Len(Forward(list)) < MaxLength
    /\ list' = Inserted(Expanded(list, pos), pos, x)
    /\ answer' = <<"done">>

RemoveItem(pos) ==
    LET e == EntityAt(list, pos)
    IN IF e = NIL
       THEN answer' = <<"item", NULL>> /\ UNCHANGED list
       ELSE answer' = <<"item", list.content[e]>> /\ list' = Removed(list, e)

Push(x) ==
    /\ Len(Forward(list)) < MaxLength
    /\ list' = Pushed(list, x)
    /\ answer' = <<"done">>

Pop ==
    IF list.last[HEAD] = NIL
    THEN answer' = <<"item", NULL>> /\ UNCHANGED list
    ELSE answer' = <<"item", list.content[list.last[HEAD]]>> /\ list' = Popped(list)

Find(x) ==
    LET s == Contents(list)
    IN /\ answer' = <<"pos", IF Contains(s, x) THEN SelectInSeq(s, LAMBDA y : y = x) ELSE 0>>
       /\ UNCHANGED list

Get(pos) ==
    /\ answer' = <<"item", IF EntityAt(list, pos) = NIL THEN NULL ELSE list.content[EntityAt(list, pos)]>>
    /\ UNCHANGED list

Count == answer' = <<"pos", Len(Forward(list))>> /\ UNCHANGED list

\* clear releases the cells one after the other, then empties the head.
Clear == list' = Empty /\ answer' = <<"done">>

Next ==
    \/ \E pos \in Position, x \in Item \cup {NULL} : Set(pos, x) \/ Insert(pos, x)
    \/ \E pos \in Position : RemoveItem(pos) \/ Get(pos)
    \/ \E x \in Item \cup {NULL} : Push(x)
    \/ \E x \in Item : Find(x)
    \/ Pop \/ Count \/ Clear

Spec == Init /\ [][Next]_vars

-----------------------------------------------------------------------------
\* ASSERT_LIST_INVARIANTS and more: read from either end the list has the
\* same cells (lines 91-95 look at the two ends only).
LinkedBothWays == Backward(list) = Reverse(Forward(list))

\* The linked list is a list: every call leaves and answers what it should.
Abstract == INSTANCE List WITH seq <- Contents(list)
IsList == Abstract!Spec
=============================================================================
