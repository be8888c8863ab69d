------------------------------ MODULE NodeList ------------------------------
(***************************************************************************)
(* dtn_node.c: structures that carry their own links, as the members of an  *)
(* intrusive list.  A call refuses a node that has links, but the only node *)
(* of a list has none: as in the code's uses, a node that is in the list is *)
(* not added again, it is moved by insert_before and insert_after.          *)
(***************************************************************************)
EXTENDS Naturals, Sequences, SequencesExt, FiniteSets

CONSTANTS
    Node, NIL       \* the structures, and the null pointer

VARIABLES head, next, prev, answer

vars == <<head, next, prev, answer>>

\* The list in the state <<head, next>>: a walk along the links.
Walk(h, nx) ==
    LET walk[n \in 0 .. Cardinality(Node)] == [e \in Node \cup {NIL} |->
          IF e = NIL \/ n = 0 THEN <<>> ELSE <<e>> \o walk[n - 1][nx[e]]]
    IN walk[Cardinality(Node)][h]

Chain == Walk(head, next)
Included(n) == n \in Range(Chain)
Linked(n) == prev[n] # NIL \/ next[n] # NIL
Answer(kind, a) == answer' = <<kind, a>>

Init ==
    /\ head = NIL
    /\ next = [n \in Node |-> NIL]
    /\ prev = [n \in Node |-> NIL]
    /\ answer = <<"node", NIL>>

\* dtn_node_unplug: the node's neighbours are joined, its links cleared.
Unplugged(h, nx, pv, n) ==
    LET joined == IF n # h /\ pv[n] # NIL THEN [nx EXCEPT ![pv[n]] = nx[n]] ELSE nx
        backed == IF nx[n] # NIL
                  THEN [pv EXCEPT ![nx[n]] = IF n = h THEN NIL ELSE pv[n]] ELSE pv
    IN [ head |-> IF n = h THEN nx[n] ELSE h,
         next |-> [joined EXCEPT ![n] = NIL],
         prev |-> [backed EXCEPT ![n] = NIL] ]

Become(l) == head' = l.head /\ next' = l.next /\ prev' = l.prev

Push(n) ==
    /\ ~Included(n)
    /\ Answer("ok", TRUE)
    /\ IF head = NIL
       THEN head' = n /\ UNCHANGED <<next, prev>>
       ELSE /\ next' = [next EXCEPT ![Last(Chain)] = n]
            /\ prev' = [prev EXCEPT ![n] = Last(Chain)]
            /\ UNCHANGED head

PushFront(n) ==
    /\ ~Included(n)
    /\ Answer("ok", TRUE)
    /\ head' = n
    /\ next' = [next EXCEPT ![n] = head]
    /\ prev' = IF head = NIL THEN prev ELSE [prev EXCEPT ![head] = n]

\* dtn_node_set puts the node before the one at the position, or at the end
\* when the position is the first free one; it fails beyond.
SetAt(pos, n) ==
    /\ ~Included(n)
    /\ IF pos > Len(Chain) + 1
       THEN Answer("ok", FALSE) /\ UNCHANGED <<head, next, prev>>
       ELSE IF pos = Len(Chain) + 1
       THEN Push(n)
       ELSE LET after == Chain[pos]
                before == prev[after]
            IN /\ Answer("ok", TRUE)
               /\ head' = IF after = head THEN n ELSE head
               /\ next' = IF before # NIL THEN [next EXCEPT ![before] = n, ![n] = after]
                                          ELSE [next EXCEPT ![n] = after]
               /\ prev' = IF before # NIL THEN [prev EXCEPT ![n] = before, ![after] = n]
                                          ELSE [prev EXCEPT ![after] = n]

\* A node with links is refused by push, push_front and set.
Refused(n) ==
    /\ Linked(n)
    /\ Answer("ok", FALSE)
    /\ UNCHANGED <<head, next, prev>>

Pop ==
    /\ head # NIL
    /\ Answer("node", head)
    /\ head' = next[head]
    /\ next' = [next EXCEPT ![head] = NIL]
    /\ prev' = IF next[head] = NIL THEN prev ELSE [prev EXCEPT ![next[head]] = NIL]

PopLast ==
    /\ head # NIL
    /\ Answer("node", Last(Chain))
    /\ Become(Unplugged(head, next, prev, Last(Chain)))

RemoveIfIncluded(n) ==
    /\ Answer("ok", TRUE)
    /\ IF Included(n) THEN Become(Unplugged(head, next, prev, n))
       ELSE UNCHANGED <<head, next, prev>>

\* The two moves: the other node is looked up first, the node unplugged next,
\* and then linked to the other one with the head that the unplugging left.
InsertBefore(n, x) ==
    /\ n # x
    /\ IF ~Included(x)
       THEN Answer("ok", FALSE) /\ UNCHANGED <<head, next, prev>>
       ELSE LET l == Unplugged(head, next, prev, n)
            IN /\ Answer("ok", TRUE)
               /\ IF l.head = x
                  THEN /\ head' = n
                       /\ next' = [l.next EXCEPT ![n] = x]
                       /\ prev' = [l.prev EXCEPT ![x] = n, ![n] = NIL]
                  ELSE LET p == CHOOSE p \in Range(Walk(l.head, l.next)) : l.next[p] = x
                       IN /\ head' = l.head
                          /\ next' = [l.next EXCEPT ![p] = n, ![n] = x]
                          /\ prev' = [l.prev EXCEPT ![x] = n, ![n] = p]

InsertAfter(n, p) ==
    /\ n # p
    /\ IF ~Included(p)
       THEN Answer("ok", FALSE) /\ UNCHANGED <<head, next, prev>>
       ELSE LET l == Unplugged(head, next, prev, n)
                x == l.next[p]
            IN /\ Answer("ok", TRUE)
               /\ head' = l.head
               /\ next' = [l.next EXCEPT ![n] = x, ![p] = n]
               /\ prev' = IF x # NIL THEN [l.prev EXCEPT ![x] = n, ![n] = p]
                                     ELSE [l.prev EXCEPT ![n] = p]

Position(n) ==
    /\ Answer("pos", IF Included(n) THEN SelectInSeq(Chain, LAMBDA m : m = n) ELSE 0)
    /\ UNCHANGED <<head, next, prev>>

Count == Answer("pos", Len(Chain)) /\ UNCHANGED <<head, next, prev>>

Next ==
    \/ \E n \in Node :
          \/ Push(n) \/ PushFront(n) \/ Refused(n)
          \/ RemoveIfIncluded(n) \/ Position(n)
          \/ \E pos \in 1 .. Cardinality(Node) : SetAt(pos, n)
          \/ \E x \in Node : InsertBefore(n, x) \/ InsertAfter(n, x)
    \/ Pop \/ PopLast \/ Count

Spec == Init /\ [][Next]_vars

-----------------------------------------------------------------------------
\* The list reads the same from its end, and a node outside it has no links:
\* no call leaves half of a link behind, which a later push would refuse.
WellLinked ==
    /\ \A n \in Node : next[n] # NIL => prev[next[n]] = n
    /\ \A n \in Node : prev[n] # NIL => next[prev[n]] = n
    /\ \A n \in Node \ Range(Chain) : ~Linked(n)
    /\ head # NIL => prev[head] = NIL

\* A move never loses a node or doubles one: the nodes of the list change by
\* at most the one of the call, and the others keep their order.
OthersKeepOrder ==
    [][\E n \in Node :
         LET others(s) == SelectSeq(s, LAMBDA m : m # n)
         IN others(Chain) = others(Chain')]_vars
=============================================================================
