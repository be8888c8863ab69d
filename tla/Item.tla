-------------------------------- MODULE Item --------------------------------
(***************************************************************************)
(* dtn_item.c: the values of JSON, a tree of literals, numbers, strings,   *)
(* arrays and objects.  A container owns what is put in and frees it; an   *)
(* item knows the container it was put in.  Users hold the items that they *)
(* created, took out of a container or copied, and no others.              *)
(***************************************************************************)
EXTENDS Naturals, Sequences, FiniteSets, Functions

CONSTANTS
    Node,           \* items that may be allocated
    Key,
    NULL,
    MaxItems        \* bound on the length of an array

VARIABLES
    kind,       \* [Node -> "free", "leaf", "array", "object"]
    parent,     \* [Node -> Node or NULL]
    entries,    \* [Node -> the items of an array]
    members,    \* [Node -> [Key -> the item of an object, or NULL]]
    hand,       \* the items users hold
    stray,      \* the items that came into a container by being copied with it
    found       \* what dtn_item_get answered

vars == <<kind, parent, entries, members, hand, stray, found>>
tree == <<kind, parent, entries, members>>

NoMembers == [k \in Key |-> NULL]
Free == {n \in Node : kind[n] = "free"}
Held(n) == (Range(entries[n]) \cup Range(members[n])) \ {NULL}

\* An item and all that it contains: the least set with it that is closed.
Below(n) ==
    LET closed == {s \in SUBSET Node : n \in s /\ \A m \in s : Held(m) \subseteq s}
    IN {m \in Node : \A s \in closed : m \in s}

\* Freed with everything below.
Gone(s) ==
    /\ kind' = [n \in Node |-> IF n \in s THEN "free" ELSE kind[n]]
    /\ stray' = stray \ s

Init ==
    /\ kind = [n \in Node |-> "free"] /\ parent = [n \in Node |-> NULL]
    /\ entries = [n \in Node |-> <<>>] /\ members = [n \in Node |-> NoMembers]
    /\ hand = {} /\ stray = {} /\ found = NULL

Create(n, k) ==
    /\ kind[n] = "free"
    /\ kind' = [kind EXCEPT ![n] = k] /\ parent' = [parent EXCEPT ![n] = NULL]
    /\ entries' = [entries EXCEPT ![n] = <<>>] /\ members' = [members EXCEPT ![n] = NoMembers]
    /\ hand' = hand \cup {n} /\ found' = NULL
    /\ UNCHANGED stray

\* A user puts in an item it holds, and not into itself.
MayPut(c, n) == n \in hand /\ c \notin Below(n) /\ kind[c] # "free"
Replaced(old) == IF old = NULL THEN {} ELSE Below(old)

\* dtn_item_object_set: the dictionary frees the value that was there.
ObjectSet(o, k, n) ==
    /\ kind[o] = "object" /\ MayPut(o, n)
    /\ Gone(Replaced(members[o][k]))
    /\ members' = [members EXCEPT ![o][k] = n]
    /\ parent' = [parent EXCEPT ![n] = o]
    /\ hand' = hand \ {n} /\ found' = NULL
    /\ UNCHANGED entries

ObjectRemove(o, k) ==
    LET n == members[o][k] IN
    /\ kind[o] = "object" /\ n # NULL
    /\ members' = [members EXCEPT ![o][k] = NULL]
    /\ parent' = [parent EXCEPT ![n] = NULL]
    /\ hand' = hand \cup {n} /\ stray' = stray \ {n} /\ found' = NULL
    /\ UNCHANGED <<kind, entries>>

ObjectDelete(o, k) ==
    /\ kind[o] = "object" /\ members[o][k] # NULL
    /\ Gone(Below(members[o][k]))
    /\ members' = [members EXCEPT ![o][k] = NULL] /\ found' = NULL
    /\ UNCHANGED <<parent, entries, hand>>

ArrayPush(a, n) ==
    /\ kind[a] = "array" /\ MayPut(a, n) /\ Len(entries[a]) < MaxItems
    /\ entries' = [entries EXCEPT ![a] = Append(@, n)]
    /\ parent' = [parent EXCEPT ![n] = a]
    /\ hand' = hand \ {n} /\ found' = NULL
    /\ UNCHANGED <<kind, members, stray>>

\* dtn_item_array_set, as dtn_list_set: a list that is too short grows by
\* NULLs; the item that was there is freed.
ArraySet(a, pos, n) ==
    LET old == IF pos \in DOMAIN entries[a] THEN entries[a][pos] ELSE NULL
        grown == [i \in 1 .. (IF pos > Len(entries[a]) THEN pos ELSE Len(entries[a])) |->
                     IF i = pos THEN n ELSE IF i \in DOMAIN entries[a] THEN entries[a][i] ELSE NULL] IN
    /\ kind[a] = "array" /\ MayPut(a, n)
    /\ Gone(Replaced(old))
    /\ entries' = [entries EXCEPT ![a] = grown]
    /\ parent' = [parent EXCEPT ![n] = a]
    /\ hand' = hand \ {n} /\ found' = NULL
    /\ UNCHANGED members

\* Mutant: the item that is taken out still has its parent.
TakenWithParent(n) == parent

\* dtn_item_array_stack_pop and dtn_item_array_queue_pop.
Taken(n) == IF n = NULL THEN parent ELSE [parent EXCEPT ![n] = NULL]
TakeOut(a, n, rest) ==
    /\ kind[a] = "array" /\ entries[a] # <<>>
    /\ entries' = [entries EXCEPT ![a] = rest]
    /\ parent' = Taken(n)
    /\ hand' = (hand \cup {n}) \ {NULL} /\ stray' = stray \ {n} /\ found' = NULL
    /\ UNCHANGED <<kind, members>>
StackPop(a) == TakeOut(a, entries[a][Len(entries[a])], SubSeq(entries[a], 1, Len(entries[a]) - 1))
QueuePop(a) == TakeOut(a, Head(entries[a]), Tail(entries[a]))

ItemFree(n) ==
    /\ n \in hand
    /\ Gone(Below(n)) /\ hand' = hand \ {n} /\ found' = NULL
    /\ UNCHANGED <<parent, entries, members>>

\* dtn_item_clear: the item becomes a null where it is.
ItemClear(n) ==
    /\ kind[n] # "free"
    /\ kind' = [m \in Node |-> IF m = n THEN "leaf" ELSE IF m \in Below(n) THEN "free" ELSE kind[m]]
    /\ stray' = stray \ (Below(n) \ {n})
    /\ entries' = [entries EXCEPT ![n] = <<>>] /\ members' = [members EXCEPT ![n] = NoMembers]
    /\ found' = NULL
    /\ UNCHANGED <<parent, hand>>

\* dtn_item_copy copies all below, and tells no copy what it is in.
ItemCopy(n, as) ==
    LET all == Below(n)
        of(c) == CHOOSE m \in all : as[m] = c
        copies == Range(as)
        copy(m) == IF m = NULL THEN NULL ELSE as[m] IN
    /\ kind[n] # "free"
    /\ \A m \in all : NULL \notin Range(entries[m])
    /\ kind' = [c \in Node |-> IF c \in copies THEN kind[of(c)] ELSE kind[c]]
    /\ parent' = [c \in Node |-> IF c \in copies THEN NULL ELSE parent[c]]
    /\ entries' = [c \in Node |-> IF c \in copies THEN [i \in DOMAIN entries[of(c)] |-> copy(entries[of(c)][i])]
                                  ELSE entries[c]]
    /\ members' = [c \in Node |-> IF c \in copies THEN [k \in Key |-> copy(members[of(c)][k])] ELSE members[c]]
    /\ hand' = hand \cup {as[n]} /\ stray' = stray \cup (copies \ {as[n]}) /\ found' = NULL

\* dtn_item_get with a pointer of one token: a key, an index, or the place
\* behind an array, where a null is pushed and answered.
GetMember(o, k) ==
    /\ kind[o] = "object" /\ found' = members[o][k]
    /\ UNCHANGED <<tree, hand, stray>>
GetEntry(a, i) ==
    /\ kind[a] = "array"
    /\ found' = IF i \in DOMAIN entries[a] THEN entries[a][i] ELSE NULL
    /\ UNCHANGED <<tree, hand, stray>>
GetBehind(a, n) ==
    /\ kind[a] = "array" /\ kind[n] = "free" /\ Len(entries[a]) < MaxItems
    /\ kind' = [kind EXCEPT ![n] = "leaf"]
    /\ entries' = [entries EXCEPT ![a] = Append(@, n), ![n] = <<>>]
    /\ members' = [members EXCEPT ![n] = NoMembers]
    /\ parent' = [parent EXCEPT ![n] = a] /\ found' = n
    /\ UNCHANGED <<hand, stray>>

Next ==
    \E n \in Node :
       \/ \E k \in {"leaf", "array", "object"} : Create(n, k)
       \/ ItemFree(n) \/ ItemClear(n) \/ StackPop(n) \/ QueuePop(n)
       \/ \E k \in Key : ObjectRemove(n, k) \/ ObjectDelete(n, k) \/ GetMember(n, k)
       \/ \E i \in 1 .. MaxItems : GetEntry(n, i)
       \/ \E m \in Node :
            \/ ArrayPush(n, m) \/ GetBehind(n, m)
            \/ \E k \in Key : ObjectSet(n, k, m)
            \/ \E i \in 1 .. MaxItems : ArraySet(n, i, m)
       \/ \E as \in [Below(n) -> Free] :
             IsInjective(as) /\ ItemCopy(n, as)

Spec == Init /\ [][Next]_vars

(***************************************************************************)
(* Properties.                                                             *)
(***************************************************************************)
\* Every item has one owner: a user, or one place in one container.  None is
\* lost, none is used after it was freed, and an item knows its container
\* unless it was copied with it.  What dtn_item_get answers is in its place.
Places(n) ==
    {p \in Node \X (1 .. MaxItems) :
         kind[p[1]] = "array" /\ p[2] \in DOMAIN entries[p[1]] /\ entries[p[1]][p[2]] = n}
      \cup {p \in Node \X Key : kind[p[1]] = "object" /\ members[p[1]][p[2]] = n}
IsTree ==
    \A n \in Node :
       /\ Cardinality(Places(n)) + (IF n \in hand THEN 1 ELSE 0) = (IF kind[n] = "free" THEN 0 ELSE 1)
       /\ n \notin stray => \A p \in Places(n) : parent[n] = p[1]
       /\ n \in hand => parent[n] = NULL
       /\ n = found => kind[n] # "free" /\ n \notin hand
=============================================================================
