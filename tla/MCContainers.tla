---------------------------- MODULE MCContainers ----------------------------
(***************************************************************************)
(* The containers of dtn_base, one at a time: `part' says which of them the *)
(* behaviour is about, so that their states add up and do not multiply.     *)
(***************************************************************************)
EXTENDS Naturals, FiniteSets

CONSTANTS
    Item, Cell, HEAD, NIL, NULL, NONE, DefaultSize, Rates, MaxLength,
    Node,
    Key, Value,
    Byte, ZERO, MaxSize, MaxCapacity, CacheSlots,
    Thread, Object, Capacity, Extension, WithTimeout, MaxItems

VARIABLES
    part,
    list, listAnswer, vector, vectorAnswer,
    head, next, prev, nodeAnswer,
    chains, freed, owned, dictAnswer, buckets, copies, tableAnswer,
    start, length, capacity, cached, bytes,
    elements, next_free, slots, in_use, pc, object, held, heap, phase,
    kind, parent, entries, members, hand, stray, found

\* Memory is there for as many cells as a list is long; the head of a list is none
\* of them.
ASSUME ListAssumption ==
    /\ IsFiniteSet(Cell) /\ MaxLength \in Nat /\ MaxLength <= Cardinality(Cell)
    /\ HEAD \notin Cell /\ NIL \notin Cell \cup {HEAD}

ASSUME NodeAssumption == IsFiniteSet(Node) /\ NIL \notin Node

\* A vector list is created with slots.
ASSUME VectorAssumption == DefaultSize \in Nat \ {0} /\ Rates \subseteq Nat \ {0}

\* The slots of a cache, and pointers that are not NULL.
ASSUME OwnersAssumption ==
    /\ {Capacity, Extension, MaxItems} \subseteq Nat
    /\ NONE \notin Object /\ NULL \notin Node

ASSUME BufferAssumption == ZERO \in Byte /\ {MaxSize, MaxCapacity, CacheSlots} \subseteq Nat

\* Two key objects of the same name, and all names but one in one slot.
KeyOf == [k \in Key |-> IF k \in {"a", "A"} THEN "a" ELSE k]
SlotOf == [c \in {KeyOf[k] : k \in Key} |-> IF c = "c" THEN 1 ELSE 0]
BucketOf == SlotOf
KeyName == DOMAIN SlotOf

LL == INSTANCE LinkedList WITH answer <- listAnswer
VL == INSTANCE VectorList WITH answer <- vectorAnswer
NL == INSTANCE NodeList WITH answer <- nodeAnswer
DI == INSTANCE Dict WITH answer <- dictAnswer
HT == INSTANCE Hashtable WITH Key <- KeyName, answer <- tableAnswer
BU == INSTANCE Buffer
RC == INSTANCE RegisteredCache WITH capacity <- slots
ITEM == INSTANCE Item WITH Key <- {"a"}

listVars == <<list, listAnswer>>
vectorVars == <<vector, vectorAnswer>>
nodeVars == <<head, next, prev, nodeAnswer>>
dictVars == <<chains, freed, owned, dictAnswer>>
tableVars == <<buckets, copies, tableAnswer>>
bufferVars == <<start, length, capacity, cached, bytes>>
cacheVars == <<elements, next_free, slots, in_use, pc, object, held, heap, phase>>
itemVars == <<kind, parent, entries, members, hand, stray, found>>
vars == <<part, itemVars, listVars, vectorVars, nodeVars, dictVars, tableVars, bufferVars, cacheVars>>

Init ==
    /\ part \in {"list", "vector", "node", "dict", "hashtable", "buffer", "cache", "item"}
    /\ LL!Init /\ VL!Init /\ NL!Init /\ DI!Init /\ HT!Init /\ BU!Init /\ RC!Init /\ ITEM!Init
    /\ part # "vector" => ~vector.shrink /\ \A r \in Rates : vector.rate <= r

ListStep == LL!Next /\ UNCHANGED <<itemVars, vectorVars, nodeVars, dictVars, tableVars, bufferVars, cacheVars>>
VectorStep == VL!Next /\ UNCHANGED <<itemVars, listVars, nodeVars, dictVars, tableVars, bufferVars, cacheVars>>
NodeStep == NL!Next /\ UNCHANGED <<itemVars, listVars, vectorVars, dictVars, tableVars, bufferVars, cacheVars>>
DictStep == DI!Next /\ UNCHANGED <<itemVars, listVars, vectorVars, nodeVars, tableVars, bufferVars, cacheVars>>
TableStep == HT!Next /\ UNCHANGED <<itemVars, listVars, vectorVars, nodeVars, dictVars, bufferVars, cacheVars>>
BufferStep == BU!Next /\ UNCHANGED <<itemVars, listVars, vectorVars, nodeVars, dictVars, tableVars, cacheVars>>
CacheStep == RC!Next /\ UNCHANGED <<itemVars, listVars, vectorVars, nodeVars, dictVars, tableVars, bufferVars>>
ItemStep ==
    ITEM!Next /\ UNCHANGED <<listVars, vectorVars, nodeVars, dictVars, tableVars, bufferVars, cacheVars>>

Next ==
    /\ UNCHANGED part
    /\ \/ part = "list" /\ ListStep
       \/ part = "vector" /\ VectorStep
       \/ part = "node" /\ NodeStep
       \/ part = "dict" /\ DictStep
       \/ part = "hashtable" /\ TableStep
       \/ part = "buffer" /\ BufferStep
       \/ part = "cache" /\ CacheStep
       \/ part = "item" /\ ItemStep

Spec == Init /\ [][Next]_vars /\ RC!Fairness

-----------------------------------------------------------------------------
\* The memory of each container hangs together after every call: the links of
\* the two chained lists read the same both ways, the vector list stays in its
\* slots but for the one known index, a buffer holds the bytes put into it.
Structure == LL!LinkedBothWays /\ NL!WellLinked /\ VL!WithinSlots /\ BU!HoldsBytes

\* Every object has one owner: what a dictionary holds it owns and has not
\* freed, a hashtable has one key copy per entry, and a cached object is in one
\* place while threads put and get without waiting; an item of JSON has one
\* owner, and knows the container it is in unless it was copied with it.
Ownership == DI!OwnsItsPairs /\ HT!CopiesFreed /\ RC!OneOwner /\ ITEM!IsTree

\* Both lists do what a list promises and both tables what a map promises,
\* answers included, and a node moved in a list leaves the others in order.
Contracts == LL!IsList /\ VL!IsList /\ DI!IsMap /\ HT!IsMap /\ NL!OthersKeepOrder

\* Freeing a registered cache comes to an end while a call has its flag.
FreeReturns == RC!FreeReturns
=============================================================================
