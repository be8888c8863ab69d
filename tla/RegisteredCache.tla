--------------------------- MODULE RegisteredCache --------------------------
(***************************************************************************)
(* dtn_registered_cache.c: a stack of released objects that threads share.  *)
(* A flag guards it: a thread that finds the flag set does not wait, it     *)
(* allocates an object, or frees its own.  Freeing the cache waits for the  *)
(* flag, for a time if the cache was given one, and sets it for good.       *)
(***************************************************************************)
EXTENDS Naturals, FiniteSets

CONSTANTS
    Thread, Object, NONE,
    Capacity,           \* slots of the cache when it is registered
    Extension,          \* slots a second registration of the same name adds
    WithTimeout         \* timeout_usec # 0: freeing the cache may give up

VARIABLES
    elements, next_free, \* the slots, those below next_free with an object
    capacity,
    in_use,             \* the flag
    pc,                 \* where a thread is in get or put
    object,             \* the object in the hands of a call
    held,               \* the objects each thread uses
    heap,               \* objects not allocated
    phase               \* of the cache: "used", "freeing", "freed", "kept"

vars == <<elements, next_free, capacity, in_use, pc, object, held, heap, phase>>

Init ==
    /\ elements = [i \in 0 .. Capacity + Extension - 1 |-> NONE]
    /\ next_free = 0
    /\ capacity = Capacity
    /\ in_use = FALSE
    /\ pc = [t \in Thread |-> "idle"]
    /\ object = [t \in Thread |-> NONE]
    /\ held = [t \in Thread |-> {}]
    /\ heap = Object
    /\ phase = "used"

\* dtn_registered_cache_extend under the same name: its users register their
\* caches when they start, before there are other threads.
Extend ==
    /\ phase = "used" /\ capacity = Capacity
    /\ \A t \in Thread : pc[t] = "idle"
    /\ capacity' = capacity + Extension
    /\ UNCHANGED <<elements, next_free, in_use, pc, object, held, heap, phase>>

Call(t) ==
    /\ phase = "used" /\ pc[t] = "idle"
    /\ \/ pc' = [pc EXCEPT ![t] = "get"] /\ UNCHANGED <<object, held>>
       \/ \E o \in held[t] : /\ object' = [object EXCEPT ![t] = o]
                             /\ held' = [held EXCEPT ![t] = @ \ {o}]
                             /\ pc' = [pc EXCEPT ![t] = "put"]
    /\ UNCHANGED <<elements, next_free, capacity, in_use, heap, phase>>

\* As TestAndSet, with the flag read and set in two steps.
ReadThenSet(t) ==
    /\ pc[t] \in {"get", "put"}
    /\ \/ in_use' = TRUE
          /\ pc' = [pc EXCEPT ![t] = IF @ = "get" THEN "locked_get" ELSE "locked_put"]
    /\ UNCHANGED <<elements, next_free, capacity, object, held, heap, phase>>

\* atomic_flag_test_and_set in get and put: without the flag there is no
\* object to be had, and no place for one.
TestAndSet(t) ==
    /\ pc[t] \in {"get", "put"}
    /\ in_use' = TRUE
    /\ pc' = [pc EXCEPT ![t] = CASE in_use /\ @ = "get" -> "return_get"
                                 [] in_use /\ @ = "put" -> "return_put"
                                 [] ~in_use /\ @ = "get" -> "locked_get"
                                 [] OTHER -> "locked_put"]
    /\ UNCHANGED <<elements, next_free, capacity, object, held, heap, phase>>

\* locked_cache_get and locked_cache_put, two steps each: the count goes down
\* before the slot is read, and up after the slot is written.
LockedGet(t) ==
    /\ pc[t] = "locked_get"
    /\ IF next_free = 0
       THEN pc' = [pc EXCEPT ![t] = "clear_get"] /\ UNCHANGED next_free
       ELSE pc' = [pc EXCEPT ![t] = "take"] /\ next_free' = next_free - 1
    /\ UNCHANGED <<elements, capacity, in_use, object, held, heap, phase>>

Take(t) ==
    /\ pc[t] = "take"
    /\ object' = [object EXCEPT ![t] = elements[next_free]]
    /\ pc' = [pc EXCEPT ![t] = "clear_get"]
    /\ UNCHANGED <<elements, next_free, capacity, in_use, held, heap, phase>>

LockedPut(t) ==
    /\ pc[t] = "locked_put"
    /\ IF next_free = capacity
       THEN pc' = [pc EXCEPT ![t] = "clear_put"] /\ UNCHANGED elements
       ELSE /\ pc' = [pc EXCEPT ![t] = "count"]
            /\ elements' = [elements EXCEPT ![next_free] = object[t]]
    /\ UNCHANGED <<next_free, capacity, in_use, object, held, heap, phase>>

CountUp(t) ==
    /\ pc[t] = "count"
    /\ next_free' = next_free + 1
    /\ object' = [object EXCEPT ![t] = NONE]
    /\ pc' = [pc EXCEPT ![t] = "clear_put"]
    /\ UNCHANGED <<elements, capacity, in_use, held, heap, phase>>

\* As ClearFlag, for a get only: a put returns with the flag set.
ClearFlagOfGet(t) ==
    /\ pc[t] \in {"clear_get", "clear_put"}
    /\ in_use' = (pc[t] = "clear_put")
    /\ pc' = [pc EXCEPT ![t] = IF @ = "clear_get" THEN "return_get" ELSE "return_put"]
    /\ UNCHANGED <<elements, next_free, capacity, object, held, heap, phase>>

ClearFlag(t) ==
    /\ pc[t] \in {"clear_get", "clear_put"}
    /\ in_use' = FALSE
    /\ pc' = [pc EXCEPT ![t] = IF @ = "clear_get" THEN "return_get" ELSE "return_put"]
    /\ UNCHANGED <<elements, next_free, capacity, object, held, heap, phase>>

\* The caller takes what it got or allocates, and frees what was not taken.
Return(t) ==
    /\ pc[t] \in {"return_get", "return_put"}
    /\ pc' = [pc EXCEPT ![t] = "idle"]
    /\ object' = [object EXCEPT ![t] = NONE]
    /\ IF pc[t] = "return_get"
       THEN IF object[t] # NONE
            THEN held' = [held EXCEPT ![t] = @ \cup {object[t]}] /\ UNCHANGED heap
            ELSE \E o \in heap : held' = [held EXCEPT ![t] = @ \cup {o}] /\ heap' = heap \ {o}
       ELSE heap' = heap \cup ({object[t]} \ {NONE}) /\ UNCHANGED held
    /\ UNCHANGED <<elements, next_free, capacity, in_use, phase>>

\* dtn_registered_cache_free_all at the end of the program: no call begins any
\* more, but one that has the flag may still be going on.
FreeAll ==
    /\ phase = "used"
    /\ \A t \in Thread : pc[t] \notin {"get", "put"}
    /\ phase' = "freeing"
    /\ UNCHANGED <<elements, next_free, capacity, in_use, pc, object, held, heap>>

FreeCache ==
    /\ phase = "freeing"
    /\ IF in_use
       THEN /\ WithTimeout
            /\ phase' = "kept"
            /\ UNCHANGED <<elements, next_free, capacity, in_use, heap>>
       ELSE /\ in_use' = TRUE
            /\ heap' = heap \cup {elements[i] : i \in 0 .. next_free - 1}
            /\ next_free' = 0 /\ capacity' = 0
            /\ phase' = "freed"
            /\ UNCHANGED elements
    /\ UNCHANGED <<pc, object, held>>

Continue(t) ==
    \/ TestAndSet(t) \/ LockedGet(t) \/ Take(t) \/ LockedPut(t) \/ CountUp(t)
    \/ ClearFlag(t) \/ Return(t)
Next == Extend \/ FreeAll \/ FreeCache \/ \E t \in Thread : Call(t) \/ Continue(t)

\* A call that has begun goes on to its end, and the end of the program is
\* reached: nothing in between waits for anything but the flag.
Fairness ==
    /\ \A t \in Thread : WF_vars(Continue(t))
    /\ WF_vars(FreeCache)

Spec == Init /\ [][Next]_vars /\ Fairness

-----------------------------------------------------------------------------
\* An object is in the cache, in the hands of one call, with one thread, or not
\* allocated, and in one of these places only: no object is given out twice.
Places(o) ==
    Cardinality({i \in 0 .. next_free - 1 : elements[i] = o})
    + Cardinality({t \in Thread : pc[t] = "take" /\ elements[next_free] = o})
    + Cardinality({t \in Thread : object[t] = o}) + Cardinality({t \in Thread : o \in held[t]})
    + (IF o \in heap THEN 1 ELSE 0)
OneOwner == \A o \in Object : Places(o) = 1

\* The end of the program is not held up by a call that has the flag.
FreeReturns == (phase = "freeing") ~> (phase \in {"freed", "kept"})
=============================================================================
