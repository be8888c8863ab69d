----------------------------- MODULE Interfaces -----------------------------
(***************************************************************************)
(* The IP interfaces of dtn_tunnel_core and the garbage collector          *)
(* dtn_garbadge_colloctor.  Worker threads look an interface up by name    *)
(* and send on it; the event loop thread opens interfaces, and removes one *)
(* whose socket closed.  An item that cannot be freed, because a worker    *)
(* has its lock, goes to the collector, whose thread tries again at every  *)
(* timer.                                                                  *)
(*                                                                         *)
(* The lock of an item is never initialised: its timeout is zero, and an   *)
(* attempt fails at once when the lock is held.                            *)
(***************************************************************************)
EXTENDS Naturals, Sequences, SequencesExt, FiniteSets

CONSTANTS
    Workers,
    Names,      \* the host names interfaces are opened with
    Items,      \* the Interface structures allocated
    None

VARIABLES
    table,      \* interfaces.ip: the item under each name
    itemLock,   \* the worker that has each item's lock, or None
    use,        \* the item each worker sends on, and if it got the lock
    closing,    \* interface_close in the event loop: the step, and the item
    garbage,    \* the collector's data.queue, oldest first
    collecting, \* has the collector's thread the data.lock
    rest,       \* the queue it took, oldest first
    frees,      \* how often each item was freed
    lost,       \* items nobody will free
    crashed,    \* a worker used the interface of a NULL item
    trespassed  \* history variable: items a worker used without their lock

vars == <<table, itemLock, use, closing, garbage, collecting, rest, frees,
          lost, crashed, trespassed>>

NoUse == [item |-> None, owns |-> FALSE]
Open == [at |-> "open", item |-> None]

Init ==
    /\ table = [n \in Names |-> None]
    /\ itemLock = [i \in Items |-> None]
    /\ use = [w \in Workers |-> NoUse]
    /\ closing = Open
    /\ garbage = <<>> /\ rest = <<>>
    /\ collecting = FALSE
    /\ frees = [i \in Items |-> 0]
    /\ lost = {}
    /\ crashed = FALSE
    /\ trespassed = {}

Tabled == {table[n] : n \in Names} \ {None}
Used(i) == \E w \in Workers : use[w].item = i

New(i) ==
    /\ i \notin Tabled \cup {closing.item} \cup lost
    /\ i \notin ToSet(garbage) \cup ToSet(rest)
    /\ frees[i] = 0 /\ ~Used(i)
-----------------------------------------------------------------------------
(* Mutant: an item is freed whether or not its lock is held. *)
AlwaysFrees(i) == TRUE

(* interface_free succeeds when it gets the lock of the item. *)
MayFree(i) == itemLock[i] = None

(* free, and give the item up if that fails. *)
FreeOrLose(i) ==
    IF MayFree(i)
    THEN frees' = [frees EXCEPT ![i] = @ + 1] /\ UNCHANGED lost
    ELSE lost' = lost \cup {i} /\ UNCHANGED frees

(* open_interface: the dictionary frees a value that is replaced, and does *)
(* not look if that worked.                                                *)
OpenInterface(n, i) ==
    /\ ~crashed
    /\ closing = Open
    /\ New(i)
    /\ table' = [table EXCEPT ![n] = i]
    /\ IF table[n] = None THEN UNCHANGED <<frees, lost>> ELSE FreeOrLose(table[n])
    /\ UNCHANGED <<itemLock, use, closing, garbage, collecting, rest, crashed,
                   trespassed>>

(* A worker of message_udp_process looks an interface up.  It tries the    *)
(* item's lock under the lock of the table, and goes on without it.        *)
LookUp(w, n) ==
    LET i == table[n]
        free == itemLock[i] = None IN
    /\ ~crashed
    /\ use[w] = NoUse
    /\ i # None
    /\ use' = [use EXCEPT ![w] = [item |-> i, owns |-> free]]
    /\ itemLock' = [itemLock EXCEPT ![i] = IF free THEN w ELSE @]
    /\ trespassed' = IF free THEN trespassed ELSE trespassed \cup {i}
    /\ UNCHANGED <<table, closing, garbage, collecting, rest, frees, lost, crashed>>

(* There is no interface of that name: in->interface is read all the same. *)
LookUpNothing(w, n) ==
    /\ ~crashed
    /\ use[w] = NoUse
    /\ table[n] = None
    /\ crashed' = TRUE
    /\ UNCHANGED <<table, itemLock, use, closing, garbage, collecting, rest,
                   frees, lost, trespassed>>

(* The unlock after sending releases the lock whoever has it. *)
Unlocked(w) == [itemLock EXCEPT ![use[w].item] = None]

Sent(w) ==
    /\ ~crashed
    /\ use[w] # NoUse
    /\ itemLock' = Unlocked(w)
    /\ use' = [use EXCEPT ![w] = NoUse]
    /\ UNCHANGED <<table, closing, garbage, collecting, rest, frees, lost,
                   crashed, trespassed>>
-----------------------------------------------------------------------------
(* interface_close, in the event loop thread.                              *)

Without(n) == [table EXCEPT ![n] = None]

CloseRemove(n) ==
    /\ ~crashed
    /\ closing = Open
    /\ table[n] # None
    /\ table' = Without(n)
    /\ closing' = [at |-> "free", item |-> table[n]]
    /\ UNCHANGED <<itemLock, use, garbage, collecting, rest, frees, lost,
                   crashed, trespassed>>

CloseFree ==
    /\ ~crashed
    /\ closing.at = "free"
    /\ IF MayFree(closing.item)
       THEN /\ frees' = [frees EXCEPT ![closing.item] = @ + 1]
            /\ closing' = Open
       ELSE /\ closing' = [closing EXCEPT !.at = "push"]
            /\ UNCHANGED frees
    /\ UNCHANGED <<table, itemLock, use, garbage, collecting, rest, lost,
                   crashed, trespassed>>

(* dtn_garbadge_colloctor_push: without the collector's lock, it tries to  *)
(* free the item itself and does not look if that worked.                  *)
ClosePush ==
    /\ ~crashed
    /\ closing.at = "push"
    /\ IF collecting
       THEN FreeOrLose(closing.item) /\ UNCHANGED garbage
       ELSE garbage' = Append(garbage, closing.item) /\ UNCHANGED <<frees, lost>>
    /\ closing' = Open
    /\ UNCHANGED <<table, itemLock, use, collecting, rest, crashed, trespassed>>
-----------------------------------------------------------------------------
(* handle_in_thread of the collector, after each timer: it keeps the lock  *)
(* until it has tried every item.                                          *)

CollectStart ==
    /\ ~crashed
    /\ ~collecting
    /\ collecting' = TRUE
    /\ rest' = garbage
    /\ garbage' = <<>>
    /\ UNCHANGED <<table, itemLock, use, closing, frees, lost, crashed, trespassed>>

(* Mutant: an item still locked is not queued again, or a freed one is. *)
ForgetsLocked(i) == garbage
QueuesAgain(i) == Append(garbage, i)

Kept(i) == IF MayFree(i) THEN garbage ELSE Append(garbage, i)

CollectFree ==
    LET i == Head(rest) IN
    /\ ~crashed
    /\ collecting
    /\ rest # <<>>
    /\ rest' = Tail(rest)
    /\ frees' = [frees EXCEPT ![i] = IF MayFree(i) THEN @ + 1 ELSE @]
    /\ garbage' = Kept(i)
    /\ UNCHANGED <<table, itemLock, use, closing, collecting, lost, crashed,
                   trespassed>>

CollectEnd ==
    /\ ~crashed
    /\ collecting
    /\ rest = <<>>
    /\ collecting' = FALSE
    /\ UNCHANGED <<table, itemLock, use, closing, garbage, rest, frees, lost,
                   crashed, trespassed>>
-----------------------------------------------------------------------------
Close == CloseFree \/ ClosePush
Collect == CollectStart \/ CollectFree \/ CollectEnd

Next ==
    \/ \E n \in Names, i \in Items : OpenInterface(n, i)
    \/ \E w \in Workers :
        \/ \E n \in Names : LookUp(w, n) \/ LookUpNothing(w, n)
        \/ Sent(w)
    \/ \E n \in Names : CloseRemove(n)
    \/ Close
    \/ Collect

Spec == Init /\ [][Next]_vars

-----------------------------------------------------------------------------
(* An item is in one place: under one name, in the hands of the event loop *)
(* thread, once in one of the collector's queues, freed once, or lost.     *)
OneKeeper ==
    \A i \in Items :
        Cardinality({n \in Names : table[n] = i})
          + (IF closing.item = i THEN 1 ELSE 0)
          + Cardinality({p \in DOMAIN garbage : garbage[p] = i})
          + Cardinality({p \in DOMAIN rest : rest[p] = i})
          + frees[i]
          + (IF i \in lost THEN 1 ELSE 0) <= 1

(* A worker that uses an item without its lock is the only way an item can *)
(* be freed under a worker's hands: with the lock respected, the collector *)
(* protects every user.                                                    *)
FreedUnused ==
    \A i \in Items \ trespassed : frees[i] > 0 => ~Used(i)

(* An interface that was removed is freed in the end, unless it is given   *)
(* up because the collector was busy.                                      *)
RemovedIsFreed ==
    \A i \in Items :
        closing.item = i ~> (frees[i] > 0 \/ i \in lost \/ crashed)
=============================================================================
