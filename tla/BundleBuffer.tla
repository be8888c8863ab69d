---------------------------- MODULE BundleBuffer ----------------------------
(***************************************************************************)
(* dtn_bundle_buffer: worker threads push the bundles they receive, the    *)
(* buffer collects the fragments of each application data unit (ADU) and   *)
(* hands a complete one to the payload callback.  A history of the         *)
(* fragments seen makes it drop what the network delivers twice, and a     *)
(* timer in the event loop thread drops what is too old.                   *)
(*                                                                         *)
(* An ADU stands for one source and creation timestamp, a fragment for an  *)
(* ADU and a creation sequence number, numbered in the sender's order.     *)
(* The history and the data have a lock each, and every attempt at a lock  *)
(* another thread holds may time out.                                      *)
(***************************************************************************)
EXTENDS Naturals, Sequences, SequencesExt, FiniteSets

CONSTANTS
    Workers,        \* the threads that push
    Timer, None,    \* the cleanup timer as holder of a lock, and no holder
    Sizes,          \* the payload sizes of each ADU's fragments, in order
    Total,          \* the total data length each ADU's fragments declare
    Whole,          \* ADUs sent as one bundle with no processing flag at all
    Scenarios,      \* what may be wrong with each fragment (quality), and how
                    \* often the network may deliver it (copies)
    BufferAge,      \* limits.max_buffer_time_secs
    HistoryAge,     \* limits.history_secs
    MaxTime         \* bound of the clock

Adus == DOMAIN Sizes
Fragments == UNION {{a} \X DOMAIN Sizes[a] : a \in Adus}

ASSUME BufferAssumption ==
    /\ None \notin Workers /\ Timer \notin Workers /\ Timer # None
    /\ \A a \in Adus : Sizes[a] \in Seq(Nat \ {0})
    /\ Total \in [Adus -> Nat]
    /\ Whole \subseteq {a \in Adus : Len(Sizes[a]) = 1}
    /\ Scenarios \subseteq
           [quality : [Fragments -> {"good", "unverifiable", "no payload"}],
            copies : [Fragments -> Nat]]
    /\ BufferAge \in Nat /\ HistoryAge \in Nat /\ MaxTime \in Nat

VARIABLES
    quality,     \* do the fragment's security blocks verify, has it a payload
    network,     \* copies of each bundle that may still be delivered
    push,        \* the call each worker is in: where it is, and its fragment
    historyLock, dataLock,  \* who holds them
    history,     \* when each fragment was recorded, or Never
    queue,       \* data: the fragments held of each ADU; <<>> is no entry
    created,     \* data: when the entry was created (0 without an entry)
    timer,       \* where run_cleanup is
    now,         \* dtn_time_get_current_time_usecs
    delivered,   \* history variable: what the payload callback got, per ADU
    unguarded,   \* history variable: fragments a push let pass unrecorded,
                 \* or that the cleanup dropped from the history
    broken       \* history variable: a push went on without its payload

vars == <<quality, network, push, historyLock, dataLock, history, queue, created, timer,
          now, delivered, unguarded, broken>>

Never == MaxTime + 1
Free == [at |-> "free", frag |-> None, out |-> <<>>]

Init ==
    /\ \E s \in Scenarios : quality = s.quality /\ network = s.copies
    /\ push = [w \in Workers |-> Free]
    /\ historyLock = None /\ dataLock = None
    /\ history = [f \in Fragments |-> Never]
    /\ queue = [a \in Adus |-> <<>>]
    /\ created = [a \in Adus |-> 0]
    /\ timer = "set"
    /\ now = 0
    /\ delivered = [a \in Adus |-> <<>>]
    /\ unguarded = {}
    /\ broken = FALSE

Goes(w, place) == push' = [push EXCEPT ![w].at = place]
Returns(w) == push' = [push EXCEPT ![w] = Free]

HandsOver(a, out) == delivered' = [delivered EXCEPT ![a] = Append(@, out)]
-----------------------------------------------------------------------------
(* dtn_bundle_buffer_push.                                                 *)

(* A bundle without any flag is verified and handed over at once, whether  *)
(* or not it was seen before.  The test `!flags & 0x01` reads (!flags) & 1 *)
(* and does not ask for the fragment bit: a whole bundle that has some     *)
(* other flag is not in Whole and goes the way of the fragments, as an ADU *)
(* of one fragment that declares a total length of 0.                      *)
PushWhole(w, a) ==
    /\ push[w] = Free
    /\ a \in Whole
    /\ network[<<a, 1>>] > 0
    /\ network' = [network EXCEPT ![<<a, 1>>] = @ - 1]
    /\ IF quality[<<a, 1>>] = "good"
       THEN HandsOver(a, <<1>>)
       ELSE UNCHANGED delivered
    /\ UNCHANGED <<quality, push, historyLock, dataLock, history, queue, created, timer,
                   now, unguarded, broken>>

PushFragment(w, f) ==
    /\ push[w] = Free
    /\ f[1] \notin Whole
    /\ network[f] > 0
    /\ network' = [network EXCEPT ![f] = @ - 1]
    /\ push' = [push EXCEPT ![w] = [at |-> "history", frag |-> f, out |-> <<>>]]
    /\ UNCHANGED <<quality, historyLock, dataLock, history, queue, created, timer, now,
                   delivered, unguarded, broken>>

(* bundle_history_contained: a fragment is recorded when it is not known,  *)
(* and a known one is dropped.                                             *)
HistoryLock(w) ==
    /\ push[w].at = "history"
    /\ historyLock = None
    /\ historyLock' = w
    /\ Goes(w, "lookup")
    /\ UNCHANGED <<quality, network, dataLock, history, queue, created, timer, now,
                   delivered, unguarded, broken>>

(* Mutant: a fragment is not remembered. *)
RecordsNothing(f) == history

Recorded(f) == [history EXCEPT ![f] = now]

HistoryLookup(w) ==
    LET f == push[w].frag IN
    /\ push[w].at = "lookup"
    /\ IF history[f] # Never
       THEN Returns(w) /\ UNCHANGED history
       ELSE Goes(w, "data") /\ history' = Recorded(f)
    /\ historyLock' = None
    /\ UNCHANGED <<quality, network, dataLock, queue, created, timer, now, delivered,
                   unguarded, broken>>

(* Without the lock the answer is "not contained", and nothing is recorded.*)
HistoryTimeout(w) ==
    /\ push[w].at = "history"
    /\ historyLock # None
    /\ unguarded' = unguarded \cup {push[w].frag}
    /\ Goes(w, "data")
    /\ UNCHANGED <<quality, network, historyLock, dataLock, history, queue, created,
                   timer, now, delivered, broken>>

DataLock(w) ==
    /\ push[w].at = "data"
    /\ dataLock = None
    /\ dataLock' = w
    /\ Goes(w, "insert")
    /\ UNCHANGED <<quality, network, historyLock, history, queue, created, timer, now,
                   delivered, unguarded, broken>>

(* Mutant: the attempt waits until the lock is free. *)
DataTimeoutNever(w) == FALSE

(* The bundle is freed: its record in the history stays. *)
DataTimeout(w) ==
    /\ push[w].at = "data"
    /\ dataLock # None
    /\ Returns(w)
    /\ UNCHANGED <<quality, network, historyLock, dataLock, history, queue, created,
                   timer, now, delivered, unguarded, broken>>
-----------------------------------------------------------------------------
(* The part of the push under the data lock.                               *)

(* The position of a fragment: before the first whose sequence number is   *)
(* not smaller, or at the end.                                             *)
Place(q, i) ==
    CHOOSE p \in 1..(Len(q) + 1) :
        /\ p <= Len(q) => q[p] >= i
        /\ \A p1 \in 1..(p - 1) : q[p1] < i

(* Mutant: always at the end. *)
AtEnd(q, i) == Append(q, i)

Placed(q, i) == InsertAt(q, Place(q, i), i)

(* The loop visits the fragments up to the one it inserts before. *)
Visited(q, i) ==
    SubSeq(q, 1, IF Place(q, i) <= Len(q) THEN Place(q, i) ELSE Len(q))

(* The sum of the payload sizes, as the loop counts it up. *)
BytesUpTo(a, q) ==
    LET sum[k \in 0 .. Len(q)] == IF k = 0 THEN 0 ELSE sum[k - 1] + Sizes[a][q[k]]
    IN  sum

BytesOf(a, q) == BytesUpTo(a, q)[Len(q)]

(* Mutants: the new fragment is counted twice, or all must exceed the total. *)
CompleteEarly(a, q, i) == BytesOf(a, Visited(q, i)) + 2 * Sizes[a][i] >= Total[a]
CompleteLate(a, q, i) == BytesOf(a, Visited(q, i)) + Sizes[a][i] > Total[a]

(* Only the visited fragments and the new one are counted. *)
Complete(a, q, i) == BytesOf(a, Visited(q, i)) + Sizes[a][i] >= Total[a]

Lacking(a, q) == \E i \in ToSet(q) : quality[<<a, i>>] = "no payload"

(* Mutant: what does not verify is put out all the same. *)
VerifiesAnything(a, q) == TRUE

(* get_output_buffer: one fragment that does not verify fails the whole. *)
Verifies(a, q) == \A i \in ToSet(q) : quality[<<a, i>>] # "unverifiable"

SetQueue(a, q) == queue' = [queue EXCEPT ![a] = q]

(* Mutant: the lock is kept. *)
StillLocked == UNCHANGED dataLock

Unlock == dataLock' = None

(* The first fragment creates the entry, complete or not. *)
InsertFirst(w) ==
    LET f == push[w].frag IN
    /\ push[w].at = "insert"
    /\ queue[f[1]] = <<>>
    /\ SetQueue(f[1], <<f[2]>>)
    /\ created' = [created EXCEPT ![f[1]] = now]
    /\ Unlock
    /\ Returns(w)
    /\ UNCHANGED <<quality, network, historyLock, history, timer, now, delivered,
                   unguarded, broken>>

(* Another fragment goes to its place, and the entry stays. *)
InsertMore(w) ==
    LET f == push[w].frag
        q == queue[f[1]] IN
    /\ push[w].at = "insert"
    /\ q # <<>>
    /\ ~Lacking(f[1], Append(Visited(q, f[2]), f[2]))
    /\ ~(Complete(f[1], q, f[2]) /\ Verifies(f[1], Placed(q, f[2])))
    /\ SetQueue(f[1], Placed(q, f[2]))
    /\ Unlock
    /\ Returns(w)
    /\ UNCHANGED <<quality, network, historyLock, history, created, timer, now,
                   delivered, unguarded, broken>>

Forget(a) ==
    /\ SetQueue(a, <<>>)
    /\ created' = [created EXCEPT ![a] = 0]

(* The fragment completes the ADU: its payloads are copied out, and the    *)
(* entry is deleted before the lock is given back.                         *)
InsertLast(w) ==
    LET f == push[w].frag
        q == queue[f[1]] IN
    /\ push[w].at = "insert"
    /\ q # <<>>
    /\ ~Lacking(f[1], Append(Visited(q, f[2]), f[2]))
    /\ Complete(f[1], q, f[2])
    /\ Verifies(f[1], Placed(q, f[2]))
    /\ Forget(f[1])
    /\ Unlock
    /\ push' = [push EXCEPT ![w].at = "deliver", ![w].out = Placed(q, f[2])]
    /\ UNCHANGED <<quality, network, historyLock, history, timer, now, delivered,
                   unguarded, broken>>

(* A fragment without a payload, visited or just inserted, ends the call   *)
(* with the lock held.                                                     *)
InsertFails(w) ==
    LET f == push[w].frag
        q == queue[f[1]] IN
    /\ push[w].at = "insert"
    /\ q # <<>>
    /\ Lacking(f[1], Append(Visited(q, f[2]), f[2]))
    /\ IF Lacking(f[1], Visited(q, f[2]))
       THEN UNCHANGED queue
       ELSE SetQueue(f[1], Placed(q, f[2]))
    /\ broken' = TRUE
    /\ Returns(w)
    /\ UNCHANGED <<quality, network, historyLock, dataLock, history, created, timer, now,
                   delivered, unguarded>>

(* The payload callback is called without a lock. *)
Deliver(w) ==
    /\ push[w].at = "deliver"
    /\ HandsOver(push[w].frag[1], push[w].out)
    /\ Returns(w)
    /\ UNCHANGED <<quality, network, historyLock, dataLock, history, queue, created,
                   timer, now, unguarded, broken>>
-----------------------------------------------------------------------------
(* run_cleanup, in the event loop thread: the entries first, then the      *)
(* history.  Without a lock it leaves out what is left, and in every case  *)
(* sets the timer again.                                                   *)

CleanupLockData ==
    /\ timer = "set"
    /\ dataLock = None
    /\ dataLock' = Timer
    /\ timer' = "data"
    /\ UNCHANGED <<quality, network, push, historyLock, history, queue, created, now,
                   delivered, unguarded, broken>>

Expired == {a \in Adus : queue[a] # <<>> /\ now - created[a] > BufferAge}

CleanupData ==
    /\ timer = "data"
    /\ queue' = [a \in Adus |-> IF a \in Expired THEN <<>> ELSE queue[a]]
    /\ created' = [a \in Adus |-> IF a \in Expired THEN 0 ELSE created[a]]
    /\ dataLock' = None
    /\ timer' = "between"
    /\ UNCHANGED <<quality, network, push, historyLock, history, now, delivered,
                   unguarded, broken>>

CleanupLockHistory ==
    /\ timer = "between"
    /\ historyLock = None
    /\ historyLock' = Timer
    /\ timer' = "history"
    /\ UNCHANGED <<quality, network, push, dataLock, history, queue, created, now,
                   delivered, unguarded, broken>>

Outdated == {f \in Fragments : history[f] # Never /\ now - history[f] > HistoryAge}

CleanupHistory ==
    /\ timer = "history"
    /\ history' = [f \in Fragments |-> IF f \in Outdated THEN Never ELSE history[f]]
    /\ unguarded' = unguarded \cup Outdated
    /\ historyLock' = None
    /\ timer' = "set"
    /\ UNCHANGED <<quality, network, push, dataLock, queue, created, now, delivered, broken>>

(* Mutant: the timer is not set again. *)
TimerLost == "unset"

Reschedule == "set"

CleanupTimeout ==
    /\ \/ timer = "set" /\ dataLock # None
       \/ timer = "between" /\ historyLock # None
    /\ timer' = Reschedule
    /\ UNCHANGED <<quality, network, push, historyLock, dataLock, history, queue,
                   created, now, delivered, unguarded, broken>>

(* dtn_bundle_buffer_clear; without the lock it does nothing. *)
Clear ==
    /\ timer = "set"
    /\ dataLock = None
    /\ queue' = [a \in Adus |-> <<>>]
    /\ created' = [a \in Adus |-> 0]
    /\ UNCHANGED <<quality, network, push, historyLock, dataLock, history, timer, now,
                   delivered, unguarded, broken>>

Tick ==
    /\ now < MaxTime
    /\ now' = now + 1
    /\ UNCHANGED <<quality, network, push, historyLock, dataLock, history, queue,
                   created, timer, delivered, unguarded, broken>>
-----------------------------------------------------------------------------
Push(w) ==
    \/ HistoryLock(w) \/ HistoryLookup(w) \/ HistoryTimeout(w)
    \/ DataLock(w) \/ DataTimeout(w)
    \/ InsertFirst(w) \/ InsertMore(w) \/ InsertLast(w) \/ InsertFails(w)
    \/ Deliver(w)

Cleanup ==
    \/ CleanupLockData \/ CleanupData
    \/ CleanupLockHistory \/ CleanupHistory
    \/ CleanupTimeout

Next ==
    \/ \E w \in Workers :
        \/ \E a \in Whole : PushWhole(w, a)
        \/ \E f \in Fragments : PushFragment(w, f)
        \/ Push(w)
    \/ Cleanup
    \/ Clear
    \/ Tick

Spec == Init /\ [][Next]_vars

(* Worker threads and the event loop keep running, an attempt at a lock    *)
(* ends by its timeout, and time passes.                                   *)
FairSpec ==
    /\ Spec
    /\ \A w \in Workers : WF_vars(Push(w))
    /\ WF_vars(Cleanup)
    /\ WF_vars(Tick)
-----------------------------------------------------------------------------
Occurrences(s, i) == Cardinality({p \in DOMAIN s : s[p] = i})

(* A fragment takes part in reassembly once: among the calls that looked   *)
(* it up, the queue of its ADU and what was handed over there is one copy  *)
(* of it at most, however often the network delivers it and whichever      *)
(* workers have it, unless the history lost or missed its record.          *)
FragmentUsedOnce ==
    \A f \in Fragments \ unguarded : f[1] \notin Whole =>
        LET a == f[1]
            i == f[2]
            calls == {w \in Workers : /\ push[w].frag = f
                                      /\ push[w].at \in {"data", "insert"}}
            outs == {w \in Workers : /\ push[w].at = "deliver"
                                     /\ push[w].frag[1] = a
                                     /\ i \in ToSet(push[w].out)}
            given == {n \in DOMAIN delivered[a] : i \in ToSet(delivered[a][n])}
        IN  /\ Cardinality(calls) + Occurrences(queue[a], i)
                  + Cardinality(outs) + Cardinality(given) <= 1
            /\ \A n \in given : Occurrences(delivered[a][n], i) = 1

(* Whatever the order of arrival, the payload callback gets an ADU's       *)
(* fragments in the sender's order and without a gap, when their sizes add *)
(* up to the declared total and no duplicate went by the history; and it   *)
(* gets nothing of which a fragment's security blocks did not verify.      *)
Exact(a) == BytesOf(a, [i \in DOMAIN Sizes[a] |-> i]) = Total[a]

DeliveredComplete ==
    /\ \A a \in Adus \ Whole :
          (Exact(a) /\ \A f \in unguarded : f[1] # a) =>
              \A n \in DOMAIN delivered[a] :
                  delivered[a][n] = [i \in DOMAIN Sizes[a] |-> i]
    /\ \A a \in Adus : \A n \in DOMAIN delivered[a] :
          \A i \in ToSet(delivered[a][n]) : quality[<<a, i>>] # "unverifiable"

(* A lock is held only by a thread that is in its critical section, so     *)
(* never across the payload callback, unless a push met a fragment without *)
(* a payload: then the data lock has no owner that could give it back.     *)
LocksGivenBack ==
    /\ \A w \in Workers :
        /\ historyLock = w <=> push[w].at = "lookup"
        /\ push[w].at = "insert" => dataLock = w
        /\ (dataLock = w /\ push[w].at # "insert") => broken
    /\ historyLock = Timer <=> timer = "history"
    /\ dataLock = Timer <=> timer = "data"

(* The fragment that comes last in the sender's order, after all others    *)
(* are held, completes the ADU in that very step: a held ADU never becomes *)
(* complete by it.                                                         *)
Held(a) == ToSet(queue[a]) = DOMAIN Sizes[a]

LastCompletes ==
    [][\A a \in Adus :
        (/\ queue[a] # <<>>
         /\ ~Held(a)
         /\ Exact(a)
         /\ \A f \in Fragments : f[1] = a => quality[f] = "good")
            => ~(Held(a)' /\ IsPrefix(queue[a], queue'[a]))]_vars

(* dtn_bundle_buffer_test.c:217 adds "3 bundle fragments unordered         *)
(* delivery" and finds the payload delivered.  For every order: an ADU all *)
(* fragments of which arrived, and can be used, is not held any longer.    *)
HeldIsDelivered ==
    \A a \in Adus :
        Held(a) => \E f \in Fragments : f[1] = a /\ quality[f] # "good"

(* Every call of dtn_bundle_buffer_push returns, also when the lock it     *)
(* waits for is never given back.                                          *)
PushReturns ==
    \A w \in Workers : push[w] # Free ~> push[w] = Free

(* An incomplete ADU does not stay: once it is too old it is dropped or    *)
(* completed, unless the data lock is lost.                                *)
ExpiredIsDropped ==
    \A a \in Adus \ Whole : a \in Expired ~> (queue[a] = <<>> \/ broken)
=============================================================================
