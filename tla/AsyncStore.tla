----------------------------- MODULE AsyncStore -----------------------------
(***************************************************************************)
(* dtn_async_store: requests wait under an id for their answer.  Threads    *)
(* set, get and drop them; a timer in the event loop hands those that waited *)
(* too long to their callback, with the lock of the store held all the time. *)
(* An attempt at the lock while another has it may time out; a callback that *)
(* calls the store again always does, and its message stays its own.         *)
(***************************************************************************)
EXTENDS Integers, FiniteSets

CONSTANTS
    Caller, Id, Socket,
    Message,    \* numbers from 1 on, in the order they are given to the store
    Lifetimes,  \* the lifetimes asked for
    Modulus,    \* times are numbers below this one, and wrap around
    MaxTime,    \* bound of the clock
    Nobody

VARIABLES
    store,      \* data.dict: the request under each id, or Nobody
    holder,     \* who has data.lock
    call,       \* what each thread asks of the store
    invalidate, \* the timer: "set", "running", "off"
    overdue,    \* the ids invalidate_run has still to take out
    clock,
    used,       \* history: the messages given to dtn_async_set
    ends,       \* history: how often each of them was freed or handed out
    early,      \* history: messages timed out before their time
    closed

vars == <<store, holder, call, invalidate, overdue, clock, used, ends, early, closed>>

NoCall == [at |-> "none"]
Request(m, s, created, life, told) ==
    [message |-> m, socket |-> s, created |-> created, life |-> life, told |-> told]

Init ==
    /\ store = [id \in Id |-> Nobody]
    /\ holder = Nobody
    /\ call = [c \in Caller |-> NoCall]
    /\ invalidate = "set" /\ overdue = {}
    /\ clock = 0
    /\ used = {} /\ ends = [m \in Message |-> 0] /\ early = {}
    /\ closed = FALSE

Ended(messages) == ends' = [m \in Message |-> IF m \in messages THEN ends[m] + 1 ELSE ends[m]]
Waiting(id) == {store[id].message : i \in {id} \cap {j \in Id : store[j] # Nobody}}

-----------------------------------------------------------------------------
\* The calls.  The time of a request is taken before its thread has the lock.
Set(c, id, m, s, life, told) ==
    /\ ~closed /\ call[c] = NoCall /\ m = Cardinality(used) + 1
    /\ call' = [call EXCEPT ![c] = [at |-> "wait", op |-> "set", id |-> id, request |-> Request(m, s, clock, life, told)]]
    /\ used' = used \cup {m}
    /\ UNCHANGED <<store, holder, invalidate, overdue, clock, ends, early, closed>>

Get(c, id) ==
    /\ ~closed /\ call[c] = NoCall
    /\ call' = [call EXCEPT ![c] = [at |-> "wait", op |-> "get", id |-> id]]
    /\ UNCHANGED <<store, holder, invalidate, overdue, clock, used, ends, early, closed>>

Drop(c, s) ==
    /\ ~closed /\ call[c] = NoCall
    /\ call' = [call EXCEPT ![c] = [at |-> "wait", op |-> "drop", socket |-> s]]
    /\ UNCHANGED <<store, holder, invalidate, overdue, clock, used, ends, early, closed>>

Lock(c) ==
    /\ call[c].at = "wait" /\ holder = Nobody
    /\ holder' = c
    /\ call' = [call EXCEPT ![c].at = "in"]
    /\ UNCHANGED <<store, invalidate, overdue, clock, used, ends, early, closed>>

\* The call fails; a message that was to be set stays with its owner.
TimedOut(c) ==
    /\ call[c].at = "wait" /\ holder # Nobody
    /\ Ended(IF call[c].op = "set" THEN {call[c].request.message} ELSE {})
    /\ call' = [call EXCEPT ![c] = NoCall]
    /\ UNCHANGED <<store, holder, invalidate, overdue, clock, used, early, closed>>

Leave(c) ==
    /\ holder' = Nobody
    /\ call' = [call EXCEPT ![c] = NoCall]
    /\ UNCHANGED <<invalidate, overdue, clock, used, early, closed>>

\* Changed: the request that had the id is not freed.
Dropped(id) == {}

\* A request that had the id is freed, and nobody is told.
Replaced(id) == Waiting(id)

DoSet(c) ==
    /\ call[c].at = "in" /\ call[c].op = "set"
    /\ store' = [store EXCEPT ![call[c].id] = call[c].request]
    /\ Ended(Replaced(call[c].id))
    /\ Leave(c)

\* dtn_async_get hands the message out and takes the request from the store.
DoGet(c) ==
    /\ call[c].at = "in" /\ call[c].op = "get"
    /\ store' = [store EXCEPT ![call[c].id] = Nobody]
    /\ Ended(Waiting(call[c].id))
    /\ Leave(c)

IdsOf(s) == {id \in Id : store[id] # Nobody /\ store[id].socket = s}

DoDrop(c) ==
    /\ call[c].at = "in" /\ call[c].op = "drop"
    /\ store' = [id \in Id |-> IF id \in IdsOf(call[c].socket) THEN Nobody ELSE store[id]]
    /\ Ended(UNION {Waiting(id) : id \in IdsOf(call[c].socket)})
    /\ Leave(c)

-----------------------------------------------------------------------------
\* The timer.  Changed: the time the request was made is left out.
DeadlineOfLife(r) == r.life

Deadline(r) == (r.created + r.life) % Modulus

TimedOutIds == {id \in Id : store[id] # Nobody /\ Deadline(store[id]) < clock}

InvalidateStart ==
    /\ ~closed /\ invalidate = "set" /\ holder = Nobody
    /\ holder' = "timer"
    /\ invalidate' = "running" /\ overdue' = TimedOutIds
    /\ UNCHANGED <<store, call, clock, used, ends, early, closed>>

\* Whether or not it ran: the timer may not be set again.
Reschedule == invalidate' \in {"set", "off"}

InvalidateBusy ==
    /\ ~closed /\ invalidate = "set" /\ holder # Nobody
    /\ Reschedule
    /\ UNCHANGED <<store, holder, call, overdue, clock, used, ends, early, closed>>

\* Changed: the message the callback got is freed as well.
FreedAfterCall(r) == [ends EXCEPT ![r.message] = @ + 2]

\* What the callback got is its own; without a callback the message is freed.
HandedOver(r) == [ends EXCEPT ![r.message] = @ + 1]

InvalidateNext(id) ==
    /\ invalidate = "running" /\ id \in overdue
    /\ overdue' = overdue \ {id}
    /\ store' = [store EXCEPT ![id] = Nobody]
    /\ ends' = IF store[id].told THEN HandedOver(store[id]) ELSE [ends EXCEPT ![store[id].message] = @ + 1]
    /\ early' = IF clock < store[id].created + store[id].life THEN early \cup {store[id]} ELSE early
    /\ UNCHANGED <<holder, call, invalidate, clock, used, closed>>

InvalidateEnd ==
    /\ invalidate = "running" /\ overdue = {}
    /\ holder' = Nobody
    /\ Reschedule
    /\ UNCHANGED <<store, call, overdue, clock, used, ends, early, closed>>

\* dtn_async_store_free, when nobody uses the store any more: what waits is
\* freed.  It tries for the lock, and gives the store up if it never gets it.
Free ==
    /\ ~closed /\ holder = Nobody /\ \A c \in Caller : call[c] = NoCall
    /\ closed' = TRUE
    /\ invalidate' = "off"
    /\ store' = [id \in Id |-> Nobody]
    /\ Ended(UNION {Waiting(id) : id \in Id})
    /\ UNCHANGED <<holder, call, overdue, clock, used, early>>

Tick ==
    /\ clock < MaxTime /\ clock' = clock + 1
    /\ UNCHANGED <<store, holder, call, invalidate, overdue, used, ends, early, closed>>

Next ==
    \/ \E c \in Caller :
        \/ \E id \in Id, m \in Message, s \in Socket, life \in Lifetimes, told \in BOOLEAN : Set(c, id, m, s, life, told)
        \/ \E id \in Id : Get(c, id)
        \/ \E s \in Socket : Drop(c, s)
        \/ Lock(c) \/ TimedOut(c) \/ DoSet(c) \/ DoGet(c) \/ DoDrop(c)
    \/ InvalidateStart \/ InvalidateBusy \/ (\E id \in Id : InvalidateNext(id)) \/ InvalidateEnd
    \/ Free \/ Tick

-----------------------------------------------------------------------------
Here(m) ==
    Cardinality({id \in Id : store[id] # Nobody /\ store[id].message = m})
      + Cardinality({c \in Caller : call[c] # NoCall /\ call[c].op = "set" /\ call[c].request.message = m})

\* A message that was given to the store waits there, or ended in one way:
\* refused, handed out, told to be late, or freed.  None is lost and none freed twice.
OneFate == \A m \in used : Here(m) + ends[m] = 1

\* No request times out before its time, unless this is past the end of time.
NotEarly == \A r \in early : r.created + r.life >= Modulus
=============================================================================
