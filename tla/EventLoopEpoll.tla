--------------------------- MODULE EventLoopEpoll ---------------------------
(***************************************************************************)
(* dtn_event_loop_linux.c: the event loop over epoll.  Timers are          *)
(* descriptors, too, and the number of one is the id its user gets; those  *)
(* that are out of use are kept open and given to the next user, the last  *)
(* one first.  The callbacks are in a table that is searched from the      *)
(* place the number points to.                                             *)
(***************************************************************************)
EXTENDS Integers, Sequences, SequencesExt

CONSTANTS
    Size,           \* max_callbacks
    Limit,          \* descriptors are numbers below it; the code takes the
                    \* limit of open files for both, so Limit <= Size
    MaxTimers,      \* config.max.timers, the room for timers out of use
    User,           \* who sets timers
    MaxCalls        \* bound on the calls of the interface

Fd == 0 .. Limit - 1
Place == 0 .. Size - 1
NONE == -1
IDLE == 0           \* the user a timer out of use belongs to; users are numbers from 1 on
SOCKET == -2        \* that of a descriptor that is no timer

VARIABLES
    table,      \* [Place -> descriptor or NONE]
    owner,      \* [Fd -> a user, IDLE, SOCKET, or NONE if it is closed]
    known,      \* the descriptors epoll knows
    available,  \* the timers out of use, a stack
    remembered, \* [User -> the id it has for its timer]
    armed,      \* the users that wait for a timer
    pc,         \* "out", "wait", "call", "hangup call"
    at,         \* the descriptor of a call
    running, wake, calls

vars == <<table, owner, known, available, remembered, armed, pc, at, running, wake, calls>>
users == <<remembered, armed>>
control == <<pc, at, running, wake>>

Init ==
    /\ table = [p \in Place |-> NONE] /\ owner = [f \in Fd |-> NONE] /\ known = {}
    /\ available = <<>> /\ remembered = [u \in User |-> NONE] /\ armed = {}
    /\ pc = "out" /\ at = NONE /\ running = FALSE /\ wake = FALSE /\ calls = 0

\* get_callback_for_fd_unsafe: the first place from that of the number on that
\* has it, or is empty.
PlaceOf(t, f) ==
    LET hits == {i \in Place : t[(f + i) % Size] \in {f, NONE}}
    IN IF hits = {} THEN NONE ELSE (f + (CHOOSE i \in hits : \A j \in hits : i <= j)) % Size
Has(t, f) == PlaceOf(t, f) # NONE /\ t[PlaceOf(t, f)] = f

\* register_fd_with_epoll, release_fd_unsafe.
Registered(t, f) == [t EXCEPT ![PlaceOf(t, f)] = f]
ReleasedBeside(t, f) == IF Has(t, f) THEN [t EXCEPT ![(f + 1) % Size] = NONE] ELSE t
Released(t, f) == IF Has(t, f) THEN [t EXCEPT ![PlaceOf(t, f)] = NONE] ELSE t

\* The system opens the lowest number that is free.
Lowest == CHOOSE f \in Fd : owner[f] = NONE /\ \A g \in Fd : g < f => owner[g] # NONE

\* A callback that closes the descriptor that hung up does so as its last step:
\* one that opens another behind it may get the same number, and trigger_callback
\* then releases that.
MayCall ==
    /\ pc # "wait" /\ calls < MaxCalls /\ calls' = calls + 1
    /\ ~(pc = "hangup call" /\ owner[at] = NONE)

\* impl_event_loop_linux_callback_set of a descriptor that was opened.
CallbackSet ==
    /\ MayCall /\ \E f \in Fd : owner[f] = NONE
    /\ PlaceOf(table, Lowest) # NONE
    /\ owner' = [owner EXCEPT ![Lowest] = SOCKET]
    /\ table' = Registered(table, Lowest) /\ known' = known \cup {Lowest}
    /\ UNCHANGED <<available, users, control>>

\* impl_event_loop_linux_callback_unset, and the descriptor is closed.
CallbackUnset(f) ==
    /\ MayCall /\ owner[f] = SOCKET
    /\ table' = Released(table, f) /\ known' = known \ {f}
    /\ owner' = [owner EXCEPT ![f] = NONE]
    /\ UNCHANGED <<available, users, control>>

\* impl_event_loop_linux_timer_set.
TimerSet(u) ==
    /\ MayCall /\ u \notin armed
    /\ available # <<>> \/ \E f \in Fd : owner[f] = NONE
    /\ LET id == IF available # <<>> THEN Last(available) ELSE Lowest
       IN /\ PlaceOf(table, id) # NONE
          /\ owner' = [owner EXCEPT ![id] = u]
          /\ table' = Registered(table, id) /\ known' = known \cup {id}
          /\ remembered' = [remembered EXCEPT ![u] = id]
    /\ available' = IF available # <<>> THEN Front(available) ELSE available
    /\ armed' = armed \cup {u}
    /\ UNCHANGED control

\* release_timer_fd_unsafe: out of use it is kept if there is room for it.
ReleaseKept(f) ==
    /\ table' = Released(table, f) /\ known' = known \ {f}
    /\ available' = Append(available, f) /\ owner' = [owner EXCEPT ![f] = IDLE]
Release(f) ==
    /\ table' = Released(table, f) /\ known' = known \ {f}
    /\ IF Len(available) < MaxTimers
       THEN available' = Append(available, f) /\ owner' = [owner EXCEPT ![f] = IDLE]
       ELSE UNCHANGED available /\ owner' = [owner EXCEPT ![f] = NONE]

\* impl_event_loop_linux_timer_unset.
TimerUnset(u) ==
    /\ MayCall /\ remembered[u] # NONE
    /\ Release(remembered[u])
    /\ remembered' = [remembered EXCEPT ![u] = NONE] /\ armed' = armed \ {u}
    /\ UNCHANGED control

\* impl_event_loop_linux_stop.
Stop ==
    /\ pc # "out" /\ running
    /\ running' = FALSE /\ wake' = TRUE
    /\ UNCHANGED <<table, owner, known, available, users, pc, at, calls>>

\* impl_event_loop_linux_run: less than a millisecond is made one, so that no
\* call is a single pass.
Run ==
    /\ pc = "out" /\ calls < MaxCalls /\ calls' = calls + 1
    /\ pc' = "wait" /\ running' = TRUE
    /\ UNCHANGED <<table, owner, known, available, users, at, wake>>

\* trigger_callback for the one event epoll_wait reports.  A timer is out of
\* use, and its id forgotten, before the callback of its user.
EventOf(f) ==
    /\ pc = "wait" /\ f \in known /\ Has(table, f)
    /\ at' = f
    /\ IF owner[f] = SOCKET
       THEN /\ pc' \in {"call", "hangup call"}
            /\ UNCHANGED <<table, owner, known, available, users>>
       ELSE LET u == owner[f]
            IN /\ pc' = "call" /\ Release(f)
               /\ remembered' = [remembered EXCEPT ![u] = NONE] /\ armed' = armed \ {u}
    /\ UNCHANGED <<running, wake, calls>>

\* After a hangup the descriptor is released, whatever it is now.
Back ==
    /\ pc \in {"call", "hangup call"}
    /\ IF pc = "hangup call"
       THEN table' = Released(table, at) /\ known' = known \ {at}
       ELSE UNCHANGED <<table, known>>
    /\ pc' = (IF running THEN "wait" ELSE "out") /\ at' = NONE
    /\ UNCHANGED <<owner, available, users, running, wake, calls>>

\* The wake up, or the time of the call is over.
NoEvent ==
    /\ pc = "wait"
    /\ \/ wake /\ wake' = FALSE /\ UNCHANGED running
       \/ running' = FALSE /\ UNCHANGED wake
    /\ pc' = IF running' THEN "wait" ELSE "out"
    /\ UNCHANGED <<table, owner, known, available, users, at, calls>>

Next ==
    \/ CallbackSet \/ (\E f \in Fd : CallbackUnset(f) \/ EventOf(f))
    \/ (\E u \in User : TimerSet(u) \/ TimerUnset(u))
    \/ Stop \/ Run \/ Back \/ NoEvent

Spec == Init /\ [][Next]_vars

(***************************************************************************)
(* Properties.                                                             *)
(***************************************************************************)
\* What epoll knows is found in the table, once, and the table has nothing
\* else: no event goes without its callback.
TableIsKnown ==
    /\ \A f \in known : Has(table, f) /\ \A p, q \in Place : table[p] = f /\ table[q] = f => p = q
    /\ \A p \in Place : table[p] # NONE => table[p] \in known

\* A user waits for a timer exactly as long as one is its own, the one it
\* remembers, and epoll knows it.
TimerIsOwn ==
    \A u \in User :
       LET own == {f \in Fd : owner[f] = u}
       IN IF u \in armed
          THEN own = {remembered[u]} /\ own \subseteq known
          ELSE own = {} /\ remembered[u] = NONE

\* A timer out of use is kept once, open and without a callback.
AvailableIsIdle ==
    /\ Len(available) <= MaxTimers
    /\ \A i, j \in DOMAIN available : available[i] = available[j] => i = j
    /\ ToSet(available) = {f \in Fd : owner[f] = IDLE}
    /\ ToSet(available) \cap known = {}
=============================================================================
