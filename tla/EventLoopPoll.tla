---------------------------- MODULE EventLoopPoll ----------------------------
(***************************************************************************)
(* dtn_event_loop_poll.c and dtn_event_loop.c: one thread runs the loop    *)
(* and is called back for descriptors and timers.  What it calls sets and  *)
(* unsets callbacks and timers; a signal may stop it at any time.          *)
(*                                                                         *)
(* A descriptor stands for one connection after the other.  They are       *)
(* numbered, and a registration is the number of its connection.           *)
(***************************************************************************)
EXTENDS Naturals

CONSTANTS
    Fd,             \* descriptors but the loop's own, numbers from 1 on
    Listener,       \* the one that listens, or 0
    MaxTimers,      \* config.max.timers; slot 0 is never used
    User,           \* who sets timers
    MaxCalls        \* bound on the calls of the interface

Slot == 1 .. MaxTimers - 1
NONE == 0

VARIABLES
    func,       \* [Fd -> connection the callback is for]
    container,  \* the accept container of the listener is there
    open,       \* [Fd -> the open connection]
    ready,      \* [Fd -> BOOLEAN] it has something to read
    polled,     \* the descriptors of the poll under way
    revents,    \* [Fd -> the connection an event was reported for]
    timer,      \* [Slot -> [owner, due]]
    remembered, \* [User -> the slot it has for its timer]
    armed,      \* the users that have set a timer and wait for it
    pc,         \* "out", "begin", "blocked", "timers", "sockets", "timer call", "socket call"
    at,         \* the slot or descriptor pc is at
    running, wake, mode, calls, conns,
    reused      \* descriptors registered since poll returned

vars == <<func, container, open, ready, polled, revents, timer, remembered, armed, pc, at,
          running, wake, mode, calls, conns, reused>>

tables == <<func, container, open, ready, reused, conns>>
timers == <<timer, remembered, armed>>
polling == <<polled, revents>>
control == <<pc, at, mode>>

Init ==
    /\ func = [f \in Fd |-> NONE] /\ container = FALSE
    /\ open = [f \in Fd |-> NONE] /\ ready = [f \in Fd |-> FALSE]
    /\ polled = {} /\ revents = [f \in Fd |-> NONE]
    /\ timer = [s \in Slot |-> [owner |-> NONE, due |-> FALSE]]
    /\ remembered = [u \in User |-> NONE] /\ armed = {}
    /\ pc = "out" /\ at = 0 /\ running = FALSE /\ wake = FALSE /\ mode = "stopped"
    /\ calls = 0 /\ conns = 0 /\ reused = {}

(***************************************************************************)
(* The interface: from a callback, or while the loop does not run.         *)
(***************************************************************************)
\* In the callback of the listener there is no code but accept_callback.
InAccept == pc = "socket call" /\ at = Listener
InCallback == pc \in {"timer call", "socket call"} /\ ~InAccept
Counted == calls < MaxCalls /\ calls' = calls + 1
MayCall == (pc = "out" \/ InCallback) /\ Counted

\* A call wakes the loop only if errno happens to be EAGAIN before it.
Announce == \E again \in BOOLEAN : wake' = (wake \/ again)

\* impl_poll_event_loop_callback_set, for a new connection or the listener.
Set(f) ==
    /\ open[f] = NONE
    /\ conns' = conns + 1
    /\ open' = [open EXCEPT ![f] = conns']
    /\ func' = [func EXCEPT ![f] = conns']
    /\ reused' = reused \cup {f}
    /\ Announce
CallbackSet(f) ==
    /\ MayCall /\ f # Listener /\ Set(f)
    /\ ready' = [ready EXCEPT ![f] = FALSE]
    /\ UNCHANGED <<container, timers, polling, control, running>>

\* dtn_event_add_default_connection_accept: the container is its user data.
AddConnectionAccept ==
    /\ MayCall /\ Listener \in Fd /\ Set(Listener)
    /\ container' = TRUE
    /\ ready' = [ready EXCEPT ![Listener] = FALSE]
    /\ UNCHANGED <<timers, polling, control, running>>

\* accept_callback, of the listener: it takes one connection; others may wait.
Accept(f) ==
    /\ InAccept /\ Counted /\ f # Listener /\ Set(f)
    /\ \E more \in BOOLEAN : ready' = [ready EXCEPT ![f] = FALSE, ![Listener] = more]
    /\ pc' = "sockets" /\ at' = at + 1
    /\ UNCHANGED <<container, timers, polling, mode, running>>

\* impl_poll_event_loop_callback_unset, the descriptor is closed behind it;
\* revents stays.
Unset(f) ==
    /\ func[f] # NONE
    /\ func' = [func EXCEPT ![f] = NONE]
    /\ open' = [open EXCEPT ![f] = NONE] /\ ready' = [ready EXCEPT ![f] = FALSE]
    /\ Announce
CallbackUnset(f) ==
    /\ MayCall /\ f # Listener /\ Unset(f)
    /\ UNCHANGED <<container, timers, polling, control, running, conns, reused>>

\* dtn_event_remove_default_connection_accept.
RemoveConnectionAccept ==
    /\ MayCall /\ Listener \in Fd /\ Unset(Listener)
    /\ container' = FALSE
    /\ UNCHANGED <<timers, polling, control, running, conns, reused>>

\* accept_callback, when the listener is closed or fails; the container is freed.
ListenerLost ==
    /\ InAccept /\ Counted /\ Unset(Listener)
    /\ container' = FALSE
    /\ pc' = "sockets" /\ at' = at + 1
    /\ UNCHANGED <<timers, polling, mode, running, conns, reused>>

FirstFree == CHOOSE s \in Slot : timer[s].owner = NONE /\ \A r \in Slot : r < s => timer[r].owner # NONE

\* impl_poll_event_loop_timer_set: a user that waits for its timer sets no
\* other.
TimerSet(u) ==
    /\ MayCall /\ u \notin armed
    /\ \E s \in Slot : timer[s].owner = NONE
    /\ timer' = [timer EXCEPT ![FirstFree] = [owner |-> u, due |-> FALSE]]
    /\ armed' = armed \cup {u}
    /\ remembered' = [remembered EXCEPT ![u] = FirstFree]
    /\ Announce
    /\ UNCHANGED <<tables, polling, control, running>>

\* impl_poll_event_loop_timer_unset with the id the user has.
TimerUnset(u) ==
    /\ MayCall /\ remembered[u] # NONE
    /\ timer' = [timer EXCEPT ![remembered[u]] = [owner |-> NONE, due |-> FALSE]]
    /\ remembered' = [remembered EXCEPT ![u] = NONE]
    /\ armed' = armed \ {u}
    /\ Announce
    /\ UNCHANGED <<tables, polling, control, running>>

\* impl_poll_event_loop_stop, of a callback or of the handler of a signal.
StopUnheard ==
    /\ pc # "out" /\ mode # "stopped"
    /\ running' = FALSE /\ mode' = "stopped"
    /\ UNCHANGED <<tables, timers, polling, pc, at, wake, calls>>
Stop ==
    /\ pc # "out" /\ mode # "stopped"
    /\ running' = FALSE /\ wake' = TRUE
    /\ mode' = "stopped"
    /\ UNCHANGED <<tables, timers, polling, pc, at, calls>>

(***************************************************************************)
(* impl_poll_event_loop_run.                                               *)
(***************************************************************************)
Run ==
    /\ pc = "out" /\ calls < MaxCalls /\ calls' = calls + 1
    /\ mode' \in {"once", "endless"}
    /\ running' = (mode' = "endless") /\ pc' = "begin"
    /\ UNCHANGED <<tables, timers, polling, at, wake>>

\* poll looks at what is registered when it begins.
Block ==
    /\ pc = "begin" /\ pc' = "blocked"
    /\ polled' = {f \in Fd : func[f] # NONE}
    /\ UNCHANGED <<tables, timers, revents, at, running, wake, mode, calls>>

\* It returns for a descriptor, for the loop's own, or after its timeout.
Return ==
    /\ pc = "blocked" /\ pc' = "timers" /\ at' = 1
    /\ revents' = [f \in Fd |-> IF f \in polled /\ ready[f] THEN open[f] ELSE NONE]
    /\ polled' = {} /\ reused' = {}
    /\ UNCHANGED <<func, container, open, ready, conns, timers, running, wake, mode, calls>>

\* call_timer_callbacks: the callback forgets the id of its timer first.
CallTimer ==
    /\ pc = "timers" /\ at \in Slot
    /\ IF timer[at].owner # NONE /\ timer[at].due
       THEN /\ pc' = "timer call" /\ UNCHANGED at
            /\ LET u == timer[at].owner
               IN /\ armed' = armed \ {u}
                  /\ remembered' = [remembered EXCEPT ![u] = NONE]
       ELSE at' = at + 1 /\ UNCHANGED <<pc, armed, remembered>>
    /\ UNCHANGED <<tables, timer, polling, running, wake, mode, calls>>

\* The slot is cleared when the callback is back.
TimerCalledAgain ==
    /\ pc = "timer call" /\ pc' = "timers" /\ at' = at + 1
    /\ UNCHANGED <<tables, timer, remembered, armed, polling, running, wake, mode, calls>>
TimerCalled ==
    /\ pc = "timer call" /\ pc' = "timers" /\ at' = at + 1
    /\ timer' = [timer EXCEPT ![at] = [owner |-> NONE, due |-> FALSE]]
    /\ UNCHANGED <<tables, remembered, armed, polling, running, wake, mode, calls>>

\* The first of the sockets is the loop's own, which is read empty.
TimersDoneEarly ==
    /\ pc = "timers" /\ at + 1 \notin Slot
    /\ pc' = "sockets" /\ at' = 1 /\ wake' = FALSE
    /\ UNCHANGED <<tables, timers, polling, running, mode, calls>>
TimersDone ==
    /\ pc = "timers" /\ at \notin Slot
    /\ pc' = "sockets" /\ at' = 1 /\ wake' = FALSE
    /\ UNCHANGED <<tables, timers, polling, running, mode, calls>>

CallSocketAnyway ==
    /\ pc = "sockets" /\ at \in Fd
    /\ IF revents[at] # NONE
       THEN pc' = "socket call" /\ UNCHANGED at
       ELSE at' = at + 1 /\ UNCHANGED pc
    /\ UNCHANGED <<tables, timers, polling, running, wake, mode, calls>>
CallSocket ==
    /\ pc = "sockets" /\ at \in Fd
    /\ IF func[at] # NONE /\ revents[at] # NONE
       THEN pc' = "socket call" /\ UNCHANGED at
       ELSE at' = at + 1 /\ UNCHANGED pc
    /\ UNCHANGED <<tables, timers, polling, running, wake, mode, calls>>

\* The callback has read what was there, or accept failed.
SocketCalled ==
    /\ pc = "socket call" /\ pc' = "sockets" /\ at' = at + 1
    /\ ready' = [ready EXCEPT ![at] = FALSE]
    /\ UNCHANGED <<func, container, open, conns, reused, timers, polling, running, wake, mode, calls>>

SocketsDone ==
    /\ pc = "sockets" /\ at \notin Fd
    /\ pc' = IF running THEN "begin" ELSE "out"
    /\ at' = 0 /\ revents' = [f \in Fd |-> NONE]
    /\ UNCHANGED <<tables, timers, polled, running, wake, mode, calls>>

(***************************************************************************)
(* Peers send while the loop waits, and time passes.                       *)
(***************************************************************************)
DataComes(f) ==
    /\ pc = "blocked" /\ open[f] # NONE /\ ~ready[f]
    /\ ready' = [ready EXCEPT ![f] = TRUE]
    /\ UNCHANGED <<func, container, open, conns, reused, timers, polling, control, running, wake, calls>>

TimeComes(s) ==
    /\ timer[s].owner # NONE /\ ~timer[s].due /\ ~(pc = "timer call" /\ at = s)
    /\ timer' = [timer EXCEPT ![s].due = TRUE]
    /\ UNCHANGED <<tables, remembered, armed, polling, control, running, wake, calls>>

Next ==
    \/ \E f \in Fd : CallbackSet(f) \/ CallbackUnset(f) \/ Accept(f) \/ DataComes(f)
    \/ AddConnectionAccept \/ RemoveConnectionAccept \/ ListenerLost
    \/ \E u \in User : TimerSet(u) \/ TimerUnset(u)
    \/ \E s \in Slot : TimeComes(s)
    \/ Stop \/ Run \/ Block \/ Return \/ CallTimer \/ TimerCalled \/ TimersDone
    \/ CallSocket \/ SocketCalled \/ SocketsDone

LoopStep ==
    Block \/ Return \/ CallTimer \/ TimerCalled \/ TimersDone \/ CallSocket \/ SocketCalled \/ SocketsDone
Fairness == WF_vars(LoopStep) /\ \A s \in Slot : WF_vars(TimeComes(s))

Spec == Init /\ [][Next]_vars /\ Fairness

(***************************************************************************)
(* Properties.                                                             *)
(***************************************************************************)
\* A callback is called for an event of its own connection, unless its
\* descriptor was registered since poll returned: the events of the connection
\* before are still there.
EventIsOwn ==
    [][pc = "sockets" /\ pc' = "socket call" /\ at \notin reused
          => func[at] # NONE /\ revents[at] = func[at]]_vars

\* A user waits for a timer exactly as long as one slot is its own, the one it
\* remembers: no timer is lost, doubled or taken from another user.
TimerIsOwn ==
    \A u \in User :
       LET own == {s \in Slot : timer[s].owner = u /\ ~(pc = "timer call" /\ at = s)}
       IN IF u \in armed THEN own = {remembered[u]} ELSE own = {} /\ remembered[u] = NONE

\* A loop that was stopped is not left waiting: what stops it wakes it.
StopIsHeard == pc \in {"begin", "blocked"} /\ mode = "stopped" => wake

\* A timer that is set is called or unset, unless the loop ends.
TimerIsServed == \A u \in User : u \in armed ~> (u \notin armed \/ pc = "out")

\* The container of a listener lives as long as its registration.
ContainerIsHeld == Listener \in Fd => container = (func[Listener] # NONE)
=============================================================================
