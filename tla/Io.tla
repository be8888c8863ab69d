------------------------------- MODULE Io -------------------------------
(***************************************************************************)
(* dtn_io.c with the sockets it opens, and dtn_app.c and                   *)
(* dtn_item_json_io_buffer.c on top of it: listeners, the connections they *)
(* accept, clients that are connected again after a while, TLS handshakes  *)
(* that are tried again by a timer, queues of what is to be sent, and the  *)
(* beginning of a text kept until the rest comes.                          *)
(*                                                                         *)
(* A connection has a number; its descriptor is given to another one when  *)
(* it is closed.                                                           *)
(***************************************************************************)
EXTENDS Naturals, Sequences

CONSTANTS
    Fd,             \* descriptors, numbers from 1 on
    Peer,           \* servers this side connects to with auto_reconnect
    TlsPeer,        \* those of them that are connected by TLS
    Thread,         \* who sends: "loop", and workers that answer
    MaxConnections, MaxMessages, MaxWaiting     \* bounds

NONE == 0

VARIABLES
    conn,       \* [Fd -> connection or Closed]
    watched,    \* [Fd -> what the event loop is to report]
    timers,     \* the connections a handshake timer is set for
    wanted,     \* the peers a connection was opened to
    reconnects, \* [Peer -> configurations waiting to be connected]
    retry,      \* [Peer -> configurations run_reconnect has yet to connect]
    partial,    \* [Fd -> the connection the text kept for it came from]
    given,      \* history: [connection -> messages dtn_io_send took]
    sent,       \* history: [connection -> messages the system took, or a beginning of]
    stray,      \* history: [connection -> <<k, m>>: a byte of m ahead of its k-th message]
    raced,      \* history: connections that two threads were about at once
    step,       \* [Thread -> where it is in sending]
    conns, msgs \* counters

vars == <<conn, watched, timers, wanted, reconnects, retry, partial, given, sent, stray, raced, step, conns, msgs>>

Closed == [id |-> NONE]
Made(id, kind, peer, of, tls) ==
    [id |-> id, kind |-> kind, peer |-> peer, of |-> of, tls |-> tls, out |-> NONE, queue |-> <<>>]
Open == {f \in Fd : conn[f].id # NONE}
Idle == [at |-> "idle", fd |-> NONE, id |-> NONE, msg |-> NONE]
NoPeer == "no peer"

Init ==
    /\ conn = [f \in Fd |-> Closed] /\ watched = [f \in Fd |-> {}] /\ timers = {}
    /\ wanted = {} /\ reconnects = [p \in Peer |-> 0] /\ retry = [p \in Peer |-> 0]
    /\ partial = [f \in Fd |-> NONE]
    /\ given = [i \in 1 .. MaxConnections |-> <<>>] /\ sent = given
    /\ stray = [i \in 1 .. MaxConnections |-> {}] /\ raced = {}
    /\ step = [t \in Thread |-> Idle] /\ conns = 0 /\ msgs = 0

sending == <<given, sent, stray, raced, step, msgs>>

\* The event loop is in none of its callbacks.
LoopIdle == step["loop"] = Idle /\ \A p \in Peer : retry[p] = 0

Lowest == CHOOSE f \in Fd : f \notin Open /\ \A g \in Fd : g < f => g \in Open
CanOpen == Open # Fd /\ conns < MaxConnections

(***************************************************************************)
(* Opening.                                                                *)
(***************************************************************************)
\* dtn_io_open_listener.
OpenListener ==
    /\ LoopIdle /\ CanOpen
    /\ conns' = conns + 1
    /\ conn' = [conn EXCEPT ![Lowest] = Made(conns', "listener", NoPeer, NONE, "plain")]
    /\ watched' = [watched EXCEPT ![Lowest] = {"in"}]
    /\ UNCHANGED <<timers, wanted, reconnects, retry, partial, sending>>

\* accept_stream, accept_tls: a connection of its listener's configuration.
Accept(l) ==
    /\ LoopIdle /\ CanOpen /\ conn[l].id # NONE /\ conn[l].kind = "listener"
    /\ conns' = conns + 1
    /\ conn' = [conn EXCEPT ![Lowest] = Made(conns', "accepted", NoPeer, l, "plain")]
    /\ watched' = [watched EXCEPT ![Lowest] = {"in"}]
    /\ UNCHANGED <<timers, wanted, reconnects, retry, partial, sending>>

\* dtn_io_open_connection.  Where no socket can be had the configuration waits
\* for the next time.  A first handshake that fails frees the connection.
ConnectOrGiveUp(p) ==
    \/ /\ CanOpen /\ conns' = conns + 1
       /\ conn' = [conn EXCEPT ![Lowest] = Made(conns', "client", p, NONE, "plain")]
       /\ watched' = [watched EXCEPT ![Lowest] = {"in"}]
       /\ UNCHANGED <<reconnects, timers>>
    \/ UNCHANGED <<conn, watched, timers, conns, reconnects>>
Connect(p) ==
    \/ /\ CanOpen /\ conns' = conns + 1
       /\ \E shake \in (IF p \in TlsPeer THEN {"shaking", "done"} ELSE {"plain"}) :
            /\ conn' = [conn EXCEPT ![Lowest] = Made(conns', "client", p, NONE, shake)]
            /\ timers' = IF shake = "shaking" THEN timers \cup {conns'} ELSE timers
       /\ watched' = [watched EXCEPT ![Lowest] = {"in"}]
       /\ UNCHANGED reconnects
    \/ /\ reconnects' = [reconnects EXCEPT ![p] = @ + 1]
       /\ UNCHANGED <<conn, watched, timers, conns>>

OpenConnection(p) ==
    /\ LoopIdle /\ p \notin wanted
    /\ Connect(p) /\ wanted' = wanted \cup {p}
    /\ UNCHANGED <<retry, partial, sending>>

\* run_reconnect: all that wait are tried once; what fails waits for the next
\* time.
ReconnectTimer ==
    /\ LoopIdle /\ \E p \in Peer : reconnects[p] # 0
    /\ retry' = reconnects /\ reconnects' = [p \in Peer |-> 0]
    /\ UNCHANGED <<conn, watched, timers, wanted, partial, conns, sending>>
Reconnect(p) ==
    /\ retry[p] # 0 /\ retry' = [retry EXCEPT ![p] = @ - 1]
    /\ Connect(p)
    /\ UNCHANGED <<wanted, partial, sending>>

\* The timer of a handshake, or an event of its descriptor: it is done, or
\* waits for more with the timer set again; a timer that is set is unset first.
Handshake(f) ==
    /\ LoopIdle /\ f \in Open /\ conn[f].tls = "shaking"
    /\ \/ conn' = [conn EXCEPT ![f].tls = "done"] /\ timers' = timers \ {conn[f].id}
       \/ timers' = timers \cup {conn[f].id} /\ UNCHANGED conn
    /\ UNCHANGED <<watched, wanted, reconnects, retry, partial, conns, sending>>

(***************************************************************************)
(* Closing: connection_free of those that go, with what the application    *)
(* keeps for them (cb_close).                                              *)
(***************************************************************************)
DroppedKept(gone) == partial
Dropped(gone) == [f \in Fd |-> IF f \in gone THEN NONE ELSE partial[f]]
UnsetTimersKept(gone) == timers
UnsetTimers(gone) == timers \ {conn[f].id : f \in gone}

\* A client is put on the list by connection_free, and by the handlers of an
\* event before it.
Free(gone, again) ==
    /\ conn' = [f \in Fd |-> IF f \in gone THEN Closed ELSE conn[f]]
    /\ watched' = [f \in Fd |-> IF f \in gone THEN {} ELSE watched[f]]
    /\ timers' = UnsetTimers(gone) /\ partial' = Dropped(gone)
    /\ reconnects' = [p \in Peer |->
                        reconnects[p] + IF \E f \in gone : conn[f].peer = p THEN again ELSE 0]
    /\ UNCHANGED <<wanted, retry, conns, sending>>
Listed(f) == \A p \in Peer : conn[f].peer = p => reconnects[p] + 2 <= MaxWaiting

\* dtn_io_close, dtn_app_close, a text that is none, and a handshake that fails.
Close(f) == LoopIdle /\ f \in Open /\ Listed(f) /\ Free({f}, 1)

\* io_stream, stream_recv_unbuffered, io_ssl_client: the peer has closed.
HangUp(f) ==
    /\ LoopIdle /\ f \in Open /\ conn[f].kind # "listener" /\ Listed(f)
    /\ Free({f}, 2)

\* close_listener: with all it has accepted.
AcceptedBy(l) == {f \in Open : conn[f].of = l}
ListenerHangsUp(l) ==
    /\ LoopIdle /\ l \in Open /\ conn[l].kind = "listener"
    /\ Free({l} \cup AcceptedBy(l), 1)

(***************************************************************************)
(* Receiving: dtn_json_io_buffer_push keeps what is no whole text yet.     *)
(***************************************************************************)
Receive(f) ==
    /\ LoopIdle /\ f \in Open /\ conn[f].kind # "listener" /\ conn[f].tls # "shaking"
    /\ \/ partial' = [partial EXCEPT ![f] = IF @ = NONE THEN conn[f].id ELSE @]
       \/ partial' = [partial EXCEPT ![f] = NONE]
    /\ UNCHANGED <<conn, watched, timers, wanted, reconnects, retry, conns, sending>>

(***************************************************************************)
(* Sending: dtn_io_send, and stream_send or io_stream_ssl_send in it or    *)
(* when the descriptor is writable.  The lock covers each use of the       *)
(* queue, and nothing else.  A thread whose connection was freed under it  *)
(* is not followed.                                                        *)
(***************************************************************************)
Alive(t) == conn[step[t].fd].id = step[t].id
About(t, f) == step[t].at # "idle" /\ step[t].fd = f /\ step[t].id = conn[f].id
MayBegin(t) == step[t] = Idle /\ (t = "loop" => LoopIdle)
still == <<timers, wanted, reconnects, retry, partial, conns>>

Begin(t, f, at, msg) ==
    /\ step' = [step EXCEPT ![t] = [at |-> at, fd |-> f, id |-> conn[f].id, msg |-> msg]]
    /\ raced' = raced \cup {conn[f].id : u \in {v \in Thread : About(v, f)}}

\* The lock is waited for so long, and no longer.
MayTimeOut(t) == \E u \in Thread \ {t} : About(u, step[t].fd)

Send(t, f) ==
    /\ MayBegin(t) /\ f \in Open /\ conn[f].kind # "listener" /\ msgs < MaxMessages
    /\ msgs' = msgs + 1
    /\ watched' = [watched EXCEPT ![f] = {"in", "out"}]
    /\ Begin(t, f, "push", msgs')
    /\ UNCHANGED <<conn, given, sent, stray, still>>

Push(t) ==
    /\ step[t].at = "push" /\ Alive(t)
    /\ conn' = [conn EXCEPT ![step[t].fd].queue = Append(@, step[t].msg)]
    /\ given' = [given EXCEPT ![step[t].id] = Append(@, step[t].msg)]
    /\ step' = [step EXCEPT ![t].at = "flush"]
    /\ UNCHANGED <<watched, sent, stray, raced, msgs, still>>

\* A message longer than the send buffer is cut under the lock, but what is put
\* into the queue is NULL in place of the piece (2150), and dtn_list_insert takes
\* no NULL: it is refused, whatever its length.  (Memory that cannot be had ends
\* the program in dtn_buffer_create, ahead of the return with the lock at 2136.)
\* Any message is refused when the lock was not to be had in time.
Refuse(t) ==
    /\ step[t].at = "push" /\ Alive(t)
    /\ step' = [step EXCEPT ![t] = Idle]
    /\ UNCHANGED <<conn, watched, given, sent, stray, raced, msgs, still>>

Writable(f) ==
    /\ MayBegin("loop") /\ f \in Open /\ "out" \in watched[f] /\ conn[f].tls # "shaking"
    /\ Begin("loop", f, "flush", NONE)
    /\ UNCHANGED <<conn, watched, given, sent, stray, msgs, still>>

\* What a send did not take is kept in out, and tried first.
Drained(t) ==
    /\ watched' = [watched EXCEPT ![step[t].fd] = {"in"}] /\ step' = [step EXCEPT ![t] = Idle]
    /\ UNCHANGED conn
Popped(t) ==
    LET f == step[t].fd IN
    /\ step' = [step EXCEPT ![t].at = "send", ![t].msg = Head(conn[f].queue)]
    /\ conn' = [conn EXCEPT ![f].queue = Tail(@)]
    /\ UNCHANGED watched
FlushFresh(t) ==
    /\ step[t].at = "flush" /\ Alive(t)
    /\ IF conn[step[t].fd].queue = <<>> THEN Drained(t) ELSE Popped(t)
    /\ UNCHANGED <<given, sent, stray, raced, msgs, still>>
Flush(t) ==
    /\ step[t].at = "flush" /\ Alive(t)
    /\ LET f == step[t].fd IN
         \/ /\ conn[f].out # NONE
            /\ step' = [step EXCEPT ![t].at = "again", ![t].msg = conn[f].out]
            /\ UNCHANGED <<conn, watched>>
         \/ conn[f].out = NONE /\ conn[f].queue = <<>> /\ Drained(t)
         \/ conn[f].out = NONE /\ conn[f].queue # <<>> /\ Popped(t)
         \/ /\ conn[f].out = NONE /\ MayTimeOut(t)
            /\ step' = [step EXCEPT ![t] = Idle] /\ UNCHANGED <<conn, watched>>
    /\ UNCHANGED <<given, sent, stray, raced, msgs, still>>

\* The system takes a message, or a beginning of two bytes at least, and the
\* rest is given up; or it takes nothing.
Put(t) ==
    /\ step[t].at = "send" /\ Alive(t)
    /\ LET f == step[t].fd  i == step[t].id  m == step[t].msg IN
         \/ sent' = [sent EXCEPT ![i] = Append(@, m)] /\ UNCHANGED <<conn, stray>>
         \/ conn' = [conn EXCEPT ![f].out = m] /\ UNCHANGED <<sent, stray>>
         \* It takes one byte, and all is kept to be sent again (753): of a message
         \* of one byte, the whole for the second time.
         \/ /\ conn[f].tls = "plain"
            /\ conn' = [conn EXCEPT ![f].out = m]
            /\ stray' = [stray EXCEPT ![i] = @ \cup {<<Len(sent[i]) + 1, m>>}]
            /\ UNCHANGED sent
    /\ step' = [step EXCEPT ![t] = Idle]
    /\ UNCHANGED <<watched, given, raced, msgs, still>>

\* What was kept is done with as soon as any of it is taken.
PutAgain(t) ==
    /\ step[t].at = "again" /\ Alive(t)
    /\ \/ /\ sent' = [sent EXCEPT ![step[t].id] = Append(@, step[t].msg)]
          /\ conn' = [conn EXCEPT ![step[t].fd].out = NONE]
       \/ UNCHANGED <<sent, conn>>
    /\ step' = [step EXCEPT ![t] = Idle]
    /\ UNCHANGED <<watched, given, stray, raced, msgs, still>>

Next ==
    \/ OpenListener \/ ReconnectTimer
    \/ \E p \in Peer : OpenConnection(p) \/ Reconnect(p)
    \/ \E f \in Fd : \/ Accept(f) \/ Handshake(f) \/ Close(f) \/ HangUp(f) \/ ListenerHangsUp(f)
                     \/ Receive(f) \/ Writable(f)
                     \/ \E t \in Thread : Send(t, f)
    \/ \E t \in Thread : Push(t) \/ Refuse(t) \/ Flush(t) \/ Put(t) \/ PutAgain(t)

Spec == Init /\ [][Next]_vars

(***************************************************************************)
(* Properties.                                                             *)
(***************************************************************************)
\* A timer of a handshake belongs to a connection that is there and waits for
\* it, and a text is completed by its own connection: nothing that was kept for
\* a connection comes to the next one with its descriptor.
NothingOutlives ==
    /\ \A i \in timers : \E f \in Open : conn[f].id = i /\ conn[f].tls = "shaking"
    /\ \A f \in Fd : partial[f] \in {NONE, conn[f].id}

\* A client is connected or waits to be, whatever was closed or refused.
ClientIsKept ==
    \A p \in wanted : reconnects[p] + retry[p] > 0 \/ \E f \in Open : conn[f].peer = p

\* What is sent on a connection is what was given to it, each message or its
\* beginning in order and once, but that one byte of a message may go out ahead of
\* it; as long as something is left, the event loop looks for the descriptor to
\* become writable.  Both only of connections that no two threads were about at
\* once: dtn_io.h:170 calls the send threadsafe, but the lock is given back between
\* the queue and the socket.
SentInOrder ==
    \A i \in (1 .. MaxConnections) \ raced :
       /\ sent[i] = SubSeq(given[i], 1, Len(sent[i]))
       /\ \A s \in stray[i] : s[1] <= Len(sent[i]) => sent[i][s[1]] = s[2]
PendingIsWatched ==
    \A f \in Open :
       /\ conn[f].out # NONE \/ conn[f].queue # <<>>
       /\ conn[f].id \notin raced /\ \A t \in Thread : ~About(t, f)
       => "out" \in watched[f]
=============================================================================
