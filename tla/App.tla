-------------------------------- MODULE App ---------------------------------
(***************************************************************************)
(* dtn_app with the file node's handlers and dtn_socket_item: the requests   *)
(* of the open connections go through one queue to worker threads; these     *)
(* look the event up, run its handler and send the answer to the descriptor  *)
(* the request came from.  A handler knows a connection by that number alone: *)
(* the session a login leaves is kept under it until the connection closes.   *)
(***************************************************************************)
EXTENDS Integers, Sequences, FiniteSets

CONSTANTS
    Fd, Worker,
    Kinds,          \* what is asked for, of those below
    Capacity,       \* config.limits.message_queue_capacity
    MaxConnections, \* bound of the connections there ever are
    MaxRequests     \* bound of the requests they make

VARIABLES
    peer,     \* the connection that has each descriptor, 0 for none
    serial,   \* the connections so far
    queue,    \* the thread loop's messages
    worker,   \* what each thread is about
    session,  \* connections->data: the connection whose login is kept, 0 for none
    stopped,  \* the event loop was told to stop
    asked,    \* history: the connection each request came from
    freed,    \* history: how often the item of each request was freed
    answered, \* history: the answers sent
    refused,  \* history: requests the queue did not take
    overtaken \* history: connections closed before all was done for them

vars == <<peer, serial, queue, worker, session, stopped, asked, freed, answered, refused, overtaken>>

Request == 1..MaxRequests
Idle == [at |-> "idle"]
Message(fd, kind, request) == [fd |-> fd, kind |-> kind, request |-> request]

\* dtn_file_node_app registers these; a wrong login is a login all the same.
Registered == {"login", "wrong login", "load_routes", "send_file", "shutdown"}
NeedsSession == {"load_routes", "send_file", "shutdown"}

\* dtn_socket_item_create
NoSessions == [fd \in Fd |-> 0]

Init ==
    /\ peer = [fd \in Fd |-> 0] /\ serial = 0
    /\ queue = <<>>
    /\ worker = [w \in Worker |-> Idle]
    /\ session = NoSessions
    /\ stopped = FALSE
    /\ asked = <<>> /\ freed = [r \in Request |-> 0]
    /\ answered = {} /\ refused = {} /\ overtaken = {}

Busy(w) == worker[w].at # "idle"
UnderWay == {queue[i].request : i \in 1..Len(queue)} \cup {worker[w].request : w \in {v \in Worker : Busy(v)}}

\* A try for a lock may time out only while another thread may have it.
MayTimeOut(w) == \E v \in Worker \ {w} : Busy(v)

-----------------------------------------------------------------------------
\* The event loop's thread.
cb_accept(fd) ==
    /\ peer[fd] = 0 /\ serial < MaxConnections /\ ~stopped
    /\ serial' = serial + 1 /\ peer' = [peer EXCEPT ![fd] = serial + 1]
    /\ UNCHANGED <<queue, worker, session, stopped, asked, freed, answered, refused, overtaken>>

\* Changed: the close callback of the file node is not registered.
KeepSession(fd) == session

DropSession(fd) == [session EXCEPT ![fd] = 0]

\* The drop may not get the lock while a worker has it.
Closed(fd) ==
    /\ peer' = [peer EXCEPT ![fd] = 0]
    /\ \E dropped \in {TRUE} \cup {FALSE : w \in {v \in Worker : Busy(v)}} :
        /\ session' = IF dropped THEN DropSession(fd) ELSE session
        /\ overtaken' = overtaken \cup {peer[fd] : r \in {q \in UnderWay : asked[q] = peer[fd]}}
                                  \cup (IF dropped THEN {} ELSE {session[fd]} \ {0})

cb_close(fd) ==
    /\ peer[fd] # 0
    /\ Closed(fd)
    /\ UNCHANGED <<serial, queue, worker, stopped, asked, freed, answered, refused>>

\* A whole JSON text came: its message goes to the queue, which drops its
\* oldest when it is full.
cb_json_success(fd, kind) ==
    /\ peer[fd] # 0 /\ Len(asked) < MaxRequests /\ ~stopped
    /\ asked' = Append(asked, peer[fd])
    /\ queue' = Append(IF Len(queue) = Capacity THEN Tail(queue) ELSE queue, Message(fd, kind, Len(asked) + 1))
    /\ freed' = [r \in Request |-> IF Len(queue) = Capacity /\ Head(queue).request = r THEN freed[r] + 1 ELSE freed[r]]
    /\ UNCHANGED <<peer, serial, worker, session, stopped, answered, refused, overtaken>>

\* The queue's lock timed out: the message is freed with its item, the
\* connection closed, and the item freed again.
cb_json_lost(fd) ==
    /\ peer[fd] # 0 /\ Len(asked) < MaxRequests /\ ~stopped
    /\ \E w \in Worker : ~Busy(w)
    /\ asked' = Append(asked, peer[fd])
    /\ refused' = refused \cup {Len(asked) + 1}
    /\ freed' = [freed EXCEPT ![Len(asked) + 1] = 2]
    /\ Closed(fd)
    /\ UNCHANGED <<serial, queue, worker, stopped, answered>>

-----------------------------------------------------------------------------
\* A worker of the thread loop.
Free(w) == freed' = [freed EXCEPT ![worker[w].request] = @ + 1]

Take(w) ==
    /\ ~Busy(w) /\ queue # <<>>
    /\ worker' = [worker EXCEPT ![w] = [at |-> "event", fd |-> Head(queue).fd, kind |-> Head(queue).kind,
                                        request |-> Head(queue).request, code |-> "ok"]]
    /\ queue' = Tail(queue)
    /\ UNCHANGED <<peer, serial, session, stopped, asked, freed, answered, refused, overtaken>>

\* No event, one nobody registered, or no lock: the message goes with its item.
Ignore(w) ==
    /\ worker[w].at = "event"
    /\ worker[w].kind \notin Registered \/ MayTimeOut(w)
    /\ Free(w)
    /\ worker' = [worker EXCEPT ![w] = Idle]
    /\ UNCHANGED <<peer, serial, queue, session, stopped, asked, answered, refused, overtaken>>

Call(w) ==
    /\ worker[w].at = "event" /\ worker[w].kind \in Registered
    /\ worker' = [worker EXCEPT ![w].at = "handler"]
    /\ UNCHANGED <<peer, serial, queue, session, stopped, asked, freed, answered, refused, overtaken>>

Answers(w, code) == worker' = [worker EXCEPT ![w].at = "answer", ![w].code = code]

SetSession(w) == [session EXCEPT ![worker[w].fd] = asked[worker[w].request]]

cb_login(w) ==
    /\ worker[w].at = "handler" /\ worker[w].kind \in {"login", "wrong login"}
    /\ IF worker[w].kind = "login"
       THEN \/ session' = SetSession(w) /\ Answers(w, "ok")
            \/ MayTimeOut(w) /\ session' = session /\ Answers(w, "auth")
       ELSE session' = session /\ Answers(w, "auth")
    /\ UNCHANGED <<peer, serial, queue, stopped, asked, freed, answered, refused, overtaken>>

\* dtn_socket_item_get: a copy of the session, or nothing.
NoSession(w) ==
    /\ worker[w].at = "handler" /\ worker[w].kind \in NeedsSession
    /\ session[worker[w].fd] = 0 \/ MayTimeOut(w)
    /\ IF worker[w].kind = "shutdown" THEN Answers(w, "none") ELSE Answers(w, "auth")
    /\ UNCHANGED <<peer, serial, queue, session, stopped, asked, freed, answered, refused, overtaken>>

WithSession(w) ==
    /\ worker[w].at = "handler" /\ worker[w].kind \in NeedsSession /\ session[worker[w].fd] # 0
    /\ worker' = [worker EXCEPT ![w].at = "does"]
    /\ UNCHANGED <<peer, serial, queue, session, stopped, asked, freed, answered, refused, overtaken>>

\* The node's core does what is asked for, or says no.
cb_load_or_send(w) ==
    /\ worker[w].at = "does" /\ worker[w].kind \in {"load_routes", "send_file"}
    /\ \E code \in {"ok", "error"} : Answers(w, code)
    /\ UNCHANGED <<peer, serial, queue, session, stopped, asked, freed, answered, refused, overtaken>>

cb_shutdown(w) ==
    /\ worker[w].at = "does" /\ worker[w].kind = "shutdown"
    /\ stopped' = TRUE
    /\ Answers(w, "none")
    /\ UNCHANGED <<peer, serial, queue, session, asked, freed, answered, refused, overtaken>>

\* Changed: the message keeps the item the handler freed.
FreeTwice(w) == freed' = [freed EXCEPT ![worker[w].request] = @ + 2]

\* The item is the handler's, not the message's any more.
FreeItem(w) == Free(w)

\* The answer goes to whoever has the descriptor now.
SendJson(w) ==
    {[request |-> worker[w].request, code |-> worker[w].code, to |-> c] : c \in {peer[worker[w].fd]} \ {0}}

cb_app_generic(w) ==
    /\ worker[w].at = "answer"
    /\ answered' = IF worker[w].code = "none" THEN answered ELSE answered \cup SendJson(w)
    /\ FreeItem(w)
    /\ worker' = [worker EXCEPT ![w] = Idle]
    /\ UNCHANGED <<peer, serial, queue, session, stopped, asked, refused, overtaken>>

Next ==
    \/ \E fd \in Fd : cb_accept(fd) \/ cb_close(fd) \/ cb_json_lost(fd) \/ \E kind \in Kinds : cb_json_success(fd, kind)
    \/ \E w \in Worker :
        \/ Take(w) \/ Ignore(w) \/ Call(w) \/ cb_login(w) \/ NoSession(w) \/ WithSession(w)
        \/ cb_load_or_send(w) \/ cb_shutdown(w) \/ cb_app_generic(w)

-----------------------------------------------------------------------------
\* The item of a request is freed once, when it is under way no more; only one
\* the queue did not take is freed twice.
RequestFreedOnce ==
    \A r \in 1..Len(asked) : freed[r] = IF r \in refused THEN 2 ELSE IF r \in UnderWay THEN 0 ELSE 1

\* A connection has the session of its own login and gets the answers to its own
\* requests, as long as those before it under the same number closed in peace.
SessionIsOwn == \A fd \in Fd : session[fd] \in {0, peer[fd]} \cup overtaken
AnswerIsOwn == \A a \in answered : a.to = asked[a.request] \/ asked[a.request] \in overtaken
=============================================================================
