----------------------------- MODULE MCServices -----------------------------
(***************************************************************************)
(* The event loops and what runs on them, one at a time: `part' says which  *)
(* the behaviour is about, so that their states add up and do not multiply. *)
(***************************************************************************)
EXTENDS Integers

CONSTANTS
    PollFd, Listener, PollTimers, User, PollCalls,
    Size, Limit, EpollTimers, EpollCalls,
    IoFd, Peer, TlsPeer, IoThread, MaxConnections, MaxMessages, MaxWaiting,
    Sender, Remote, Pieces, MaxDatagrams, MaxBundles, MaxChanges,
    Workers, Names, Items, None,
    Caller, StoreId, StoreSocket, StoreMessage, Lifetimes, StoreModulus, StoreTime, Nobody,
    AppFd, AppWorker, AppKinds, AppCapacity, AppConnections, AppRequests,
    Files, FileSizes, FileChunk, FileTime, RouteDirs, NodeInterfaces, MaxLoads

VARIABLES
    part,
    func, container, open, ready, polled, revents, timer, remembered, armed, pc, at,
    running, wake, mode, calls, conns, reused,
    etable, owner, known, available, eremembered, earmed, epc, eat, erunning, ewake, ecalls,
    conn, watched, timers, wanted, reconnects, retry, partial, given, sent, stray, raced, step, iconns, msgs,
    isUp, link, queue, lock, taken, passed, failed, place, changes, stream, buffer, received, lost,
    table, itemLock, use, closing, garbage, collecting, rest, frees, gone, crashed, trespassed,
    store, holder, call, invalidate, overdue, clock, used, ends, early, closed,
    peer, serial, requests, worker, session, stopped, asked, freed, answered, refused, overtaken,
    sequence, task, now, length, network, overlapped, keys, seen, entries, forwarded,
    goal, routes, configPath, loading, loads, loaded, interfaces, plan, misled, writing, written, disk

\* What stands for none is no item, no worker, no caller and no request.
ASSUME ItemsAssumption == None \notin Items \cup Workers

Requests == [message : StoreMessage, socket : StoreSocket, created : 0 .. StoreTime,
             life : Lifetimes, told : BOOLEAN]
ASSUME StoreAssumption ==
    /\ Nobody \notin Caller \cup {"timer"} \cup Requests /\ "timer" \notin Caller
    /\ Lifetimes \subseteq Nat /\ StoreTime \in Nat /\ StoreModulus \in Nat \ {0}

\* Users are numbered from 1 on.  Every program gives its loop as many sockets as
\* the system lets it open files (dtn_tunnel.c:64), and the loop makes the table of
\* callbacks larger by its timers: every descriptor has a place of its own.
ASSUME PollAssumption == User \subseteq Nat \ {0} /\ PollTimers \in Nat
ASSUME EpollAssumption == Size \in Nat /\ Limit \in Nat /\ Limit <= Size /\ EpollTimers \in Nat

\* The loop is one of the threads that send; a queue of requests takes one at
\* least, for a capacity of 0 stands for 10000 (dtn_file_node_app.c:380).
ASSUME IoAssumption == IoFd \subseteq Nat \ {0} /\ "loop" \in IoThread /\ MaxConnections \in Nat
ASSUME AppAssumption == AppCapacity \in Nat \ {0} /\ AppRequests \in Nat
ASSUME SenderAssumption == "nobody" \notin Sender
ASSUME PiecesAssumption == Pieces \in Nat \ {0} /\ MaxBundles \in Nat
ASSUME FileAssumption ==
    None \notin Files /\ FileSizes \subseteq Nat \ {0} /\ FileChunk \in Nat \ {0} /\ FileTime \in Nat

\* One file is for the node that receives, the other for it as well or for the
\* one that sends, both under the same path; the routes lead to both nodes.
Goals == {[f \in Files |-> [here |-> (f = 1 \/ both), path |-> "path"]] : both \in BOOLEAN}
Routes(dir) == {[here |-> here, class |-> "regname", interface |-> i] : here \in BOOLEAN, i \in NodeInterfaces}

PO == INSTANCE EventLoopPoll WITH Fd <- PollFd, MaxTimers <- PollTimers, MaxCalls <- PollCalls
EP == INSTANCE EventLoopEpoll WITH MaxTimers <- EpollTimers, MaxCalls <- EpollCalls,
          table <- etable, remembered <- eremembered, armed <- earmed, pc <- epc, at <- eat,
          running <- erunning, wake <- ewake, calls <- ecalls
IO == INSTANCE Io WITH Fd <- IoFd, Thread <- IoThread, conns <- iconns
IP == INSTANCE IpInterface WITH given <- taken, sent <- passed, at <- place
IT == INSTANCE Interfaces WITH lost <- gone
AS == INSTANCE AsyncStore WITH Id <- StoreId, Socket <- StoreSocket, Message <- StoreMessage,
          Modulus <- StoreModulus, MaxTime <- StoreTime
AP == INSTANCE App WITH Fd <- AppFd, Worker <- AppWorker, Kinds <- AppKinds, Capacity <- AppCapacity,
          MaxConnections <- AppConnections, MaxRequests <- AppRequests, queue <- requests
FN == INSTANCE FileNode WITH Datagrams <- Files, Sizes <- FileSizes, Chunk <- FileChunk, Least <- 1, Duplicates <- 0,
          MaxTime <- FileTime, Directory <- RouteDirs, Interface <- NodeInterfaces, crashed <- misled

pollVars == <<func, container, open, ready, polled, revents, timer, remembered, armed, pc, at,
              running, wake, mode, calls, conns, reused>>
epollVars == <<etable, owner, known, available, eremembered, earmed, epc, eat, erunning, ewake, ecalls>>
ioVars == <<conn, watched, timers, wanted, reconnects, retry, partial, given, sent, stray, raced, step, iconns, msgs>>
sendVars == <<isUp, link, queue, lock, taken, passed, failed, place, changes>>
receiveVars == <<stream, buffer, received, lost>>
itemVars == <<table, itemLock, use, closing, garbage, collecting, rest, frees, gone, crashed, trespassed>>
storeVars == <<store, holder, call, invalidate, overdue, clock, used, ends, early, closed>>
appVars == <<peer, serial, requests, worker, session, stopped, asked, freed, answered, refused, overtaken>>
fileVars == <<sequence, task, now, length, network, overlapped, keys, seen, entries, forwarded,
              goal, routes, configPath, loading, loads, loaded, interfaces, plan, misled, writing, written, disk>>
loopVars == <<pollVars, epollVars, ioVars, sendVars, receiveVars, itemVars>>
nodeVars == <<storeVars, appVars, fileVars>>
vars == <<part, loopVars, nodeVars>>

Init ==
    /\ part \in {"poll", "epoll", "io", "ip sends", "ip receives", "interfaces", "store", "app", "routes", "files"}
    /\ PO!Init /\ EP!Init /\ IO!Init /\ IP!Init /\ IT!Init /\ AS!Init /\ AP!Init /\ FN!FileInit
    /\ part # "routes" => routes = 1 /\ configPath = 1
    /\ part # "files" => \A f \in Files : goal[f].here

PollStep == PO!Next /\ UNCHANGED <<epollVars, ioVars, sendVars, receiveVars, itemVars, nodeVars>>
EpollStep == EP!Next /\ UNCHANGED <<pollVars, ioVars, sendVars, receiveVars, itemVars, nodeVars>>
IoStep == IO!Next /\ UNCHANGED <<pollVars, epollVars, sendVars, receiveVars, itemVars, nodeVars>>
SendStep == IP!Sending /\ UNCHANGED <<pollVars, epollVars, ioVars, receiveVars, itemVars, nodeVars>>
ReceiveStep == IP!Receiving /\ UNCHANGED <<pollVars, epollVars, ioVars, sendVars, itemVars, nodeVars>>
ItemStep == IT!Next /\ UNCHANGED <<pollVars, epollVars, ioVars, sendVars, receiveVars, nodeVars>>
StoreStep == AS!Next /\ UNCHANGED <<loopVars, appVars, fileVars>>
AppStep == AP!Next /\ UNCHANGED <<loopVars, storeVars, fileVars>>
RoutesStep == FN!Loading /\ UNCHANGED <<loopVars, storeVars, appVars>>

\* Steps that commute with all others come only where they matter: time passes
\* before it is read, an interface goes before it is used.  Workers that wait are
\* alike, and so each has its file.
FileSent ==
    /\ FN!Sending
    /\ now' # now => \E w \in Workers : task[w].at = "stamp"
    /\ interfaces' # interfaces => \E w \in Workers : task[w].at = "send"
    /\ \A w \in Workers : task'[w].datagram \in {None, IF w = CHOOSE v \in Workers : TRUE THEN 1 ELSE 2}
    /\ UNCHANGED <<loopVars, storeVars, appVars>>

\* What comes in depends on nothing the sender does but on what it sent, and so
\* it comes in when no file is being cut.
FileReceived ==
    /\ \A w \in Workers : task[w] = FN!Idle
    /\ FN!Receiving
    /\ UNCHANGED <<loopVars, storeVars, appVars>>

Next ==
    /\ UNCHANGED part
    /\ \/ part = "poll" /\ PollStep
       \/ part = "epoll" /\ EpollStep
       \/ part = "io" /\ IoStep
       \/ part = "ip sends" /\ SendStep
       \/ part = "ip receives" /\ ReceiveStep
       \/ part = "interfaces" /\ ItemStep
       \/ part = "store" /\ StoreStep
       \/ part = "app" /\ AppStep
       \/ part = "routes" /\ RoutesStep
       \/ part = "files" /\ (FileSent \/ FileReceived)

\* The loop goes on and time passes; a worker comes to the end of sending, and
\* the collector's timer comes again.
Fairness ==
    /\ PO!Fairness
    /\ \A w \in Workers : WF_itemVars(part = "interfaces" /\ IT!Sent(w))
    /\ WF_itemVars(part = "interfaces" /\ IT!Close)
    /\ WF_itemVars(part = "interfaces" /\ IT!Collect)

Spec == Init /\ [][Next]_vars /\ Fairness

-----------------------------------------------------------------------------
\* What the loops remember is so: under both a user waits for a timer exactly
\* as long as one is its own, the one it remembers; under epoll no timer out of
\* use is registered, and what is reported has its callback; the container of a
\* listener that polls lives as long as the registration; and a loop that was
\* stopped is not left waiting.
LoopsKnow ==
    /\ PO!TimerIsOwn /\ PO!ContainerIsHeld /\ PO!StopIsHeard
    /\ EP!TimerIsOwn /\ EP!AvailableIsIdle /\ EP!TableIsKnown

\* A callback gets no event of the connection that had its descriptor before,
\* but for a descriptor registered since poll returned.
EventIsOwn == PO!EventIsOwn

\* A timer that is set is called or unset, unless the loop ends.
TimerIsServed == PO!TimerIsServed

\* Nothing kept for a connection outlives it, and a client that lost its
\* connection comes back; messages go out in the order given and once, and the
\* loop looks for room as long as some are left, on connections that no two threads
\* were about at once, and but for a first byte that went out ahead.  A request
\* of a connection is freed once, its answer and its session are the connection's
\* own, unless its number was given to another while the request was under way.
ConnectionsAreKept ==
    /\ IO!NothingOutlives /\ IO!ClientIsKept
    /\ IO!SentInOrder /\ IO!PendingIsWatched
    /\ part = "app" => AP!RequestFreedOnce /\ AP!SessionIsOwn /\ AP!AnswerIsOwn

\* The datagrams of an interface are sent once or wait, and none waits at a
\* link that is up with nobody to send it; bundles are put together from what
\* one remote sent; and what a node writes under a path is a file sent to it,
\* whole if the sender cut it alone into whole chunks, and sent on the routes
\* last asked for.
DatagramsAreKept ==
    /\ IP!DatagramsKept /\ IP!QuietIsDrained /\ IP!BundlesAreOwn
    /\ part = "routes" => FN!RoutesAreAsked
    /\ part = "files" => FN!FileIsAsSent

\* An interface is in one place, and is not freed under a worker with its lock;
\* a message in the store has one fate, and not before its time.
ItemsAreKept ==
    /\ IT!OneKeeper /\ IT!FreedUnused
    /\ part = "store" => AS!OneFate /\ AS!NotEarly

\* An interface that was removed is freed in the end, unless it is given up.
RemovedIsFreed == IT!RemovedIsFreed
=============================================================================
