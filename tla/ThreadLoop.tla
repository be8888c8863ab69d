----------------------------- MODULE ThreadLoop -----------------------------
(***************************************************************************)
(* dtn_thread_loop: an event loop thread and a pool of worker threads that *)
(* hand messages to each other.  Messages to the threads go through the    *)
(* pool (WorkerPool, which ThreadPool implements); messages to the loop go *)
(* through a queue under a lock, and for each one a token - its pointer -  *)
(* is written to a socket pair the event loop polls.                       *)
(*                                                                         *)
(* The thread loop is started, stopped, reconfigured and freed in the      *)
(* event loop thread, between two calls of the handler.                    *)
(***************************************************************************)
EXTENDS Naturals, Sequences, SequencesExt, FiniteSets

CONSTANTS
    Messages,       \* each is sent to the threads at most once
    NumThreads,
    None,           \* no message, and no thread holds the lock
    Loop,           \* the event loop thread as holder of the lock
    LoopCapacity,   \* config.message_queue_capacity of the queue to the loop
    SocketCapacity, \* tokens the socket pair holds before a write blocks
    QueueChoices,   \* is there a queue to the loop, after each reconfiguration
    WriteMayFail    \* may the write of a token fail (an interrupted call)

ASSUME LoopAssumption ==
    /\ NumThreads \in Nat \ {0}
    /\ LoopCapacity \in Nat \ {0} /\ SocketCapacity \in Nat \ {0}
    /\ None # Loop /\ {None, Loop} \cap Messages = {}
    /\ QueueChoices \subseteq BOOLEAN
    /\ WriteMayFail \in BOOLEAN

VARIABLES
    phase, pending, active,     \* the pool and to_threads, as in WorkerPool
    step,       \* where the handler of each active message is
    queueOn,    \* is to_loop.queue allocated
    loopQueue,  \* to_loop.queue, oldest first
    socket,     \* tokens written to to_loop.trigger, not yet read
    lock,       \* the holder of to_loop.lock: an active message's thread, or Loop
    loop,       \* what the event loop thread is doing, and the message it has
    fate,       \* history: what became of each message
    missed,     \* history: the handler consumed a token without its message
    torn        \* history: a message stayed in the queue and its sending failed

poolVars == <<phase, pending, active>>
vars == <<phase, pending, active, step, queueOn, loopQueue, socket, lock, loop,
          fate, missed, torn>>

Pool == INSTANCE WorkerPool

Polling == [at |-> "poll", msg |-> None, call |-> "none"]

(* dtn_thread_loop_create leaves a default configuration: there is a queue. *)
Init ==
    /\ Pool!Init
    /\ step = [m \in Messages |-> "none"]
    /\ queueOn = TRUE
    /\ loopQueue = <<>>
    /\ socket = <<>>
    /\ lock = None
    /\ loop = Polling
    /\ fate = [m \in Messages |-> "fresh"]
    /\ missed = FALSE /\ torn = FALSE

Freed(S) == [m \in Messages |-> IF m \in S THEN "freed" ELSE fate[m]]
-----------------------------------------------------------------------------
(* Messages to the threads.                                                *)

(* dtn_thread_loop_send_message to DTN_RECEIVER_THREAD: what a full queue  *)
(* gives up is freed (free_message).                                       *)
SendToThreads(m) ==
    /\ fate[m] = "fresh"
    /\ loop.at # "gone"
    /\ Pool!Submit(m)
    /\ fate' = [Freed(pending \ pending') EXCEPT ![m] = "to_threads"]
    /\ UNCHANGED <<step, queueOn, loopQueue, socket, lock, loop, missed, torn>>

(* A worker calls handle_message_in_thread. *)
Take(m) ==
    /\ Pool!Take(m)
    /\ step' = [step EXCEPT ![m] = "handle"]
    /\ UNCHANGED <<queueOn, loopQueue, socket, lock, loop, fate, missed, torn>>

(* The handler frees the message, because it is done with it or because it *)
(* could not send it, and returns.                                         *)
FreeAndReturn(m) ==
    /\ Pool!Finish(m)
    /\ step' = [step EXCEPT ![m] = "none"]
    /\ fate' = Freed({m})

Handle(m) ==
    /\ step[m] = "handle"
    /\ FreeAndReturn(m)
    /\ UNCHANGED <<queueOn, loopQueue, socket, lock, loop, missed, torn>>
-----------------------------------------------------------------------------
(* A handler sends its message to the loop: send_message_pointer_to_loop.  *)

SendLock(m) ==
    /\ step[m] = "handle"
    /\ lock = None
    /\ lock' = m
    /\ step' = [step EXCEPT ![m] = "insert"]
    /\ UNCHANGED <<poolVars, queueOn, loopQueue, socket, loop, fate, missed, torn>>

SendLockTimeout(m) ==
    /\ step[m] = "handle"
    /\ lock # None
    /\ FreeAndReturn(m)
    /\ UNCHANGED <<queueOn, loopQueue, socket, lock, loop, missed, torn>>

(* Mutant: an overwritten message is not taken out of the queue. *)
OverwriteKeeps(q) == q

(* A full ring buffer gives up its oldest message. *)
MakeRoom(q) == IF Len(q) < LoopCapacity THEN q ELSE Tail(q)

(* Insert into the queue and unlock; without a queue nothing is `sent' and *)
(* the call fails before it comes to the socket.                           *)
SendInsert(m) ==
    /\ step[m] = "insert"
    /\ lock' = None
    /\ IF queueOn
       THEN /\ loopQueue' = Append(MakeRoom(loopQueue), m)
            /\ fate' = [Freed(IF Len(loopQueue) < LoopCapacity THEN {} ELSE {Head(loopQueue)})
                           EXCEPT ![m] = "to_loop"]
            /\ step' = [step EXCEPT ![m] = "write"]
            /\ UNCHANGED poolVars
       ELSE /\ FreeAndReturn(m)
            /\ UNCHANGED loopQueue
    /\ UNCHANGED <<queueOn, socket, loop, missed, torn>>

(* Mutant: a token is written when the one before it has been read. *)
OneTokenAtATime == socket = <<>>

(* A write to the blocking socket waits for room. *)
MayWrite == Len(socket) < SocketCapacity

(* The token is written outside the lock; a full socket blocks the thread. *)
SendWrite(m) ==
    /\ step[m] = "write"
    /\ MayWrite
    /\ socket' = Append(socket, m)
    /\ Pool!Finish(m)
    /\ step' = [step EXCEPT ![m] = "none"]
    /\ UNCHANGED <<queueOn, loopQueue, lock, loop, fate, missed, torn>>

(* The call fails although the message is in the queue; its handler frees  *)
(* what it could not send.                                                 *)
SendWriteFails(m) ==
    /\ WriteMayFail
    /\ step[m] = "write"
    /\ FreeAndReturn(m)
    /\ torn' = TRUE
    /\ UNCHANGED <<queueOn, loopQueue, socket, lock, loop, missed>>
-----------------------------------------------------------------------------
(* The event loop thread: msg_to_loop_handler.                             *)

(* Mutant: everything there is in the socket is read at once. *)
AllRead == <<>>

(* One token is read per call; the event loop is level-triggered. *)
Unread == Tail(socket)

(* Read one token; with a queue its pointer is not used. *)
LoopRead ==
    /\ loop.at = "poll"
    /\ socket # <<>>
    /\ socket' = Unread
    /\ loop' = IF queueOn THEN [loop EXCEPT !.at = "lock"]
                          ELSE [loop EXCEPT !.at = "handle", !.msg = Head(socket)]
    /\ UNCHANGED <<poolVars, step, queueOn, loopQueue, lock, fate, missed, torn>>

LoopLock ==
    /\ loop.at = "lock"
    /\ lock = None
    /\ lock' = Loop
    /\ loop' = [loop EXCEPT !.at = "pop"]
    /\ UNCHANGED <<poolVars, step, queueOn, loopQueue, socket, fate, missed, torn>>

(* The token is gone, the message stays in the queue. *)
LoopLockTimeout ==
    /\ loop.at = "lock"
    /\ lock # None
    /\ loop' = Polling
    /\ missed' = TRUE
    /\ UNCHANGED <<poolVars, step, queueOn, loopQueue, socket, lock, fate, torn>>

(* The handler unlocks in any case. *)
AfterPop == None

(* Mutant: the handler is called without a message, too. *)
AlwaysHandle(q) == "handle"

(* The handler is called if there was a message to pop. *)
HandleIfAny(q) == IF q = <<>> THEN "poll" ELSE "handle"

LoopPop ==
    /\ loop.at = "pop"
    /\ lock' = AfterPop
    /\ loop' = [loop EXCEPT !.at = HandleIfAny(loopQueue),
                           !.msg = IF loopQueue = <<>> THEN None ELSE Head(loopQueue)]
    /\ loopQueue' = IF loopQueue = <<>> THEN <<>> ELSE Tail(loopQueue)
    /\ UNCHANGED <<poolVars, step, queueOn, socket, fate, missed, torn>>

(* handle_message_in_loop, which frees the message. *)
LoopHandle ==
    /\ loop.at = "handle"
    /\ fate' = Freed({loop.msg})
    /\ loop' = Polling
    /\ UNCHANGED <<poolVars, step, queueOn, loopQueue, socket, lock, missed, torn>>
-----------------------------------------------------------------------------
(* The event loop thread: start, stop, reconfigure and free.               *)

StartThreads ==
    /\ loop.at = "poll"
    /\ Pool!Start
    /\ UNCHANGED <<step, queueOn, loopQueue, socket, lock, loop, fate, missed, torn>>

(* A running pool is stopped first: the event loop thread joins it.        *)
BeginStop ==
    /\ loop.at = "poll"
    /\ Pool!BeginStop
    /\ \E call \in {"stop", "reconfigure", "free"} :
          loop' = [loop EXCEPT !.at = "join", !.call = call]
    /\ UNCHANGED <<step, queueOn, loopQueue, socket, lock, fate, missed, torn>>

StopThreads ==
    /\ loop.at = "join" /\ loop.call = "stop"
    /\ Pool!EndStop /\ phase' = "stopped"
    /\ loop' = Polling
    /\ UNCHANGED <<step, queueOn, loopQueue, socket, lock, fate, missed, torn>>

(* Mutant: the messages to the threads are not released. *)
OnlyToLoop == ToSet(loopQueue)

(* The messages that the two queues free when they are freed. *)
Queued == ToSet(loopQueue) \cup pending

(* The pool is down, or has been brought down by this call. *)
PoolDown(call) ==
    \/ loop.at = "poll" /\ phase = "stopped"
    \/ loop.at = "join" /\ loop.call = call /\ active = {}

(* Both queues are freed with their messages; the socket keeps its tokens. *)
Reconfigure ==
    /\ PoolDown("reconfigure")
    /\ phase' = "stopped"
    /\ pending' = {}
    /\ loopQueue' = <<>>
    /\ fate' = Freed(Queued)
    /\ queueOn' \in QueueChoices
    /\ loop' = Polling
    /\ UNCHANGED <<active, step, socket, lock, missed, torn>>

Free ==
    /\ PoolDown("free")
    /\ phase' = "gone"
    /\ pending' = {}
    /\ loopQueue' = <<>>
    /\ fate' = Freed(Queued)
    /\ queueOn' = FALSE
    /\ socket' = <<>>
    /\ loop' = [Polling EXCEPT !.at = "gone"]
    /\ UNCHANGED <<active, step, lock, missed, torn>>

Terminated == loop.at = "gone" /\ UNCHANGED vars
-----------------------------------------------------------------------------
SendToLoop(m) == SendLock(m) \/ SendLockTimeout(m) \/ SendInsert(m) \/ SendWrite(m)
                    \/ SendWriteFails(m)

LoopThread == LoopRead \/ LoopLock \/ LoopLockTimeout \/ LoopPop \/ LoopHandle

Next ==
    \/ \E m \in Messages : SendToThreads(m) \/ Take(m) \/ Handle(m) \/ SendToLoop(m)
    \/ LoopThread
    \/ StartThreads \/ BeginStop \/ StopThreads \/ Reconfigure \/ Free
    \/ Terminated

Spec == Init /\ [][Next]_vars

(* Every thread runs when it can.  The event loop serves every descriptor  *)
(* that is ready before it polls again, so that the calls made in other    *)
(* callbacks cannot keep it from the socket for ever (strong fairness of   *)
(* LoopRead).  Nobody is made to send, start or stop.                      *)
FairSpec ==
    /\ Spec
    /\ SF_vars(LoopRead)
    /\ WF_vars(LoopThread)
    /\ WF_vars(StopThreads)
    /\ WF_vars(loop.at = "join" /\ (Reconfigure \/ Free))
    /\ \A m \in Messages :
          WF_vars(Handle(m) \/ SendLock(m) \/ SendInsert(m) \/ SendWrite(m))
-----------------------------------------------------------------------------
(* Every message has one owner, who frees it ("All handlers need to free   *)
(* the messages themselves"): what waits in a queue or is about to be      *)
(* handled has not been freed, and no message waits in two places; what    *)
(* was accepted and not freed is still somewhere a thread will find it.    *)
(* Only a failed write of a token makes two owners.                        *)
OneOwner ==
    /\ \A m \in Messages :
          fate[m] \in {"to_threads", "to_loop"} =>
              m \in pending \cup active \cup ToSet(loopQueue) \cup {loop.msg}
    /\ \/ torn
       \/ /\ \A m \in pending : fate[m] = "to_threads"
          /\ \A m \in active : step[m] \in {"handle", "insert"} => fate[m] = "to_threads"
          /\ \A k \in 1 .. Len(loopQueue) : fate[loopQueue[k]] = "to_loop"
          /\ \A j, k \in 1 .. Len(loopQueue) : loopQueue[j] = loopQueue[k] => j = k
          /\ loop.at = "handle" => /\ fate[loop.msg] = "to_loop"
                                   /\ loop.msg \notin ToSet(loopQueue)

(* The event loop is woken for every message in its queue: there are at    *)
(* least as many tokens, written, being written or read, as messages.      *)
(* Only a handler that could not get the lock in time, or a failed write,  *)
(* upsets this.                                                            *)
TokenForEachMessage ==
    missed \/ torn \/ Len(loopQueue) <= Len(socket)
                + Cardinality({m \in Messages : step[m] = "write"})
                + (IF loop.at \in {"lock", "pop"} THEN 1 ELSE 0)

(* A worker waits for room in the socket, and the event loop thread, which *)
(* alone reads from it, joins the workers: neither goes on but by an error *)
(* of the write.                                                           *)
EachWaitsForOther ==
    /\ loop.at = "join"
    /\ Len(socket) = SocketCapacity
    /\ \E m \in Messages : step[m] = "write"

(* A message in the queue to the loop is handled, given up for a newer one *)
(* or freed with the queue, unless its token was lost or nothing goes on.  *)
LoopQueueDrains ==
    \A m \in Messages :
        m \in ToSet(loopQueue) ~>
            m \notin ToSet(loopQueue) \/ missed \/ torn \/ EachWaitsForOther

(* "Stops all threads of the thread pool" (dtn_thread_loop.h): the call    *)
(* comes to an end, unless it finds a worker that waits for room in the    *)
(* socket, or one comes to that while it is under way.                     *)
StopReturns == loop.at = "join" ~> loop.at # "join" \/ EachWaitsForOther

=============================================================================
