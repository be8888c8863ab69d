----------------------------- MODULE ThreadPool -----------------------------
(***************************************************************************)
(* dtn_thread_pool with its dtn_thread_lock and its incoming queue: worker *)
(* threads, the controller that starts, stops and frees the pool, and the  *)
(* threads that put messages into the queue (put_into_queue of the thread  *)
(* loop).  The queue is the bounded FIFO that Ringbuffer implements.       *)
(*                                                                         *)
(* pool_state is atomic and read without the lock; everything done to the  *)
(* queue is done under the lock.  Taking the lock and waiting for a        *)
(* notification both time out.                                             *)
(***************************************************************************)
EXTENDS Naturals, Sequences, SequencesExt, FiniteSets

CONSTANTS
    NumThreads,     \* config.num_threads
    Producers,      \* threads that put messages into the queue
    Messages,       \* each is put into the queue at most once
    None,           \* no thread holds the lock; no message
    Capacity,       \* config.message_queue_capacity
    SpawnMayFail    \* may pthread_create fail

ASSUME PoolAssumption ==
    /\ NumThreads \in Nat \ {0}
    /\ Producers \cap (1 .. NumThreads) = {}
    /\ None \notin Messages \cup Producers \cup (1 .. NumThreads)
    /\ Capacity \in Nat \ {0}
    /\ SpawnMayFail \in BOOLEAN

Workers == 1 .. NumThreads

VARIABLES
    poolState,      \* internal_pool.pool_state
    ctl,            \* where the controlling thread is, and in which call
    thread,         \* ThreadInfo.state
    pc,             \* where each worker is in thread_run
    element,        \* the local variable `element' of thread_run
    lock,           \* the holder of incoming.lock
    queue,          \* incoming.queue, oldest first
    sending,        \* the message a producer is putting into the queue
    fate            \* history: what became of each message

control == <<poolState, ctl, thread>>
vars == <<poolState, ctl, thread, pc, element, lock, queue, sending, fate>>

Idle == [at |-> "idle", i |-> 0, call |-> "none"]

Init ==
    /\ poolState = "STOPPED"
    /\ ctl = Idle
    /\ thread = [w \in Workers |-> "STOPPED"]
    /\ pc = [w \in Workers |-> "none"]
    /\ element = [w \in Workers |-> None]
    /\ lock = None
    /\ queue = <<>>
    /\ sending = [p \in Producers |-> None]
    /\ fate = [m \in Messages |-> "unsent"]
-----------------------------------------------------------------------------
(* The controlling thread: start, stop and free.                           *)

(* Mutant: the loops over the threads go one too far. *)
OnePastLast == NumThreads + 1

(* The last round of the loops over the threads. *)
LastThread == NumThreads

BeginJoin(call) ==
    /\ poolState' = "TO_STOP"
    /\ ctl' = [at |-> "join", i |-> 1, call |-> call]

(* thread_start on a stopped pool. *)
Start ==
    /\ ctl.at = "idle" /\ poolState = "STOPPED"
    /\ poolState' = "RUNNING"
    /\ ctl' = [at |-> "spawn", i |-> 1, call |-> "start"]
    /\ UNCHANGED <<thread, pc, element, lock, queue, sending, fate>>

(* thread_start on a running pool fails, and its error path stops the pool. *)
StartAgain ==
    /\ ctl.at = "idle" /\ poolState = "RUNNING"
    /\ BeginJoin("start")
    /\ UNCHANGED <<thread, pc, element, lock, queue, sending, fate>>

(* The first loop of spawn_threads. *)
SpawnThread ==
    /\ ctl.at = "spawn"
    /\ thread' = [thread EXCEPT ![ctl.i] = "STARTING"]
    /\ pc' = [pc EXCEPT ![ctl.i] = "begin"]
    /\ ctl' = IF ctl.i = LastThread THEN [ctl EXCEPT !.at = "await", !.i = 1]
                                    ELSE [ctl EXCEPT !.i = ctl.i + 1]
    /\ UNCHANGED <<poolState, element, lock, queue, sending, fate>>

(* pthread_create fails: the error path of thread_start stops the pool.    *)
SpawnFails ==
    /\ SpawnMayFail
    /\ ctl.at = "spawn"
    /\ thread' = [thread EXCEPT ![ctl.i] = "STARTING"]
    /\ BeginJoin("start")
    /\ UNCHANGED <<pc, element, lock, queue, sending, fate>>

(* The second loop of spawn_threads: it looks at every thread once, and    *)
(* after a pause goes on whatever state the thread is in.                  *)
AwaitThread ==
    /\ ctl.at = "await"
    /\ IF thread[ctl.i] = "STOPPED"
       THEN BeginJoin("start")
       ELSE /\ ctl' = IF ctl.i = LastThread THEN Idle
                                            ELSE [ctl EXCEPT !.i = ctl.i + 1]
            /\ UNCHANGED poolState
    /\ UNCHANGED <<thread, pc, element, lock, queue, sending, fate>>

(* thread_stop, called by itself or from thread_free, on a running pool.   *)
Stop ==
    /\ ctl.at = "idle" /\ poolState = "RUNNING"
    /\ \E call \in {"stop", "free"} : BeginJoin(call)
    /\ UNCHANGED <<thread, pc, element, lock, queue, sending, fate>>

(* Mutant: the oldest message is given up and stays in the queue.          *)
InsertKeepsOldest(q, m) == Append(q, m)

(* ringbuffer_insert: a full queue gives up its oldest message.            *)
Inserted(q, m) == IF Len(q) < Capacity THEN Append(q, m) ELSE Append(Tail(q), m)

(* Mutant: the controller does not wait for the thread. *)
MayJoinUnfinished(w) == pc[w] \notin {"none", "joined"}

(* pthread_join returns once the thread has ended. *)
MayJoin(w) == pc[w] = "ended"

(* One round of the loop of thread_stop, and after the last one what       *)
(* thread_stop, and thread_free around it, do.                             *)
JoinThread ==
    /\ ctl.at = "join"
    /\ MayJoin(ctl.i)
    /\ pc' = [pc EXCEPT ![ctl.i] = IF @ = "ended" THEN "joined" ELSE @]
    /\ IF ctl.i < LastThread
       THEN /\ ctl' = [ctl EXCEPT !.i = ctl.i + 1]
            /\ UNCHANGED poolState
       ELSE /\ poolState' = "STOPPED"
            /\ ctl' = IF ctl.call = "free" THEN [ctl EXCEPT !.at = "freed"] ELSE Idle
    /\ UNCHANGED <<thread, element, lock, queue, sending, fate>>

(* Joining a thread that was never created or was joined before: when      *)
(* pthread_join reports it, thread_stop puts the old state back and fails. *)
JoinFails ==
    /\ ctl.at = "join"
    /\ pc[ctl.i] \in {"none", "joined"}
    /\ poolState' = "RUNNING"
    /\ ctl' = Idle
    /\ UNCHANGED <<thread, pc, element, lock, queue, sending, fate>>

(* thread_free on a stopped pool. *)
Free ==
    /\ ctl.at = "idle" /\ poolState = "STOPPED"
    /\ ctl' = [Idle EXCEPT !.at = "freed"]
    /\ UNCHANGED <<poolState, thread, pc, element, lock, queue, sending, fate>>

Controller ==
    \/ Start \/ StartAgain \/ SpawnThread \/ SpawnFails \/ AwaitThread
    \/ Stop \/ JoinThread \/ JoinFails \/ Free
-----------------------------------------------------------------------------
(* The worker threads: thread_run and try_lock_until_stop.                 *)

Goto(w, l) == pc' = [pc EXCEPT ![w] = l]

Begin(w) ==
    /\ pc[w] = "begin"
    /\ thread' = [thread EXCEPT ![w] = "RUNNING"]
    /\ Goto(w, "lock")
    /\ UNCHANGED <<poolState, ctl, element, lock, queue, sending, fate>>

Acquire(w) ==
    /\ pc[w] = "lock"
    /\ lock = None
    /\ lock' = w
    /\ Goto(w, "head")
    /\ UNCHANGED <<control, element, queue, sending, fate>>

(* Mutant: a worker that cannot get the lock gives up in any case. *)
GivesUp == "finish"

(* Where a worker goes that could not get the lock: try_lock_until_stop    *)
(* gives up when the pool is being stopped.                                *)
AfterTimeout == IF poolState = "RUNNING" THEN "lock" ELSE "finish"

AcquireTimeout(w) ==
    /\ pc[w] = "lock"
    /\ lock # None
    /\ Goto(w, AfterTimeout)
    /\ UNCHANGED <<control, element, lock, queue, sending, fate>>

(* The state is checked at the head of the main loop and after each wait. *)
CheckState(w) ==
    /\ pc[w] = "head"
    /\ IF poolState = "RUNNING"
       THEN Goto(w, "pop") /\ UNCHANGED lock
       ELSE Goto(w, "finish") /\ lock' = None
    /\ UNCHANGED <<control, element, queue, sending, fate>>

(* ringbuffer_pop reads the slot first ... an empty queue is waited on,    *)
(* which releases the lock.                                                *)
PopRead(w) ==
    /\ pc[w] = "pop"
    /\ IF queue = <<>>
       THEN /\ Goto(w, "wait")
            /\ lock' = None
            /\ UNCHANGED element
       ELSE /\ Goto(w, "take")
            /\ element' = [element EXCEPT ![w] = Head(queue)]
            /\ UNCHANGED lock
    /\ UNCHANGED <<control, queue, sending, fate>>

(* Mutant: a worker that popped a message looks at the state once more.    *)
LeaveOnStop == IF poolState = "RUNNING" THEN "process" ELSE "finish"

(* Where a worker goes with the message it popped, whatever the state is.  *)
AfterPop == "process"

(* ... and empties it and moves on after that; then the lock is released.  *)
PopTake(w) ==
    /\ pc[w] = "take"
    /\ queue' = Tail(queue)
    /\ fate' = [fate EXCEPT ![element[w]] = "taken"]
    /\ lock' = None
    /\ Goto(w, AfterPop)
    /\ UNCHANGED <<control, element, sending>>

(* Mutant: what dtn_thread_lock.h says of a wait that timed out.           *)
WakeUnlocked(w) ==
    /\ pc[w] = "wait"
    /\ Goto(w, "head")
    /\ UNCHANGED <<control, element, lock, queue, sending, fate>>

(* Mutant: a wait ends with a notification only. *)
WakeByNotifyOnly(w) ==
    /\ pc[w] = "wait"
    /\ UNCHANGED vars

(* A wait ends with its timeout, or for no reason; pthread_cond_timedwait  *)
(* takes the mutex again before it returns, whatever it returns.           *)
Wake(w) ==
    /\ pc[w] = "wait"
    /\ Goto(w, "relock")
    /\ UNCHANGED <<control, element, lock, queue, sending, fate>>

Relock(w) ==
    /\ pc[w] = "relock"
    /\ lock = None
    /\ lock' = w
    /\ Goto(w, "head")
    /\ UNCHANGED <<control, element, queue, sending, fate>>

(* The process function returns. *)
Process(w) ==
    /\ pc[w] = "process"
    /\ fate' = [fate EXCEPT ![element[w]] = "done"]
    /\ element' = [element EXCEPT ![w] = None]
    /\ Goto(w, "lock")
    /\ UNCHANGED <<control, lock, queue, sending>>

Finish(w) ==
    /\ pc[w] = "finish"
    /\ thread' = [thread EXCEPT ![w] = "STOPPED"]
    /\ Goto(w, "ended")
    /\ UNCHANGED <<poolState, ctl, element, lock, queue, sending, fate>>

Worker(w) ==
    \/ Begin(w) \/ Acquire(w) \/ AcquireTimeout(w) \/ CheckState(w)
    \/ PopRead(w) \/ PopTake(w) \/ Wake(w) \/ Relock(w) \/ Process(w) \/ Finish(w)
-----------------------------------------------------------------------------
(* The producers: put_into_queue.                                          *)

Put(p, m) ==
    /\ sending[p] = None
    /\ fate[m] = "unsent"
    /\ sending' = [sending EXCEPT ![p] = m]
    /\ fate' = [fate EXCEPT ![m] = "sending"]
    /\ UNCHANGED <<control, pc, element, lock, queue>>

PutLock(p) ==
    /\ sending[p] # None
    /\ lock = None
    /\ lock' = p
    /\ UNCHANGED <<control, pc, element, queue, sending, fate>>

(* The lock was not to be had in time: the caller keeps the message.       *)
PutTimeout(p) ==
    /\ sending[p] # None
    /\ lock \notin {None, p}
    /\ fate' = [fate EXCEPT ![sending[p]] = "refused"]
    /\ sending' = [sending EXCEPT ![p] = None]
    /\ UNCHANGED <<control, pc, element, lock, queue>>

(* A full queue frees its oldest message; one waiting worker is notified.  *)
PutInsert(p) ==
    /\ lock = p
    /\ queue' = Inserted(queue, sending[p])
    /\ fate' = [m \in Messages |->
                  CASE m = sending[p] -> "queued"
                    [] m # sending[p] /\ Len(queue) = Capacity /\ m = Head(queue) -> "dropped"
                    [] OTHER -> fate[m]]
    /\ IF \E w \in Workers : pc[w] = "wait"
       THEN \E w \in Workers : pc[w] = "wait" /\ Goto(w, "relock")
       ELSE UNCHANGED pc
    /\ sending' = [sending EXCEPT ![p] = None]
    /\ lock' = None
    /\ UNCHANGED <<control, element>>

Producer(p) ==
    \/ \E m \in Messages : Put(p, m)
    \/ PutLock(p) \/ PutTimeout(p) \/ PutInsert(p)

(* The pool is gone and nobody has anything left to send. *)
Terminated ==
    /\ ctl.at = "freed"
    /\ UNCHANGED vars

Next ==
    \/ Controller
    \/ \E w \in Workers : Worker(w)
    \/ \E p \in Producers : Producer(p)
    \/ Terminated

Spec == Init /\ [][Next]_vars

(* The scheduler runs every thread; a mutex that is free again and again   *)
(* is eventually had by each thread that waits for it; the process         *)
(* function returns; a wait ends after its timeout at the latest.  Nobody  *)
(* is made to call the pool.                                               *)
Fairness ==
    /\ WF_vars(SpawnThread) /\ WF_vars(AwaitThread)
    /\ WF_vars(JoinThread) /\ WF_vars(JoinFails)
    /\ \A w \in Workers :
          /\ SF_vars(Acquire(w)) /\ SF_vars(Relock(w))
          /\ WF_vars(Begin(w)) /\ WF_vars(CheckState(w)) /\ WF_vars(PopRead(w))
          /\ WF_vars(PopTake(w)) /\ WF_vars(Wake(w)) /\ WF_vars(Process(w))
          /\ WF_vars(Finish(w))
    /\ \A p \in Producers : WF_vars(PutInsert(p))

FairSpec == Spec /\ Fairness
-----------------------------------------------------------------------------
WorkerLabels == {"none", "begin", "lock", "head", "pop", "take", "wait", "relock",
                 "process", "finish", "ended", "joined"}

TypeOK ==
    /\ poolState \in {"STOPPED", "TO_STOP", "RUNNING"}
    /\ ctl \in [at : {"idle", "spawn", "await", "join", "freed"},
                i : 0 .. NumThreads, call : {"none", "start", "stop", "free"}]
    /\ thread \in [Workers -> {"STOPPED", "STARTING", "RUNNING"}]
    /\ pc \in [Workers -> WorkerLabels]
    /\ element \in [Workers -> Messages \cup {None}]
    /\ lock \in Workers \cup Producers \cup {None}
    /\ queue \in Seq(Messages)
    /\ sending \in [Producers -> Messages \cup {None}]
    /\ fate \in [Messages -> {"unsent", "sending", "refused", "queued", "taken",
                              "done", "dropped"}]

(* The places where thread_run says "in_lock:locked" are exactly those     *)
(* where the worker holds the lock: it never touches the queue without it, *)
(* never unlocks the lock of another, and never ends with it held.  That   *)
(* includes a worker whose wait timed out: pthread_cond_timedwait comes    *)
(* back with the mutex, and thread_run goes on as its holder, although     *)
(* dtn_thread_lock.h:94-95 and the comment at dtn_thread_lock.c:215 say    *)
(* the lock is not locked then.                                            *)
LockDiscipline ==
    \A w \in Workers : lock = w <=> pc[w] \in {"head", "pop", "take"}

(* A message is in the queue, or with one worker, or gone: two workers     *)
(* never process the same message, and none is freed by an overwriting     *)
(* insertion while a worker has it (dtn_thread_loop.h: "All handlers need  *)
(* to free the messages themselves").                                      *)
EachMessageOnePlace ==
    /\ \A m \in Messages : fate[m] = "queued" <=> \E k \in 1 .. Len(queue) : queue[k] = m
    /\ \A j, k \in 1 .. Len(queue) : queue[j] = queue[k] => j = k
    /\ \A w \in Workers : pc[w] = "process" => fate[element[w]] = "taken"
    /\ \A v, w \in Workers :
          pc[v] = "process" /\ pc[w] = "process" /\ element[v] = element[w] => v = w

(* Whenever the pool is stopped - thread_stop has returned true - or freed, *)
(* no thread of it runs: none uses the pool, the queue or the lock after    *)
(* their owner went on to free them.                                        *)
QuietWhenStopped ==
    poolState = "STOPPED" => \A w \in Workers : pc[w] \in {"none", "joined"}

(* A message a worker has taken is processed, also when the pool is asked  *)
(* to stop in between.                                                     *)
TakenIsProcessed ==
    \A m \in Messages : fate[m] = "taken" ~> fate[m] = "done"

(* thread_stop returns, although nobody notifies the waiting workers.      *)
StopReturns == ctl.at = "join" ~> ctl.at # "join"

(* After pthread_create failed, thread_stop cannot join what was never     *)
(* created and puts the state back: a pool that is RUNNING without threads. *)
Deserted ==
    /\ poolState = "RUNNING" /\ ctl.at = "idle"
    /\ \A w \in Workers : pc[w] \in {"none", "joined"}

(* In a running pool no message stays in the queue for ever, whatever      *)
(* notification was missed: it is taken, or given up for newer ones.       *)
QueuedIsTaken ==
    \A m \in Messages :
        fate[m] = "queued" ~> fate[m] # "queued" \/ poolState # "RUNNING" \/ Deserted

-----------------------------------------------------------------------------
(* The pool as its user sees it. *)
Pool == INSTANCE WorkerPool WITH
            phase <- CASE ctl.at = "freed"       -> "gone"
                       [] poolState = "TO_STOP"  -> "stopping"
                       [] poolState = "RUNNING"  -> "running"
                       [] OTHER                  -> "stopped",
            pending <- ToSet(queue),
            active <- {element[w] : w \in {v \in Workers : pc[v] = "process"}}

(* Refinement: threads, lock and condition variable together are a pool    *)
(* that works on each message at most once and is quiet when stopped.      *)
ImplementsWorkerPool == Pool!Spec
=============================================================================
