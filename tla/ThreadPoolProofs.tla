-------------------------- MODULE ThreadPoolProofs --------------------------
(***************************************************************************)
(* Proofs about ThreadPool for any number of threads, producers and        *)
(* messages, and any capacity of the queue.                                *)
(*                                                                         *)
(* That a stopped pool is quiet does not follow from the joins alone: the  *)
(* controller may be in a stop that began in the middle of a failed start, *)
(* and a stop may fail.  StopProgress says what each place of the          *)
(* controller knows about the threads.                                     *)
(***************************************************************************)
EXTENDS ThreadPool, SequenceTheorems, FiniteSetTheorems, TLAPS

(* There is no thread: it was never created, or it was joined. *)
Absent(w) == pc[w] \in {"none", "joined"}

(* What the controller's place says of the pool state and of the threads:  *)
(* the loops of spawn_threads and thread_stop go through them in order.    *)
StopProgress ==
    /\ ctl.at \in {"spawn", "await", "join"} => ctl.i \in Workers
    /\ ctl.at \in {"spawn", "await"} => poolState = "RUNNING"
    /\ ctl.at = "join" <=> poolState = "TO_STOP"
    /\ ctl.at = "freed" => poolState = "STOPPED"
    /\ ctl.at = "spawn" => \A w \in Workers : w >= ctl.i => Absent(w)
    /\ ctl.at = "join" => \A w \in Workers : w < ctl.i => Absent(w)

(* A worker has an element where thread_run has one. *)
HasElement ==
    /\ \A w \in Workers : pc[w] \in {"take", "process"} => element[w] # None
    /\ \A w \in Workers : pc[w] = "take" => queue # <<>>
    /\ \A p \in Producers : lock = p => sending[p] # None

IInv == TypeOK /\ LockDiscipline /\ QuietWhenStopped /\ StopProgress /\ HasElement

LEMMA InitInv == Init => IInv
<1> SUFFICES ASSUME Init PROVE IInv
  OBVIOUS
<1> USE PoolAssumption DEF Init, Idle, Workers
<1>1. TypeOK
  BY DEF TypeOK, WorkerLabels
<1>2. LockDiscipline
  BY DEF LockDiscipline
<1>3. QuietWhenStopped
  BY DEF QuietWhenStopped
<1>4. StopProgress
  BY DEF StopProgress
<1>5. HasElement
  BY DEF HasElement
<1> QED
  BY <1>1, <1>2, <1>3, <1>4, <1>5 DEF IInv
-----------------------------------------------------------------------------
(* The controller.                                                         *)

CtlType == [at : {"idle", "spawn", "await", "join", "freed"},
            i : 0 .. NumThreads, call : {"none", "start", "stop", "free"}]

LEMMA TypeController ==
    ASSUME IInv, Controller
    PROVE  TypeOK'
<1> USE PoolAssumption
<1>1. /\ ctl \in CtlType
      /\ pc \in [Workers -> WorkerLabels]
      /\ thread \in [Workers -> {"STOPPED", "STARTING", "RUNNING"}]
      /\ ctl.at \in {"spawn", "await", "join"} => ctl.i \in 1 .. NumThreads
  BY DEF IInv, TypeOK, CtlType, StopProgress, Workers
<1>2. UNCHANGED <<element, lock, queue, sending, fate>>
  BY DEF Controller, Start, StartAgain, SpawnThread, SpawnFails, AwaitThread,
         Stop, JoinThread, JoinFails, Free
<1>3. poolState' \in {"STOPPED", "TO_STOP", "RUNNING"}
  BY DEF IInv, TypeOK, Controller, Start, StartAgain, SpawnThread, SpawnFails,
         AwaitThread, Stop, JoinThread, JoinFails, Free, BeginJoin
<1>4. thread' \in [Workers -> {"STOPPED", "STARTING", "RUNNING"}]
  BY <1>1 DEF Controller, Start, StartAgain, SpawnThread, SpawnFails,
         AwaitThread, Stop, JoinThread, JoinFails, Free
<1>5. pc' \in [Workers -> WorkerLabels]
  BY <1>1 DEF Controller, Start, StartAgain, SpawnThread, SpawnFails,
         AwaitThread, Stop, JoinThread, JoinFails, Free, WorkerLabels
<1>6. ctl' \in CtlType
  <2>1. CASE Start \/ StartAgain \/ SpawnFails \/ Stop \/ JoinFails \/ Free
    BY <1>1, <2>1 DEF Start, StartAgain, SpawnFails, Stop, JoinFails, Free,
                      BeginJoin, Idle, CtlType
  <2>2. CASE SpawnThread
    <3>1. CASE ctl.i = NumThreads
      <4>1. ctl' = [ctl EXCEPT !.at = "await", !.i = 1]
        BY <2>2, <3>1 DEF SpawnThread, LastThread
      <4>2. 1 \in 0 .. NumThreads
        BY DEF PoolAssumption
      <4> QED
        BY <1>1, <4>1, <4>2 DEF CtlType
    <3>2. CASE ctl.i # NumThreads
      BY <1>1, <2>2, <3>2 DEF SpawnThread, LastThread, CtlType
    <3> QED
      BY <3>1, <3>2
  <2>3. CASE AwaitThread
    BY <1>1, <2>3 DEF AwaitThread, BeginJoin, Idle, LastThread, CtlType
  <2>4. CASE JoinThread
    BY <1>1, <2>4 DEF JoinThread, Idle, LastThread, CtlType
  <2> QED
    BY <2>1, <2>2, <2>3, <2>4 DEF Controller
<1> QED
  BY <1>2, <1>3, <1>4, <1>5, <1>6 DEF IInv, TypeOK, CtlType

LEMMA TypeWorker ==
    ASSUME IInv, NEW w \in Workers, Worker(w)
    PROVE  TypeOK'
<1> USE PoolAssumption
<1>1. /\ pc \in [Workers -> WorkerLabels]
      /\ element \in [Workers -> Messages \cup {None}]
      /\ thread \in [Workers -> {"STOPPED", "STARTING", "RUNNING"}]
      /\ queue \in Seq(Messages)
      /\ lock \in Workers \cup Producers \cup {None}
      /\ fate \in [Messages -> {"unsent", "sending", "refused", "queued", "taken",
                              "done", "dropped"}]
  BY DEF IInv, TypeOK
<1>2. UNCHANGED <<poolState, ctl, sending>>
  BY DEF Worker, Begin, Acquire, AcquireTimeout, CheckState, PopRead, PopTake,
         Wake, Relock, Process, Finish, control
<1>3. thread' \in [Workers -> {"STOPPED", "STARTING", "RUNNING"}]
  BY <1>1 DEF Worker, Begin, Acquire, AcquireTimeout, CheckState, PopRead, PopTake,
         Wake, Relock, Process, Finish, control
<1>4. pc' \in [Workers -> WorkerLabels]
  BY <1>1 DEF Worker, Begin, Acquire, AcquireTimeout, CheckState, PopRead, PopTake,
         Wake, Relock, Process, Finish, Goto, AfterTimeout, AfterPop, WorkerLabels
<1>5. lock' \in Workers \cup Producers \cup {None}
  BY <1>1 DEF Worker, Begin, Acquire, AcquireTimeout, CheckState, PopRead, PopTake,
         Wake, Relock, Process, Finish
<1>6. element' \in [Workers -> Messages \cup {None}]
  <2>1. CASE PopRead(w)
    <3>1. queue # <<>> => Head(queue) \in Messages
      BY <1>1
    <3> QED
      BY <1>1, <2>1, <3>1 DEF PopRead
  <2>2. CASE ~PopRead(w)
    BY <1>1, <2>2 DEF Worker, Begin, Acquire, AcquireTimeout, CheckState, PopTake,
         Wake, Relock, Process, Finish
  <2> QED
    BY <2>1, <2>2
<1>7. queue' \in Seq(Messages) /\ fate' \in [Messages -> {"unsent", "sending", "refused",
                                        "queued", "taken", "done", "dropped"}]
  <2>1. CASE PopTake(w)
    <3>1. queue # <<>>
      BY <2>1 DEF IInv, HasElement, PopTake
    <3>2. queue' \in Seq(Messages)
      BY <1>1, <2>1, <3>1 DEF PopTake
    <3>3. fate' \in [Messages -> {"unsent", "sending", "refused",
                                  "queued", "taken", "done", "dropped"}]
      BY <1>1, <2>1 DEF PopTake
    <3> QED
      BY <3>2, <3>3
  <2>2. CASE ~PopTake(w)
    BY <1>1, <2>2 DEF Worker, Begin, Acquire, AcquireTimeout, CheckState, PopRead,
         Wake, Relock, Process, Finish
  <2> QED
    BY <2>1, <2>2
<1> QED
  BY <1>2, <1>3, <1>4, <1>5, <1>6, <1>7 DEF IInv, TypeOK

LEMMA TypeProducer ==
    ASSUME IInv, NEW p \in Producers, Producer(p)
    PROVE  TypeOK'
<1> USE PoolAssumption
<1>1. /\ pc \in [Workers -> WorkerLabels]
      /\ queue \in Seq(Messages)
      /\ sending \in [Producers -> Messages \cup {None}]
      /\ fate \in [Messages -> {"unsent", "sending", "refused", "queued", "taken",
                              "done", "dropped"}]
  BY DEF IInv, TypeOK
<1>2. UNCHANGED <<poolState, ctl, thread, element>>
  BY DEF Producer, Put, PutLock, PutTimeout, PutInsert, control
<1>3. lock' \in Workers \cup Producers \cup {None}
  BY DEF IInv, TypeOK, Producer, Put, PutLock, PutTimeout, PutInsert
<1>4. sending' \in [Producers -> Messages \cup {None}]
  BY <1>1 DEF Producer, Put, PutLock, PutTimeout, PutInsert
<1>5. pc' \in [Workers -> WorkerLabels]
  BY <1>1 DEF Producer, Put, PutLock, PutTimeout, PutInsert, Goto, WorkerLabels
<1>6. fate' \in [Messages -> {"unsent", "sending", "refused", "queued", "taken",
                            "done", "dropped"}]
  <2>1. CASE \E m \in Messages : Put(p, m)
    BY <1>1, <2>1 DEF Put
  <2>2. CASE PutLock(p)
    BY <1>1, <2>2 DEF PutLock
  <2>3. CASE PutTimeout(p)
    BY <1>1, <2>3 DEF PutTimeout
  <2>4. CASE PutInsert(p)
    BY <1>1, <2>4 DEF PutInsert
  <2> QED
    BY <2>1, <2>2, <2>3, <2>4 DEF Producer
<1>7. queue' \in Seq(Messages)
  <2>1. CASE PutInsert(p)
    <3>1. sending[p] \in Messages
      BY <1>1, <2>1 DEF PutInsert, IInv, HasElement
    <3>2. Len(queue) >= Capacity => queue # <<>>
      BY <1>1 DEF PoolAssumption
    <3> QED
      BY <1>1, <2>1, <3>1, <3>2 DEF PutInsert, Inserted, PoolAssumption
  <2>2. CASE ~PutInsert(p)
    BY <1>1, <2>2 DEF Producer, Put, PutLock, PutTimeout
  <2> QED
    BY <2>1, <2>2
<1> QED
  BY <1>2, <1>3, <1>4, <1>5, <1>6, <1>7 DEF IInv, TypeOK
-----------------------------------------------------------------------------
(* What a step does to the labels of the workers.                          *)

(* A worker's own step moves nobody else, and a worker that is not there   *)
(* takes none.                                                             *)
LEMMA WorkerMoves ==
    ASSUME IInv, NEW w \in Workers, Worker(w)
    PROVE  ~Absent(w) /\ pc' = [pc EXCEPT ![w] = pc'[w]]
<1>1. pc \in [Workers -> WorkerLabels]
  BY DEF IInv, TypeOK
<1> QED
  BY <1>1 DEF Worker, Begin, Acquire, AcquireTimeout, CheckState, PopRead, PopTake,
         Wake, Relock, Process, Finish, Goto, Absent

(* A producer changes the label of a waiting worker at most, to "relock".  *)
LEMMA ProducerMoves ==
    ASSUME IInv, NEW p \in Producers, Producer(p), NEW w \in Workers
    PROVE  pc'[w] = pc[w] \/ (pc[w] = "wait" /\ pc'[w] = "relock")
<1>1. pc \in [Workers -> WorkerLabels]
  BY DEF IInv, TypeOK
<1> QED
  BY <1>1 DEF Producer, Put, PutLock, PutTimeout, PutInsert, Goto

(* The controller creates threads that were not there and joins those that *)
(* have ended.                                                             *)
LEMMA ControllerMoves ==
    ASSUME IInv, Controller, NEW w \in Workers
    PROVE  \/ pc'[w] = pc[w]
           \/ Absent(w) /\ pc'[w] = "begin"
           \/ pc[w] = "ended" /\ pc'[w] = "joined"
<1>1. /\ pc \in [Workers -> WorkerLabels]
      /\ ctl.at \in {"spawn", "await", "join"} => ctl.i \in 1 .. NumThreads
      /\ ctl.at = "spawn" => \A v \in Workers : v >= ctl.i => Absent(v)
  BY DEF IInv, TypeOK, StopProgress, Workers
<1>2. CASE SpawnThread
  <2>1. Absent(ctl.i)
    BY <1>1, <1>2 DEF SpawnThread, Workers
  <2> QED
    BY <1>1, <1>2, <2>1 DEF SpawnThread
<1>3. CASE JoinThread
  BY <1>1, <1>3 DEF JoinThread, MayJoin
<1>4. CASE ~SpawnThread /\ ~JoinThread
  BY <1>4 DEF Controller, Start, StartAgain, SpawnFails, AwaitThread, Stop,
              JoinFails, Free
<1> QED
  BY <1>2, <1>3, <1>4
-----------------------------------------------------------------------------
(* The lock.                                                               *)

LEMMA LockController ==
    ASSUME IInv, Controller
    PROVE  LockDiscipline'
<1>1. lock' = lock
  BY DEF Controller, Start, StartAgain, SpawnThread, SpawnFails, AwaitThread,
         Stop, JoinThread, JoinFails, Free
<1>2. \A w \in Workers : \/ pc'[w] = pc[w]
                         \/ Absent(w) /\ pc'[w] = "begin"
                         \/ pc[w] = "ended" /\ pc'[w] = "joined"
  BY ControllerMoves
<1> QED
  BY <1>1, <1>2 DEF IInv, LockDiscipline, Absent

LEMMA LockWorker ==
    ASSUME IInv, NEW w \in Workers, Worker(w)
    PROVE  LockDiscipline'
<1> USE PoolAssumption
<1>1. /\ pc \in [Workers -> WorkerLabels]
      /\ \A v \in Workers : lock = v <=> pc[v] \in {"head", "pop", "take"}
      /\ None \notin Workers
  BY DEF IInv, TypeOK, LockDiscipline, Workers
<1>2. CASE Begin(w) \/ AcquireTimeout(w) \/ Wake(w) \/ Process(w) \/ Finish(w)
  BY <1>1, <1>2 DEF Begin, AcquireTimeout, Wake, Process, Finish, Goto,
                    AfterTimeout, LockDiscipline
<1>3. CASE Acquire(w) \/ Relock(w)
  BY <1>1, <1>3 DEF Acquire, Relock, Goto, LockDiscipline
<1>4. CASE CheckState(w) \/ PopRead(w) \/ PopTake(w)
  BY <1>1, <1>4 DEF CheckState, PopRead, PopTake, Goto, AfterPop, LockDiscipline
<1> QED
  BY <1>2, <1>3, <1>4 DEF Worker

LEMMA LockProducer ==
    ASSUME IInv, NEW p \in Producers, Producer(p)
    PROVE  LockDiscipline'
<1> USE PoolAssumption
<1>1. /\ \A v \in Workers : lock = v <=> pc[v] \in {"head", "pop", "take"}
      /\ None \notin Workers /\ p \notin Workers
  BY DEF IInv, LockDiscipline, Workers
<1>2. \A w \in Workers : pc'[w] = pc[w] \/ (pc[w] = "wait" /\ pc'[w] = "relock")
  BY ProducerMoves
<1>3. lock' = lock \/ (lock \notin Workers /\ lock' \notin Workers)
  BY <1>1 DEF Producer, Put, PutLock, PutTimeout, PutInsert
<1> QED
  BY <1>1, <1>2, <1>3 DEF LockDiscipline
-----------------------------------------------------------------------------
(* What the controller knows of the threads.                               *)

LEMMA StopController ==
    ASSUME IInv, Controller
    PROVE  QuietWhenStopped' /\ StopProgress'
<1> USE PoolAssumption
<1>1. /\ pc \in [Workers -> WorkerLabels] /\ ctl \in CtlType
      /\ poolState = "STOPPED" => \A w \in Workers : Absent(w)
      /\ StopProgress /\ 1 \in Workers
  BY DEF IInv, TypeOK, CtlType, QuietWhenStopped, Absent, Workers
<1>2. CASE Start
  BY <1>1, <1>2 DEF Start, QuietWhenStopped, StopProgress, Absent
<1>3. CASE StartAgain \/ SpawnFails \/ Stop
  BY <1>1, <1>3 DEF StartAgain, SpawnFails, Stop, BeginJoin, QuietWhenStopped,
                    StopProgress, Absent, Workers
<1>4. CASE SpawnThread
  BY <1>1, <1>4 DEF SpawnThread, LastThread, QuietWhenStopped, StopProgress,
                    Absent, Workers, CtlType
<1>5. CASE AwaitThread
  BY <1>1, <1>5 DEF AwaitThread, BeginJoin, Idle, LastThread, QuietWhenStopped,
                    StopProgress, Absent, Workers, CtlType
<1>6. CASE JoinThread
  <2>1. /\ ctl.at = "join" /\ ctl.i \in Workers /\ pc'[ctl.i] = "joined"
        /\ \A w \in Workers : Absent(w) => Absent(w)'
    BY <1>1, <1>6 DEF JoinThread, MayJoin, StopProgress, Absent
  <2>2. \A w \in Workers : w <= ctl.i => Absent(w)'
    BY <1>1, <2>1 DEF StopProgress, Absent, Workers
  <2>3. CASE ctl.i < NumThreads
    <3>1. poolState' = poolState /\ ctl' = [ctl EXCEPT !.i = ctl.i + 1]
      BY <1>6, <2>3 DEF JoinThread, LastThread
    <3>2. ctl'.at = "join" /\ ctl'.i = ctl.i + 1
      BY <1>1, <2>1, <3>1 DEF CtlType
    <3> QED
      BY <1>1, <2>1, <2>2, <2>3, <3>1, <3>2 DEF StopProgress, QuietWhenStopped,
                                                Workers
  <2>4. CASE ctl.i >= NumThreads
    <3>1. poolState' = "STOPPED" /\ ctl'.at \in {"freed", "idle"}
      BY <1>1, <1>6, <2>1, <2>4 DEF JoinThread, LastThread, Workers, Idle, CtlType
    <3>2. \A w \in Workers : Absent(w)'
      BY <2>2, <2>4, <2>1 DEF Workers
    <3> QED
      BY <3>1, <3>2 DEF StopProgress, QuietWhenStopped, Absent
  <2> QED
    BY <2>1, <2>3, <2>4 DEF Workers
<1>7. CASE JoinFails \/ Free
  BY <1>1, <1>7 DEF JoinFails, Free, Idle, QuietWhenStopped, StopProgress, Absent
<1> QED
  BY <1>2, <1>3, <1>4, <1>5, <1>6, <1>7 DEF Controller

LEMMA StopOthers ==
    ASSUME IInv, UNCHANGED <<poolState, ctl>>, \A w \in Workers : Absent(w) => Absent(w)'
    PROVE  QuietWhenStopped' /\ StopProgress'
  BY DEF IInv, QuietWhenStopped, StopProgress, Absent
-----------------------------------------------------------------------------
(* The messages in the hands of the threads.                               *)

LEMMA ElementController ==
    ASSUME IInv, Controller
    PROVE  HasElement'
<1>1. UNCHANGED <<element, lock, queue, sending>>
  BY DEF Controller, Start, StartAgain, SpawnThread, SpawnFails, AwaitThread,
         Stop, JoinThread, JoinFails, Free
<1>2. \A w \in Workers : \/ pc'[w] = pc[w]
                         \/ Absent(w) /\ pc'[w] = "begin"
                         \/ pc[w] = "ended" /\ pc'[w] = "joined"
  BY ControllerMoves
<1> QED
  BY <1>1, <1>2 DEF IInv, HasElement

LEMMA ElementWorker ==
    ASSUME IInv, NEW w \in Workers, Worker(w)
    PROVE  HasElement'
<1> USE PoolAssumption
<1>1. /\ pc \in [Workers -> WorkerLabels]
      /\ element \in [Workers -> Messages \cup {None}]
      /\ queue \in Seq(Messages)
      /\ HasElement /\ LockDiscipline
      /\ \A p \in Producers : p \notin Workers /\ p # None
  BY DEF IInv, TypeOK, Workers
<1>2. sending' = sending /\ (lock' = lock \/ lock' \notin Producers)
  BY <1>1 DEF Worker, Begin, Acquire, AcquireTimeout, CheckState, PopRead, PopTake,
         Wake, Relock, Process, Finish, control
<1>3. CASE PopRead(w)
  <2>1. CASE queue = <<>>
    BY <1>1, <1>2, <1>3, <2>1 DEF PopRead, Goto, HasElement
  <2>2. CASE queue # <<>>
    <3>1. Head(queue) \in Messages /\ None \notin Messages
      BY <1>1, <2>2
    <3>2. /\ pc' = [pc EXCEPT ![w] = "take"] /\ queue' = queue
          /\ element' = [element EXCEPT ![w] = Head(queue)]
      BY <1>3, <2>2 DEF PopRead, Goto
    <3> QED
      BY <1>1, <1>2, <2>2, <3>1, <3>2 DEF HasElement
  <2> QED
    BY <2>1, <2>2
<1>4. CASE PopTake(w)
  <2>1. \A v \in Workers : pc[v] = "take" => v = w
    BY <1>1, <1>4 DEF PopTake, LockDiscipline
  <2>2. pc' = [pc EXCEPT ![w] = "process"] /\ element' = element
    BY <1>4 DEF PopTake, Goto, AfterPop
  <2>3. element[w] # None
    BY <1>1, <1>4 DEF PopTake, HasElement
  <2> QED
    BY <1>1, <1>2, <2>1, <2>2, <2>3 DEF HasElement
<1>5. CASE ~PopRead(w) /\ ~PopTake(w)
  <2>1. queue' = queue
    BY <1>5 DEF Worker, Begin, Acquire, AcquireTimeout, CheckState, Wake, Relock,
                Process, Finish
  <2>2. pc' = [pc EXCEPT ![w] = pc'[w]] /\ pc'[w] \notin {"take", "process"}
    BY <1>1, <1>5 DEF Worker, Begin, Acquire, AcquireTimeout, CheckState, Wake,
                      Relock, Process, Finish, Goto, AfterTimeout
  <2>3. \A v \in Workers : v # w => element'[v] = element[v]
    BY <1>1, <1>5 DEF Worker, Begin, Acquire, AcquireTimeout, CheckState, Wake,
                      Relock, Process, Finish
  <2> QED
    BY <1>1, <1>2, <2>1, <2>2, <2>3 DEF HasElement
<1> QED
  BY <1>3, <1>4, <1>5

LEMMA ElementProducer ==
    ASSUME IInv, NEW p \in Producers, Producer(p)
    PROVE  HasElement'
<1> USE PoolAssumption
<1>1. /\ sending \in [Producers -> Messages \cup {None}]
      /\ queue \in Seq(Messages)
      /\ HasElement /\ LockDiscipline
      /\ p \notin Workers /\ None \notin Messages \cup Producers
  BY DEF IInv, TypeOK, Workers
<1>2. \A w \in Workers : pc'[w] = pc[w] \/ (pc[w] = "wait" /\ pc'[w] = "relock")
  BY ProducerMoves
<1>3. element' = element
  BY DEF Producer, Put, PutLock, PutTimeout, PutInsert
<1>4. \A w \in Workers : pc'[w] = "take" => queue' # <<>>
  <2>1. CASE PutInsert(p)
    BY <1>1, <1>2, <2>1 DEF PutInsert, LockDiscipline
  <2>2. CASE ~PutInsert(p)
    BY <1>1, <1>2, <2>2 DEF Producer, Put, PutLock, PutTimeout, HasElement
  <2> QED
    BY <2>1, <2>2
<1>5. \A q \in Producers : lock' = q => sending'[q] # None
  BY <1>1 DEF Producer, Put, PutLock, PutTimeout, PutInsert, HasElement
<1> QED
  BY <1>1, <1>2, <1>3, <1>4, <1>5 DEF HasElement
-----------------------------------------------------------------------------
LEMMA NextInv == IInv /\ [Next]_vars => IInv'
<1> SUFFICES ASSUME IInv, [Next]_vars
             PROVE  IInv'
  OBVIOUS
<1>1. CASE Controller
  BY <1>1, TypeController, LockController, StopController, ElementController DEF IInv
<1>2. ASSUME NEW w \in Workers, Worker(w)
      PROVE  IInv'
  <2>1. UNCHANGED <<poolState, ctl>>
    BY <1>2 DEF Worker, Begin, Acquire, AcquireTimeout, CheckState, PopRead,
                PopTake, Wake, Relock, Process, Finish, control
  <2>2. \A v \in Workers : Absent(v) => Absent(v)'
    BY <1>2, WorkerMoves DEF IInv, TypeOK, Absent
  <2> QED
    BY <1>2, <2>1, <2>2, TypeWorker, LockWorker, StopOthers, ElementWorker DEF IInv
<1>3. ASSUME NEW p \in Producers, Producer(p)
      PROVE  IInv'
  <2>1. UNCHANGED <<poolState, ctl>>
    BY <1>3 DEF Producer, Put, PutLock, PutTimeout, PutInsert, control
  <2>2. \A v \in Workers : Absent(v) => Absent(v)'
    BY <1>3, ProducerMoves DEF Absent
  <2> QED
    BY <1>3, <2>1, <2>2, TypeProducer, LockProducer, StopOthers, ElementProducer DEF IInv
<1>4. CASE UNCHANGED vars
  BY <1>4 DEF vars, IInv, TypeOK, LockDiscipline, QuietWhenStopped, StopProgress,
              HasElement, Absent
<1> QED
  BY <1>1, <1>2, <1>3, <1>4 DEF Next, Terminated

LEMMA Invariance == Spec => []IInv
  BY InitInv, NextInv, PTL DEF Spec
-----------------------------------------------------------------------------
(* Every variable keeps its type, for any number of threads: in particular *)
(* the loops over the threads never leave the array of ThreadInfo, and a   *)
(* popped element is a message.                                            *)
THEOREM PoolTypeCorrect == Spec => []TypeOK
<1>1. IInv => TypeOK
  BY DEF IInv
<1> QED
  BY <1>1, Invariance, PTL

(* Whatever times out and in whatever order, a worker holds the lock of    *)
(* the queue exactly where thread_run believes that it does; in particular *)
(* two workers are never between the check of the state and the end of a   *)
(* pop at the same time.                                                   *)
THEOREM LockRespected == Spec => []LockDiscipline
<1>1. IInv => LockDiscipline
  BY DEF IInv
<1> QED
  BY <1>1, Invariance, PTL

(* A pool that says it is STOPPED has no thread left, also when the stop   *)
(* was the error path of a failed start, when an earlier stop failed, and  *)
(* when the pool is freed without being stopped.                           *)
THEOREM StoppedIsQuiet == Spec => []QuietWhenStopped
<1>1. IInv => QuietWhenStopped
  BY DEF IInv
<1> QED
  BY <1>1, Invariance, PTL
-----------------------------------------------------------------------------
(* Every message in one place.                                             *)

(* Between the two halves of a pop the queue still starts with what the    *)
(* worker read, and a message on its way to the queue is with one producer.*)
InTransit ==
    /\ \A w \in Workers : pc[w] = "take" => element[w] = Head(queue)
    /\ \A p \in Producers : sending[p] # None => fate[sending[p]] = "sending"
    /\ \A p, q \in Producers :
          sending[p] # None /\ sending[p] = sending[q] => p = q
    /\ Len(queue) <= Capacity

PlaceInv == EachMessageOnePlace /\ InTransit

(* What the two changes of the queue do to a queue that holds nothing twice. *)
LEMMA TailOfQueue ==
    ASSUME NEW q \in Seq(Messages), q # <<>>,
           \A j, k \in 1 .. Len(q) : q[j] = q[k] => j = k
    PROVE  /\ Tail(q) \in Seq(Messages) /\ Head(q) \in Messages
           /\ \A j, k \in 1 .. Len(Tail(q)) : Tail(q)[j] = Tail(q)[k] => j = k
           /\ \A m \in Messages :
                 (\E k \in 1 .. Len(Tail(q)) : Tail(q)[k] = m)
                 <=> m # Head(q) /\ (\E k \in 1 .. Len(q) : q[k] = m)
<1>1. /\ Head(q) \in Messages /\ Tail(q) \in Seq(Messages)
      /\ Len(Tail(q)) = Len(q) - 1
      /\ \A i \in 1 .. Len(Tail(q)) : Tail(q)[i] = q[i + 1]
  BY HeadTailProperties
<1>2. Len(q) \in Nat /\ Len(q) >= 1 /\ Head(q) = q[1]
  OBVIOUS
<1>3. ASSUME NEW m \in Messages
      PROVE  (\E k \in 1 .. Len(Tail(q)) : Tail(q)[k] = m)
             <=> m # Head(q) /\ (\E k \in 1 .. Len(q) : q[k] = m)
  <2>1. ASSUME NEW k \in 1 .. Len(Tail(q)), Tail(q)[k] = m
        PROVE  m # Head(q) /\ (\E j \in 1 .. Len(q) : q[j] = m)
    <3>1. k + 1 \in 1 .. Len(q) /\ 1 \in 1 .. Len(q) /\ k + 1 # 1 /\ q[k + 1] = m
      BY <1>1, <1>2, <2>1
    <3> QED
      BY <1>2, <3>1
  <2>2. ASSUME m # Head(q), NEW k \in 1 .. Len(q), q[k] = m
        PROVE  \E j \in 1 .. Len(Tail(q)) : Tail(q)[j] = m
    <3>1. k - 1 \in 1 .. Len(Tail(q)) /\ (k - 1) + 1 = k
      BY <1>1, <1>2, <2>2
    <3> QED
      BY <1>1, <2>2, <3>1
  <2> QED
    BY <2>1, <2>2
<1>4. ASSUME NEW j \in 1 .. Len(Tail(q)), NEW k \in 1 .. Len(Tail(q)),
             Tail(q)[j] = Tail(q)[k]
      PROVE  j = k
  <2>1. j + 1 \in 1 .. Len(q) /\ k + 1 \in 1 .. Len(q) /\ q[j + 1] = q[k + 1]
    BY <1>1, <1>2, <1>4
  <2> QED
    BY <1>1, <1>2, <2>1
<1> QED
  BY <1>1, <1>3, <1>4

LEMMA AppendToQueue ==
    ASSUME NEW q \in Seq(Messages), NEW e \in Messages,
           \A k \in 1 .. Len(q) : q[k] # e,
           \A j, k \in 1 .. Len(q) : q[j] = q[k] => j = k
    PROVE  /\ \A j, k \in 1 .. Len(Append(q, e)) :
                 Append(q, e)[j] = Append(q, e)[k] => j = k
           /\ \A m \in Messages :
                 (\E k \in 1 .. Len(Append(q, e)) : Append(q, e)[k] = m)
                 <=> m = e \/ (\E k \in 1 .. Len(q) : q[k] = m)
<1>1. /\ Len(Append(q, e)) = Len(q) + 1 /\ Len(q) \in Nat
      /\ \A i \in 1 .. Len(q) : Append(q, e)[i] = q[i]
      /\ Append(q, e)[Len(q) + 1] = e
  BY AppendProperties
<1>2. \A i \in 1 .. Len(q) + 1 : i \in 1 .. Len(q) \/ i = Len(q) + 1
  BY <1>1
<1>3. \A i \in 1 .. Len(q) : i \in 1 .. Len(q) + 1
  BY <1>1
<1>4. Len(q) + 1 \in 1 .. Len(q) + 1
  BY <1>1
<1> QED
  BY <1>1, <1>2, <1>3, <1>4

(* The queue after an insertion, full or not. *)
LEMMA InsertIntoQueue ==
    ASSUME NEW q \in Seq(Messages), NEW e \in Messages,
           \A k \in 1 .. Len(q) : q[k] # e,
           \A j, k \in 1 .. Len(q) : q[j] = q[k] => j = k,
           Len(q) <= Capacity
    PROVE  /\ \A j, k \in 1 .. Len(Inserted(q, e)) :
                 Inserted(q, e)[j] = Inserted(q, e)[k] => j = k
           /\ Len(Inserted(q, e)) <= Capacity
           /\ \A m \in Messages :
                 (\E k \in 1 .. Len(Inserted(q, e)) : Inserted(q, e)[k] = m)
                 <=> \/ m = e
                     \/ /\ \E k \in 1 .. Len(q) : q[k] = m
                        /\ ~(Len(q) = Capacity /\ m = Head(q))
<1> USE PoolAssumption
<1>1. CASE Len(q) < Capacity
  <2>1. Inserted(q, e) = Append(q, e) /\ Len(q) # Capacity
    BY <1>1 DEF Inserted
  <2>2. Len(Append(q, e)) <= Capacity
    BY <1>1
  <2> QED
    BY <2>1, <2>2, AppendToQueue
<1>2. CASE ~(Len(q) < Capacity)
  <2>1. q # <<>> /\ Len(q) = Capacity /\ Inserted(q, e) = Append(Tail(q), e)
    BY <1>2 DEF Inserted
  <2>2. /\ Tail(q) \in Seq(Messages)
        /\ \A j, k \in 1 .. Len(Tail(q)) : Tail(q)[j] = Tail(q)[k] => j = k
        /\ \A m \in Messages :
              (\E k \in 1 .. Len(Tail(q)) : Tail(q)[k] = m)
              <=> m # Head(q) /\ (\E k \in 1 .. Len(q) : q[k] = m)
    BY <2>1, TailOfQueue
  <2>3. \A k \in 1 .. Len(Tail(q)) : Tail(q)[k] # e
    BY <2>2
  <2>4. Len(Append(Tail(q), e)) <= Capacity
    BY <2>1
  <2>5. /\ \A j, k \in 1 .. Len(Append(Tail(q), e)) :
              Append(Tail(q), e)[j] = Append(Tail(q), e)[k] => j = k
        /\ \A m \in Messages :
              (\E k \in 1 .. Len(Append(Tail(q), e)) : Append(Tail(q), e)[k] = m)
              <=> m = e \/ (\E k \in 1 .. Len(Tail(q)) : Tail(q)[k] = m)
    BY <2>2, <2>3, AppendToQueue
  <2> QED
    BY <2>1, <2>2, <2>4, <2>5
<1> QED
  BY <1>1, <1>2
-----------------------------------------------------------------------------
LEMMA InitPlace == Init => PlaceInv
  BY PoolAssumption DEF Init, PlaceInv, EachMessageOnePlace, InTransit

LEMMA PlaceController ==
    ASSUME IInv, PlaceInv, Controller
    PROVE  PlaceInv'
<1>1. UNCHANGED <<element, queue, sending, fate>>
  BY DEF Controller, Start, StartAgain, SpawnThread, SpawnFails, AwaitThread,
         Stop, JoinThread, JoinFails, Free
<1>2. \A w \in Workers : \/ pc'[w] = pc[w]
                         \/ Absent(w) /\ pc'[w] = "begin"
                         \/ pc[w] = "ended" /\ pc'[w] = "joined"
  BY ControllerMoves
<1> QED
  BY <1>1, <1>2 DEF PlaceInv, EachMessageOnePlace, InTransit

LEMMA PlaceWorker ==
    ASSUME IInv, PlaceInv, NEW w \in Workers, Worker(w)
    PROVE  PlaceInv'
<1> USE PoolAssumption
<1>1. /\ pc \in [Workers -> WorkerLabels]
      /\ element \in [Workers -> Messages \cup {None}]
      /\ sending \in [Producers -> Messages \cup {None}]
      /\ queue \in Seq(Messages)
      /\ DOMAIN fate = Messages
  BY DEF IInv, TypeOK
<1>2. sending' = sending
  BY DEF Worker, Begin, Acquire, AcquireTimeout, CheckState, PopRead, PopTake,
         Wake, Relock, Process, Finish
<1>3. CASE PopRead(w)
  <2>1. fate' = fate /\ queue' = queue
    BY <1>3 DEF PopRead
  <2>2. /\ pc' = [pc EXCEPT ![w] = pc'[w]] /\ pc'[w] \in {"wait", "take"}
        /\ element' = [element EXCEPT ![w] = element'[w]]
        /\ pc'[w] = "take" => element'[w] = Head(queue)
    BY <1>1, <1>3 DEF PopRead, Goto
  <2> QED
    BY <1>1, <1>2, <2>1, <2>2 DEF PlaceInv, EachMessageOnePlace, InTransit
<1>4. CASE PopTake(w)
  <2> DEFINE e == element[w]
  <2>1. /\ queue # <<>> /\ e = Head(queue) /\ queue' = Tail(queue)
        /\ fate' = [fate EXCEPT ![e] = "taken"] /\ element' = element
        /\ pc' = [pc EXCEPT ![w] = "process"]
    BY <1>4 DEF PopTake, Goto, AfterPop, IInv, HasElement, PlaceInv, InTransit
  <2>2. /\ Tail(queue) \in Seq(Messages) /\ Head(queue) \in Messages
        /\ \A j, k \in 1 .. Len(Tail(queue)) :
              Tail(queue)[j] = Tail(queue)[k] => j = k
        /\ \A m \in Messages :
              (\E k \in 1 .. Len(Tail(queue)) : Tail(queue)[k] = m)
              <=> m # Head(queue) /\ (\E k \in 1 .. Len(queue) : queue[k] = m)
    BY <1>1, <2>1, TailOfQueue DEF PlaceInv, EachMessageOnePlace
  <2>3. fate[e] = "queued"
    <3>1. 1 \in 1 .. Len(queue) /\ queue[1] = e
      BY <1>1, <2>1
    <3> QED
      BY <2>1, <2>2, <3>1 DEF PlaceInv, EachMessageOnePlace
  <2>4. \A v \in Workers : pc[v] = "process" => element[v] # e
    BY <2>3 DEF PlaceInv, EachMessageOnePlace
  <2>5. \A v \in Workers : pc[v] = "take" => v = w
    BY <1>1, <1>4 DEF PopTake, IInv, LockDiscipline
  <2>6. \A p \in Producers : sending[p] # None => sending[p] # e
    BY <2>3 DEF PlaceInv, InTransit
  <2>7. Len(queue') <= Capacity
    BY <1>1, <2>1 DEF PlaceInv, InTransit
  <2>8. EachMessageOnePlace'
    <3>1. \A m \in Messages :
             fate'[m] = "queued" <=> \E k \in 1 .. Len(queue') : queue'[k] = m
      BY <1>1, <2>1, <2>2 DEF PlaceInv, EachMessageOnePlace
    <3>2. \A v \in Workers : pc'[v] = "process" => fate'[element'[v]] = "taken"
      BY <1>1, <2>1, <2>2, <2>4 DEF PlaceInv, EachMessageOnePlace
    <3>3. \A v, u \in Workers : pc'[v] = "process" /\ pc'[u] = "process"
                                /\ element'[v] = element'[u] => v = u
      BY <1>1, <2>1, <2>4 DEF PlaceInv, EachMessageOnePlace
    <3> QED
      BY <2>1, <2>2, <3>1, <3>2, <3>3 DEF EachMessageOnePlace
  <2>9. InTransit'
    BY <1>1, <1>2, <2>1, <2>5, <2>6, <2>7 DEF PlaceInv, InTransit
  <2> QED
    BY <2>8, <2>9 DEF PlaceInv
<1>5. CASE Process(w)
  <2> DEFINE e == element[w]
  <2>1. /\ fate[e] = "taken" /\ queue' = queue /\ pc[w] = "process"
        /\ fate' = [fate EXCEPT ![e] = "done"]
        /\ element' = [element EXCEPT ![w] = None]
        /\ pc' = [pc EXCEPT ![w] = "lock"]
    BY <1>5 DEF Process, Goto, PlaceInv, EachMessageOnePlace
  <2>2. \A v \in Workers : pc[v] = "process" /\ v # w => element[v] # e
    BY <2>1 DEF PlaceInv, EachMessageOnePlace
  <2>3. \A p \in Producers : sending[p] # None => sending[p] # e
    BY <2>1 DEF PlaceInv, InTransit
  <2>4. \A m \in Messages : fate'[m] = "queued" <=> fate[m] = "queued"
    BY <1>1, <2>1
  <2>5. \A m \in Messages : m # e => fate'[m] = fate[m]
    BY <1>1, <2>1
  <2>6. e \in Messages /\ \A v \in Workers : element[v] # None => element[v] \in Messages
    BY <1>1, <1>5 DEF Process, IInv, HasElement
  <2>7. \A v \in Workers : pc[v] = "process" => element[v] # None
    BY DEF IInv, HasElement
  <2>8. EachMessageOnePlace'
    BY <1>1, <2>1, <2>2, <2>4, <2>5, <2>6, <2>7 DEF PlaceInv, EachMessageOnePlace
  <2>9. InTransit'
    BY <1>1, <1>2, <2>1, <2>3, <2>5 DEF PlaceInv, InTransit
  <2> QED
    BY <2>8, <2>9 DEF PlaceInv
<1>6. CASE ~PopRead(w) /\ ~PopTake(w) /\ ~Process(w)
  <2>1. UNCHANGED <<element, queue, fate>>
    BY <1>6 DEF Worker, Begin, Acquire, AcquireTimeout, CheckState, Wake, Relock, Finish
  <2>2. pc' = [pc EXCEPT ![w] = pc'[w]] /\ pc'[w] \notin {"take", "process"}
    BY <1>1, <1>6 DEF Worker, Begin, Acquire, AcquireTimeout, CheckState, Wake,
                      Relock, Finish, Goto, AfterTimeout
  <2> QED
    BY <1>1, <1>2, <2>1, <2>2 DEF PlaceInv, EachMessageOnePlace, InTransit
<1> QED
  BY <1>3, <1>4, <1>5, <1>6

LEMMA PlaceProducer ==
    ASSUME IInv, PlaceInv, NEW p \in Producers, Producer(p)
    PROVE  PlaceInv'
<1> USE PoolAssumption
<1>1. /\ sending \in [Producers -> Messages \cup {None}]
      /\ element \in [Workers -> Messages \cup {None}]
      /\ queue \in Seq(Messages)
      /\ DOMAIN fate = Messages
      /\ None \notin Messages
      /\ \A v \in Workers : pc[v] \in {"take", "process"} => element[v] # None
  BY DEF IInv, TypeOK, HasElement
<1>2. /\ \A w \in Workers : pc'[w] \in {"take", "process"} => pc'[w] = pc[w]
      /\ element' = element
  BY ProducerMoves DEF Producer, Put, PutLock, PutTimeout, PutInsert
<1>3. ASSUME NEW m \in Messages, Put(p, m)
      PROVE  PlaceInv'
  <2>1. /\ queue' = queue /\ fate[m] = "unsent" /\ sending[p] = None
        /\ fate' = [fate EXCEPT ![m] = "sending"]
        /\ sending' = [sending EXCEPT ![p] = m]
    BY <1>3 DEF Put
  <2>2. \A v \in Workers : pc[v] = "process" => element[v] # m
    BY <2>1 DEF PlaceInv, EachMessageOnePlace
  <2>3. \A q \in Producers : sending[q] # None => sending[q] # m
    BY <2>1 DEF PlaceInv, InTransit
  <2>4. EachMessageOnePlace'
    BY <1>1, <1>2, <2>1, <2>2 DEF PlaceInv, EachMessageOnePlace
  <2>5. InTransit'
    BY <1>1, <1>2, <2>1, <2>3 DEF PlaceInv, InTransit
  <2> QED
    BY <2>4, <2>5 DEF PlaceInv
<1>4. CASE PutLock(p)
  BY <1>1, <1>2, <1>4 DEF PutLock, PlaceInv, EachMessageOnePlace, InTransit
<1>5. CASE PutTimeout(p)
  <2> DEFINE e == sending[p]
  <2>1. /\ queue' = queue /\ fate[e] = "sending" /\ e \in Messages
        /\ fate' = [fate EXCEPT ![e] = "refused"]
        /\ sending' = [sending EXCEPT ![p] = None]
    BY <1>1, <1>5 DEF PutTimeout, PlaceInv, InTransit
  <2>2. \A v \in Workers : pc[v] = "process" => element[v] # e
    BY <2>1 DEF PlaceInv, EachMessageOnePlace
  <2>3. \A q \in Producers : sending[q] # None /\ q # p => sending[q] # e
    BY <1>1, <2>1 DEF PlaceInv, InTransit
  <2>4. EachMessageOnePlace'
    BY <1>1, <1>2, <2>1, <2>2 DEF PlaceInv, EachMessageOnePlace
  <2>5. InTransit'
    BY <1>1, <1>2, <2>1, <2>3 DEF PlaceInv, InTransit
  <2> QED
    BY <2>4, <2>5 DEF PlaceInv
<1>6. CASE PutInsert(p)
  <2> DEFINE e == sending[p]
             dropped(m) == Len(queue) = Capacity /\ m = Head(queue)
  <2>1. /\ fate[e] = "sending" /\ e \in Messages
        /\ queue' = Inserted(queue, e)
        /\ sending' = [sending EXCEPT ![p] = None]
    BY <1>1, <1>6 DEF PutInsert, PlaceInv, InTransit, IInv, HasElement
  <2>2. DOMAIN fate' = Messages /\ fate'[e] = "queued"
    BY <1>6, <2>1 DEF PutInsert
  <2>3. ASSUME NEW m \in Messages, m # e
        PROVE  fate'[m] = IF dropped(m) THEN "dropped" ELSE fate[m]
    BY <1>6, <2>3 DEF PutInsert
  <2>4. /\ \A j, k \in 1 .. Len(queue) : queue[j] = queue[k] => j = k
        /\ \A k \in 1 .. Len(queue) : queue[k] # e
        /\ Len(queue) <= Capacity
    BY <2>1 DEF PlaceInv, EachMessageOnePlace, InTransit
  <2>5. /\ \A j, k \in 1 .. Len(queue') : queue'[j] = queue'[k] => j = k
        /\ Len(queue') <= Capacity
        /\ \A m \in Messages :
              (\E k \in 1 .. Len(queue') : queue'[k] = m)
              <=> m = e \/ ((\E k \in 1 .. Len(queue) : queue[k] = m) /\ ~dropped(m))
    BY <1>1, <2>1, <2>4, InsertIntoQueue, SMTT(30)
  <2>6. \A m \in Messages :
           fate'[m] = "queued" <=> \E k \in 1 .. Len(queue') : queue'[k] = m
    BY <2>2, <2>3, <2>5 DEF PlaceInv, EachMessageOnePlace
  <2>7. \A m \in Messages : dropped(m) => fate[m] = "queued"
    <3>1. Len(queue) = Capacity => 1 \in 1 .. Len(queue) /\ queue[1] = Head(queue)
      BY <1>1
    <3> QED
      BY <3>1 DEF PlaceInv, EachMessageOnePlace
  <2>8. \A m \in Messages : fate[m] \in {"taken", "sending"} /\ m # e => fate'[m] = fate[m]
    BY <2>3, <2>7
  <2>9. \A v \in Workers : pc[v] = "process" => element[v] \in Messages /\ element[v] # e
    BY <1>1, <2>1 DEF PlaceInv, EachMessageOnePlace
  <2>10. \A w \in Workers : pc'[w] # "take"
    BY <1>2, <1>6 DEF PutInsert, IInv, LockDiscipline, Workers
  <2>11. \A q \in Producers : sending[q] # None /\ q # p => sending[q] # e
    BY <1>1, <2>1 DEF PlaceInv, InTransit
  <2>12. EachMessageOnePlace'
    BY <1>2, <2>5, <2>6, <2>8, <2>9 DEF PlaceInv, EachMessageOnePlace
  <2>13. InTransit'
    BY <1>1, <2>1, <2>5, <2>8, <2>10, <2>11 DEF PlaceInv, InTransit
  <2> QED
    BY <2>12, <2>13 DEF PlaceInv
<1> QED
  BY <1>3, <1>4, <1>5, <1>6 DEF Producer

LEMMA PlaceInvariance == Spec => []PlaceInv
<1>1. IInv /\ PlaceInv /\ [Next]_vars => PlaceInv'
  <2>1. CASE UNCHANGED vars
    BY <2>1 DEF vars, PlaceInv, EachMessageOnePlace, InTransit
  <2> QED
    BY <2>1, PlaceController, PlaceWorker, PlaceProducer DEF Next, Terminated
<1> QED
  BY <1>1, InitPlace, Invariance, PTL DEF Spec

(* With any number of workers and producers a message is in the queue, or  *)
(* in the hands of one worker, or gone: no two workers process the same    *)
(* message, and none that a worker has is freed by an overwriting insert.  *)
THEOREM MessageInOnePlace == Spec => []EachMessageOnePlace
<1>1. PlaceInv => EachMessageOnePlace
  BY DEF PlaceInv
<1> QED
  BY <1>1, PlaceInvariance, PTL
-----------------------------------------------------------------------------
(***************************************************************************)
(* The proof that ThreadPool implements WorkerPool, for any number of      *)
(* threads, producers and messages: every step of a thread is a step of    *)
(* the abstract pool or leaves what its user sees as it was.               *)
(***************************************************************************)

(* What the user sees of a state: the substitution of Pool, by name.       *)
Phase == CASE ctl.at = "freed"       -> "gone"
           [] poolState = "TO_STOP"  -> "stopping"
           [] poolState = "RUNNING"  -> "running"
           [] OTHER                  -> "stopped"
Pending == ToSet(queue)
Processing == {v \in Workers : pc[v] = "process"}
Active == {element[w] : w \in Processing}

(* The actions of WorkerPool on these. *)
AbsStart == Phase = "stopped" /\ Phase' = "running" /\ Pending' = Pending /\ Active' = Active
AbsStop == Phase = "running" /\ Phase' = "stopping" /\ Pending' = Pending /\ Active' = Active
AbsStopped == /\ Phase = "stopping" /\ Active = {} /\ Phase' \in {"stopped", "gone"}
              /\ Pending' = Pending /\ Active' = Active
AbsStopFails == /\ Phase = "stopping" /\ Phase' = "running"
                /\ Pending' = Pending /\ Active' = Active
AbsFree == Phase = "stopped" /\ Phase' = "gone" /\ Pending' = Pending /\ Active' = Active
AbsSubmit(m) == /\ m \notin Pending \cup Active
                /\ \/ Pending' = Pending \cup {m}
                   \/ \E old \in Pending : Pending' = (Pending \ {old}) \cup {m}
                /\ Phase' = Phase /\ Active' = Active
AbsTake(m) == /\ Phase \in {"running", "stopping"} /\ m \in Pending
              /\ Cardinality(Active) < NumThreads
              /\ Pending' = Pending \ {m} /\ Active' = Active \cup {m}
              /\ Phase' = Phase
AbsFinish(m) == /\ m \in Active /\ Active' = Active \ {m}
                /\ Phase' = Phase /\ Pending' = Pending
AbsStutter == Phase' = Phase /\ Pending' = Pending /\ Active' = Active
AbsNext == \/ \E m \in Messages : AbsSubmit(m) \/ AbsTake(m) \/ AbsFinish(m)
           \/ AbsStart \/ AbsStop \/ AbsStopped \/ AbsStopFails \/ AbsFree

(* WorkerPool has its own instance of FiniteSets. *)
LEMMA SameCardinality == \A S : Pool!Cardinality(S) = Cardinality(S)
  BY DEF Pool!Cardinality, Cardinality

LEMMA AbsIsPool == AbsNext \/ AbsStutter => [Pool!Next]_(Pool!vars)
<1>1. AbsStutter => UNCHANGED Pool!vars
  BY DEF AbsStutter, Phase, Pending, Active, Processing, Pool!vars
<1>2. AbsStart => Pool!Start
  BY DEF AbsStart, Phase, Pending, Active, Processing, Pool!Start
<1>3. AbsStop => Pool!BeginStop
  BY DEF AbsStop, Phase, Pending, Active, Processing, Pool!BeginStop
<1>4. AbsStopped => Pool!EndStop
  BY DEF AbsStopped, Phase, Pending, Active, Processing, Pool!EndStop
<1>5. AbsStopFails => Pool!StopFails
  BY DEF AbsStopFails, Phase, Pending, Active, Processing, Pool!StopFails
<1>6. AbsFree => Pool!Free
  BY DEF AbsFree, Phase, Pending, Active, Processing, Pool!Free
<1>7. ASSUME NEW m \in Messages
      PROVE  /\ AbsSubmit(m) => Pool!Submit(m)
             /\ AbsTake(m) => Pool!Take(m)
             /\ AbsFinish(m) => Pool!Finish(m)
  <2>1. AbsSubmit(m) => Pool!Submit(m)
    BY DEF AbsSubmit, Phase, Pending, Active, Processing, Pool!Submit
  <2>2. AbsTake(m) => Pool!Take(m)
    BY SameCardinality DEF AbsTake, Phase, Pending, Active, Processing, Pool!Take
  <2>3. AbsFinish(m) => Pool!Finish(m)
    BY DEF AbsFinish, Phase, Pending, Active, Processing, Pool!Finish
  <2> QED
    BY <2>1, <2>2, <2>3
<1> QED
  BY <1>1, <1>2, <1>3, <1>4, <1>5, <1>6, <1>7 DEF AbsNext, Pool!Next
-----------------------------------------------------------------------------
LEMMA SetOfQueue ==
    ASSUME NEW q \in Seq(Messages)
    PROVE  ToSet(q) = {m \in Messages : \E k \in 1 .. Len(q) : q[k] = m}
<1>1. DOMAIN q = 1 .. Len(q) /\ \A k \in 1 .. Len(q) : q[k] \in Messages
  OBVIOUS
<1> QED
  BY <1>1 DEF ToSet

(* While one of the workers does not process a message, fewer than         *)
(* NumThreads messages are being processed.                                *)
LEMMA ActiveBound ==
    ASSUME NEW w \in Workers, pc[w] # "process"
    PROVE  Cardinality(Active) < NumThreads
<1> USE PoolAssumption
<1>1. IsFiniteSet(Workers) /\ Cardinality(Workers) = NumThreads
  BY FS_Interval DEF Workers
<1>2. IsFiniteSet(Workers \ {w}) /\ Cardinality(Workers \ {w}) = NumThreads - 1
  BY <1>1, FS_RemoveElement
<1>3. Processing \in SUBSET (Workers \ {w})
  BY DEF Processing
<1>4. IsFiniteSet(Processing) /\ Cardinality(Processing) <= NumThreads - 1
  BY <1>2, <1>3, FS_Subset
<1>5. [v \in Processing |-> element[v]] \in Surjection(Processing, Active)
  BY DEF Active, Surjection
<1>6. IsFiniteSet(Active) /\ Cardinality(Active) <= Cardinality(Processing)
  BY <1>4, <1>5, FS_Surjection
<1>7. Cardinality(Active) \in Nat /\ Cardinality(Processing) \in Nat
  BY <1>4, <1>6, FS_CardinalityType
<1> QED
  BY <1>4, <1>6, <1>7
-----------------------------------------------------------------------------
LEMMA ControllerSimulates ==
    ASSUME IInv, Controller
    PROVE  AbsNext \/ AbsStutter
<1> USE PoolAssumption
<1>1. element' = element /\ queue' = queue
  BY DEF Controller, Start, StartAgain, SpawnThread, SpawnFails, AwaitThread,
         Stop, JoinThread, JoinFails, Free
<1>2. \A w \in Workers : pc'[w] = "process" <=> pc[w] = "process"
  BY ControllerMoves DEF Absent
<1>3. Pending' = Pending /\ Active' = Active
  BY <1>1, <1>2 DEF Pending, Active, Processing
<1>4. /\ ctl \in CtlType /\ StopProgress /\ StopProgress' /\ QuietWhenStopped'
      /\ poolState \in {"STOPPED", "TO_STOP", "RUNNING"}
  BY StopController DEF IInv, TypeOK, CtlType
<1>5. CASE Start
  BY <1>3, <1>4, <1>5 DEF Start, AbsNext, AbsStart, Phase
<1>6. CASE StartAgain \/ SpawnFails \/ Stop
  BY <1>3, <1>4, <1>6 DEF StartAgain, SpawnFails, Stop, BeginJoin, StopProgress,
                          AbsNext, AbsStop, Phase
<1>7. CASE SpawnThread
  BY <1>3, <1>4, <1>7 DEF SpawnThread, AbsStutter, Phase, CtlType
<1>8. CASE AwaitThread
  BY <1>3, <1>4, <1>8 DEF AwaitThread, BeginJoin, Idle, StopProgress, AbsNext, AbsStop,
                          AbsStutter, Phase, CtlType
<1>9. CASE JoinThread
  <2>1. CASE ctl.i < LastThread
    BY <1>3, <1>4, <1>9, <2>1 DEF JoinThread, AbsStutter, Phase, CtlType
  <2>2. CASE ~(ctl.i < LastThread)
    <3>1. /\ ctl.at = "join" /\ poolState = "TO_STOP" /\ poolState' = "STOPPED"
          /\ ctl'.at \in {"idle", "freed"}
      BY <1>4, <1>9, <2>2 DEF JoinThread, Idle, StopProgress, CtlType
    <3>2. Active' = {}
      BY <1>4, <3>1 DEF QuietWhenStopped, Active, Processing
    <3> QED
      BY <1>3, <3>1, <3>2 DEF AbsNext, AbsStopped, Phase
  <2> QED
    BY <2>1, <2>2
<1>10. CASE JoinFails
  BY <1>3, <1>4, <1>10 DEF JoinFails, Idle, StopProgress, AbsNext, AbsStopFails, Phase
<1>11. CASE Free
  BY <1>3, <1>4, <1>11 DEF Free, Idle, AbsNext, AbsFree, Phase
<1> QED
  BY <1>5, <1>6, <1>7, <1>8, <1>9, <1>10, <1>11 DEF Controller

LEMMA WorkerSimulates ==
    ASSUME IInv, PlaceInv, NEW w \in Workers, Worker(w)
    PROVE  AbsNext \/ AbsStutter
<1> USE PoolAssumption
<1>1. /\ pc \in [Workers -> WorkerLabels]
      /\ element \in [Workers -> Messages \cup {None}]
      /\ queue \in Seq(Messages)
      /\ poolState \in {"STOPPED", "TO_STOP", "RUNNING"}
  BY DEF IInv, TypeOK
<1>2. Phase' = Phase
  BY DEF Worker, Begin, Acquire, AcquireTimeout, CheckState, PopRead, PopTake,
         Wake, Relock, Process, Finish, control, Phase
<1>3. CASE PopTake(w)
  <2> DEFINE e == element[w]
  <2>1. /\ queue # <<>> /\ e = Head(queue) /\ queue' = Tail(queue)
        /\ element' = element /\ pc[w] = "take"
        /\ pc' = [pc EXCEPT ![w] = "process"]
    BY <1>3 DEF PopTake, Goto, AfterPop, IInv, HasElement, PlaceInv, InTransit
  <2>2. /\ Tail(queue) \in Seq(Messages) /\ e \in Messages
        /\ \A m \in Messages :
              (\E k \in 1 .. Len(Tail(queue)) : Tail(queue)[k] = m)
              <=> m # e /\ (\E k \in 1 .. Len(queue) : queue[k] = m)
    <3>1. \A j, k \in 1 .. Len(queue) : queue[j] = queue[k] => j = k
      BY DEF PlaceInv, EachMessageOnePlace
    <3>2. queue \in Seq(Messages) /\ queue # <<>>
      BY <1>1, <2>1
    <3>3. e = Head(queue)
      BY <2>1
    <3> HIDE DEF e
    <3> QED
      BY <3>1, <3>2, <3>3, TailOfQueue, Zenon
  <2>3. Pending' = Pending \ {e} /\ e \in Pending
    <3>1. 1 \in 1 .. Len(queue) /\ queue[1] = e
      BY <1>1, <2>1
    <3>2. /\ Pending = {m \in Messages : \E k \in 1 .. Len(queue) : queue[k] = m}
          /\ Pending' = {m \in Messages :
                            \E k \in 1 .. Len(Tail(queue)) : Tail(queue)[k] = m}
      BY <1>1, <2>1, <2>2, SetOfQueue DEF Pending
    <3> QED
      BY <2>2, <3>1, <3>2
  <2>4. Active' = Active \cup {e}
    BY <1>1, <2>1 DEF Active, Processing
  <2>5. Cardinality(Active) < NumThreads
    BY <2>1, ActiveBound
  <2>6. Phase \in {"running", "stopping"}
    <3>1. poolState # "STOPPED"
      BY <2>1 DEF IInv, QuietWhenStopped
    <3> QED
      BY <1>1, <3>1 DEF IInv, StopProgress, Phase
  <2> QED
    BY <1>2, <2>2, <2>3, <2>4, <2>5, <2>6 DEF AbsNext, AbsTake
<1>4. CASE Process(w)
  <2> DEFINE e == element[w]
  <2>1. /\ pc[w] = "process" /\ queue' = queue /\ e \in Messages
        /\ element' = [element EXCEPT ![w] = None]
        /\ pc' = [pc EXCEPT ![w] = "lock"]
    BY <1>1, <1>4 DEF Process, Goto, IInv, HasElement
  <2>2. \A v \in Processing : element[v] = e => v = w
    BY <2>1 DEF Processing, PlaceInv, EachMessageOnePlace
  <2>3. Processing' = Processing \ {w} /\ w \in Processing
    BY <1>1, <2>1 DEF Processing
  <2>4. \A v \in Processing : v # w => element'[v] = element[v]
    BY <1>1, <2>1 DEF Processing
  <2>5. Active' = Active \ {e} /\ e \in Active
    BY <2>2, <2>3, <2>4 DEF Active
  <2> QED
    BY <1>2, <2>1, <2>5 DEF AbsNext, AbsFinish, Pending
<1>5. CASE ~PopTake(w) /\ ~Process(w)
  <2>1. queue' = queue
    BY <1>5 DEF Worker, Begin, Acquire, AcquireTimeout, CheckState, PopRead, Wake,
                Relock, Finish
  <2>2. /\ pc' = [pc EXCEPT ![w] = pc'[w]]
        /\ pc[w] # "process" /\ pc'[w] # "process"
    BY <1>1, <1>5 DEF Worker, Begin, Acquire, AcquireTimeout, CheckState, PopRead,
                      Wake, Relock, Finish, Goto, AfterTimeout
  <2>3. Processing' = Processing /\ w \notin Processing
    BY <1>1, <2>2 DEF Processing
  <2>4. \A v \in Workers : v # w => element'[v] = element[v]
    BY <1>1, <1>5 DEF Worker, Begin, Acquire, AcquireTimeout, CheckState, PopRead,
                      Wake, Relock, Finish
  <2>5. Active' = Active
    BY <2>3, <2>4 DEF Active, Processing
  <2> QED
    BY <1>2, <2>1, <2>5 DEF AbsStutter, Pending
<1> QED
  BY <1>3, <1>4, <1>5

LEMMA ProducerSimulates ==
    ASSUME IInv, PlaceInv, NEW p \in Producers, Producer(p)
    PROVE  AbsNext \/ AbsStutter
<1> USE PoolAssumption
<1>1. /\ queue \in Seq(Messages) /\ queue' \in Seq(Messages)
      /\ sending \in [Producers -> Messages \cup {None}]
  BY TypeProducer DEF IInv, TypeOK
<1>2. Phase' = Phase /\ element' = element
  BY DEF Producer, Put, PutLock, PutTimeout, PutInsert, control, Phase
<1>3. \A w \in Workers : pc'[w] = "process" <=> pc[w] = "process"
  BY ProducerMoves
<1>4. Active' = Active
  BY <1>2, <1>3 DEF Active, Processing
<1>5. CASE PutInsert(p)
  <2> DEFINE e == sending[p]
  <2>1. /\ fate[e] = "sending" /\ e \in Messages /\ queue' = Inserted(queue, e)
    BY <1>1, <1>5 DEF PutInsert, PlaceInv, InTransit, IInv, HasElement
  <2>2. /\ \A j, k \in 1 .. Len(queue) : queue[j] = queue[k] => j = k
        /\ \A k \in 1 .. Len(queue) : queue[k] # e
        /\ Len(queue) <= Capacity
    BY <2>1 DEF PlaceInv, EachMessageOnePlace, InTransit
  <2>3. \A m \in Messages :
           (\E k \in 1 .. Len(queue') : queue'[k] = m)
           <=> \/ m = e
               \/ /\ \E k \in 1 .. Len(queue) : queue[k] = m
                  /\ ~(Len(queue) = Capacity /\ m = Head(queue))
    <3>1. \A m \in Messages :
             (\E k \in 1 .. Len(Inserted(queue, e)) : Inserted(queue, e)[k] = m)
             <=> \/ m = e
                 \/ /\ \E k \in 1 .. Len(queue) : queue[k] = m
                    /\ ~(Len(queue) = Capacity /\ m = Head(queue))
      BY <1>1, <2>1, <2>2, InsertIntoQueue
    <3> QED
      BY <2>1, <3>1
  <2>4. /\ Pending = {m \in Messages : \E k \in 1 .. Len(queue) : queue[k] = m}
        /\ Pending' = {m \in Messages : \E k \in 1 .. Len(queue') : queue'[k] = m}
    BY <1>1, SetOfQueue DEF Pending
  <2>5. e \notin Pending
    BY <2>2, <2>4
  <2>6. e \notin Active
    BY <2>1 DEF Active, Processing, PlaceInv, EachMessageOnePlace
  <2>7. Len(queue) # Capacity => Pending' = Pending \cup {e}
    BY <2>1, <2>3, <2>4
  <2>8. Len(queue) = Capacity =>
           Head(queue) \in Pending /\ Pending' = (Pending \ {Head(queue)}) \cup {e}
    <3>1. Len(queue) = Capacity =>
             1 \in 1 .. Len(queue) /\ queue[1] = Head(queue) /\ Head(queue) \in Messages
      BY <1>1
    <3>2. Len(queue) = Capacity => Head(queue) \in Pending /\ Head(queue) # e
      BY <2>2, <2>4, <3>1
    <3> QED
      BY <2>1, <2>3, <2>4, <3>2
  <2>9. AbsSubmit(e)
    BY <1>2, <1>4, <2>5, <2>6, <2>7, <2>8 DEF AbsSubmit
  <2> QED
    BY <2>1, <2>9 DEF AbsNext
<1>6. CASE ~PutInsert(p)
  <2>1. queue' = queue
    BY <1>6 DEF Producer, Put, PutLock, PutTimeout
  <2> QED
    BY <1>2, <1>4, <2>1 DEF AbsStutter, Pending
<1> QED
  BY <1>5, <1>6
-----------------------------------------------------------------------------
(* The threads, the lock and the condition variable together keep the      *)
(* promises of WorkerPool: what was submitted is processed at most once,   *)
(* at most NumThreads messages at a time, none after the pool stopped, and *)
(* a full queue gives up one message for a new one.                        *)
THEOREM PoolRefinement == Spec => ImplementsWorkerPool
<1>1. Init => Pool!Init
  BY PoolAssumption DEF Init, Idle, Pool!Init, ToSet
<1>2. IInv /\ PlaceInv /\ [Next]_vars => [Pool!Next]_(Pool!vars)
  <2> SUFFICES ASSUME IInv, PlaceInv, [Next]_vars
               PROVE  AbsNext \/ AbsStutter
    BY AbsIsPool
  <2>1. CASE UNCHANGED vars
    BY <2>1 DEF vars, AbsStutter, Phase, Pending, Active, Processing
  <2> QED
    BY <2>1, ControllerSimulates, WorkerSimulates, ProducerSimulates DEF Next, Terminated
<1> QED
  BY <1>1, <1>2, Invariance, PlaceInvariance, PTL DEF Spec, ImplementsWorkerPool, Pool!Spec
=============================================================================
