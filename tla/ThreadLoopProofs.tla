-------------------------- MODULE ThreadLoopProofs --------------------------
(***************************************************************************)
(* Proofs about ThreadLoop for any messages, any number of threads and any *)
(* capacity of the queue and of the socket pair.                           *)
(***************************************************************************)
EXTENDS ThreadLoop, FiniteSetTheorems, SequenceTheorems, TLAPS

LoopStates ==
    [at : {"poll", "lock", "pop", "handle", "join", "gone"},
     msg : Messages \cup {None},
     call : {"none", "stop", "reconfigure", "free"}]

TypeOK ==
    /\ phase \in {"stopped", "running", "stopping", "gone"}
    /\ pending \in SUBSET Messages
    /\ active \in SUBSET Messages
    /\ step \in [Messages -> {"none", "handle", "insert", "write"}]
    /\ queueOn \in BOOLEAN
    /\ loopQueue \in Seq(Messages)
    /\ socket \in Seq(Messages)
    /\ lock \in Messages \cup {None, Loop}
    /\ loop \in LoopStates
    /\ fate \in [Messages -> {"fresh", "to_threads", "to_loop", "freed"}]
    /\ missed \in BOOLEAN /\ torn \in BOOLEAN

(* What the place of the event loop thread says of its message and of the  *)
(* pool.                                                                   *)
LoopPlace ==
    /\ loop.msg # None <=> loop.at = "handle"
    /\ loop.at = "join" <=> phase = "stopping"
    /\ loop.at = "gone" <=> phase = "gone"
    /\ phase \in {"stopped", "gone"} => active = {}
    /\ ~queueOn => loopQueue = <<>>

(* A message is with the pool or with a handler; who is active has a step, *)
(* and the lock is held where the code holds it.                           *)
Holders ==
    /\ IsFiniteSet(active)
    /\ pending \cap active = {}
    /\ \A m \in Messages : step[m] = "none" <=> m \notin active
    /\ \A m \in Messages : lock = m <=> step[m] = "insert"
    /\ lock = Loop <=> loop.at = "pop"

IInv == TypeOK /\ LoopPlace /\ Holders

LEMMA InitIInv == Init => IInv
<1> SUFFICES ASSUME Init PROVE IInv
  OBVIOUS
<1> USE LoopAssumption DEF Init, Pool!Init, Polling, LoopStates
<1>0. <<>> \in Seq(Messages)
  BY EmptySeq
<1>1. TypeOK
  BY <1>0 DEF TypeOK
<1>2. LoopPlace
  BY DEF LoopPlace
<1>3. Holders
  BY FS_EmptySet DEF Holders
<1> QED
  BY <1>1, <1>2, <1>3 DEF IInv
-----------------------------------------------------------------------------
(* The queue after an insertion. *)
LEMMA RoomIsMade ==
    ASSUME NEW q \in Seq(Messages), NEW m \in Messages
    PROVE  /\ MakeRoom(q) \in Seq(Messages)
           /\ Append(MakeRoom(q), m) \in Seq(Messages)
           /\ Len(Append(MakeRoom(q), m)) <= Len(q) + 1
           /\ q # <<>> => Head(q) \in Messages /\ Tail(q) \in Seq(Messages)
           /\ q # <<>> => Len(Tail(q)) = Len(q) - 1
           /\ Len(q) >= LoopCapacity => q # <<>>
<1> USE LoopAssumption
<1>0. Len(q) \in Nat /\ LoopCapacity \in Nat /\ LoopCapacity # 0
  BY LenProperties
<1>1. q # <<>> => Head(q) \in Messages /\ Tail(q) \in Seq(Messages) /\ Len(Tail(q)) = Len(q) - 1
  BY HeadTailProperties
<1>2. Len(q) >= LoopCapacity => q # <<>>
  BY <1>0
<1>3. MakeRoom(q) \in Seq(Messages) /\ Len(MakeRoom(q)) \in Nat /\ Len(MakeRoom(q)) <= Len(q)
  <2>1. CASE Len(q) < LoopCapacity
    BY <2>1, <1>0 DEF MakeRoom
  <2>2. CASE ~(Len(q) < LoopCapacity)
    <3>1. q # <<>> /\ MakeRoom(q) = Tail(q)
      BY <2>2, <1>0, <1>2 DEF MakeRoom
    <3>2. Len(Tail(q)) \in Nat
      BY <3>1, <1>1, LenProperties
    <3> QED
      BY <3>1, <3>2, <1>1, <1>0
  <2> QED
    BY <2>1, <2>2
<1>4. Append(MakeRoom(q), m) \in Seq(Messages) /\ Len(Append(MakeRoom(q), m)) = Len(MakeRoom(q)) + 1
  BY <1>3, AppendProperties
<1> QED
  BY <1>0, <1>1, <1>2, <1>3, <1>4

LEMMA PoolActive ==
    ASSUME IsFiniteSet(active), NEW m \in Messages
    PROVE  IsFiniteSet(active \cup {m}) /\ IsFiniteSet(active \ {m})
<1>1. IsFiniteSet(active \cup {m})
  BY FS_AddElement
<1>2. IsFiniteSet(active \ {m})
  BY FS_RemoveElement
<1> QED
  BY <1>1, <1>2

LEMMA StepKeepsIInv == IInv /\ [Next]_vars => IInv'
<1> SUFFICES ASSUME IInv, [Next]_vars PROVE IInv'
  OBVIOUS
<1> USE LoopAssumption DEF IInv, LoopStates
<1>1. ASSUME NEW m \in Messages, SendToThreads(m) PROVE IInv'
  <2> USE <1>1 DEF SendToThreads, Pool!Submit, Freed
  <2>1. TypeOK'
    BY DEF TypeOK
  <2>2. LoopPlace' /\ Holders'
    BY DEF LoopPlace, Holders
  <2> QED
    BY <2>1, <2>2
<1>2. ASSUME NEW m \in Messages, Take(m) PROVE IInv'
  <2> USE <1>2 DEF Take, Pool!Take
  <2>1. TypeOK'
    BY DEF TypeOK
  <2>2. LoopPlace'
    BY DEF LoopPlace
  <2>3. Holders'
    BY PoolActive DEF Holders, TypeOK
  <2> QED
    BY <2>1, <2>2, <2>3
<1>3. ASSUME NEW m \in Messages, Handle(m) \/ SendLockTimeout(m) PROVE IInv'
  <2> USE <1>3 DEF Handle, SendLockTimeout, FreeAndReturn, Pool!Finish, Freed
  <2>1. TypeOK'
    BY DEF TypeOK
  <2>2. LoopPlace'
    BY DEF LoopPlace
  <2>3. Holders'
    BY PoolActive DEF Holders, TypeOK
  <2> QED
    BY <2>1, <2>2, <2>3
<1>4. ASSUME NEW m \in Messages, SendLock(m) PROVE IInv'
  <2> USE <1>4 DEF SendLock, poolVars
  <2>1. TypeOK'
    BY DEF TypeOK
  <2>2. LoopPlace'
    BY DEF LoopPlace
  <2>3. Holders'
    BY DEF Holders, TypeOK
  <2> QED
    BY <2>1, <2>2, <2>3
<1>5. ASSUME NEW m \in Messages, SendInsert(m) PROVE IInv'
  <2>0. /\ step[m] = "insert" /\ lock' = None
        /\ UNCHANGED <<queueOn, socket, loop, missed, torn>>
    BY <1>5 DEF SendInsert
  <2>1. CASE queueOn
    <3>1. /\ loopQueue' = Append(MakeRoom(loopQueue), m)
          /\ fate' = [Freed(IF Len(loopQueue) < LoopCapacity THEN {} ELSE {Head(loopQueue)})
                         EXCEPT ![m] = "to_loop"]
          /\ step' = [step EXCEPT ![m] = "write"]
          /\ UNCHANGED poolVars
      BY <2>1, <1>5 DEF SendInsert
    <3>2. loopQueue' \in Seq(Messages)
      BY <3>1, RoomIsMade DEF TypeOK
    <3>3. TypeOK'
      BY <2>0, <3>1, <3>2 DEF TypeOK, Freed, poolVars
    <3>4. LoopPlace' /\ Holders'
      BY <2>0, <2>1, <3>1 DEF LoopPlace, Holders, poolVars, TypeOK
    <3> QED
      BY <3>3, <3>4
  <2>2. CASE ~queueOn
    <3>1. FreeAndReturn(m) /\ UNCHANGED loopQueue
      BY <2>2, <1>5 DEF SendInsert
    <3>2. TypeOK'
      BY <2>0, <3>1 DEF TypeOK, FreeAndReturn, Pool!Finish, Freed
    <3>3. LoopPlace'
      BY <2>0, <3>1 DEF LoopPlace, FreeAndReturn, Pool!Finish
    <3>4. Holders'
      BY <2>0, <3>1, PoolActive DEF Holders, FreeAndReturn, Pool!Finish, TypeOK
    <3> QED
      BY <3>2, <3>3, <3>4
  <2> QED
    BY <2>1, <2>2
<1>6. ASSUME NEW m \in Messages, SendWrite(m) PROVE IInv'
  <2> USE <1>6 DEF SendWrite, Pool!Finish
  <2>0. Append(socket, m) \in Seq(Messages)
    BY AppendProperties DEF TypeOK
  <2>1. TypeOK'
    BY <2>0 DEF TypeOK
  <2>2. LoopPlace'
    BY DEF LoopPlace
  <2>3. Holders'
    BY PoolActive DEF Holders, TypeOK
  <2> QED
    BY <2>1, <2>2, <2>3
<1>7. ASSUME NEW m \in Messages, SendWriteFails(m) PROVE IInv'
  <2> USE <1>7 DEF SendWriteFails, FreeAndReturn, Pool!Finish, Freed
  <2>1. TypeOK'
    BY DEF TypeOK
  <2>2. LoopPlace'
    BY DEF LoopPlace
  <2>3. Holders'
    BY PoolActive DEF Holders, TypeOK
  <2> QED
    BY <2>1, <2>2, <2>3
<1>8. CASE LoopRead
  <2> USE <1>8 DEF LoopRead, Unread, poolVars
  <2>0. Head(socket) \in Messages /\ Tail(socket) \in Seq(Messages)
    BY HeadTailProperties DEF TypeOK
  <2>4. loop' \in LoopStates
    <3>1. CASE queueOn
      BY <3>1 DEF TypeOK
    <3>2. CASE ~queueOn
      <4> DEFINE msg == Head(socket)
      <4>1. msg \in Messages
        BY <2>0
      <4>2. loop' = [loop EXCEPT !.at = "handle", !.msg = msg]
        BY <3>2
      <4> HIDE DEF msg
      <4> QED
        BY <4>1, <4>2 DEF TypeOK
    <3> QED
      BY <3>1, <3>2
  <2>1. TypeOK'
    BY <2>0, <2>4 DEF TypeOK
  <2>2. LoopPlace'
    BY <2>0 DEF LoopPlace, TypeOK, LoopStates
  <2>3. Holders'
    BY DEF Holders, TypeOK, LoopStates
  <2> QED
    BY <2>1, <2>2, <2>3
<1>9. CASE LoopLock
  <2> USE <1>9 DEF LoopLock, poolVars
  <2>0. loop' \in LoopStates
    BY DEF TypeOK
  <2>1. TypeOK'
    BY <2>0 DEF TypeOK
  <2>2. LoopPlace'
    BY DEF LoopPlace, TypeOK
  <2>3. Holders'
    BY DEF Holders, TypeOK
  <2> QED
    BY <2>1, <2>2, <2>3
<1>16. CASE LoopLockTimeout
  <2> USE <1>16 DEF LoopLockTimeout, Polling, poolVars
  <2>0. loop' \in LoopStates
    OBVIOUS
  <2>1. TypeOK'
    BY <2>0 DEF TypeOK
  <2>2. LoopPlace'
    BY DEF LoopPlace, TypeOK
  <2>3. Holders'
    BY DEF Holders, TypeOK
  <2> QED
    BY <2>1, <2>2, <2>3
<1>10. CASE LoopPop
  <2>0. loopQueue # <<>> => Head(loopQueue) \in Messages /\ Tail(loopQueue) \in Seq(Messages)
    BY HeadTailProperties DEF TypeOK
  <2>1. /\ loop.at = "pop"
        /\ lock' = None
        /\ UNCHANGED <<phase, pending, active, step, queueOn, socket, fate, missed, torn>>
    BY <1>10 DEF LoopPop, AfterPop, poolVars
  <2>2. CASE loopQueue = <<>>
    <3>1. loop' = [loop EXCEPT !.at = "poll", !.msg = None] /\ loopQueue' = loopQueue
      BY <1>10, <2>2 DEF LoopPop, HandleIfAny
    <3>2. TypeOK'
      BY <2>1, <3>1 DEF TypeOK
    <3>3. LoopPlace' /\ Holders'
      BY <2>1, <3>1 DEF LoopPlace, Holders, TypeOK
    <3> QED
      BY <3>2, <3>3
  <2>3. CASE loopQueue # <<>>
    <3>0. PICK msg \in Messages, rest \in Seq(Messages) :
             msg = Head(loopQueue) /\ rest = Tail(loopQueue)
      BY <2>0, <2>3
    <3>1. loop' = [loop EXCEPT !.at = "handle", !.msg = msg] /\ loopQueue' = rest
      BY <1>10, <2>3, <3>0 DEF LoopPop, HandleIfAny
    <3>2. TypeOK'
      BY <2>1, <3>1 DEF TypeOK
    <3>3. LoopPlace' /\ Holders'
      BY <2>1, <2>3, <3>1 DEF LoopPlace, Holders, TypeOK
    <3> QED
      BY <3>2, <3>3
  <2> QED
    BY <2>2, <2>3
<1>11. CASE LoopHandle
  <2> USE <1>11 DEF LoopHandle, Polling, poolVars
  <2>0. fate' \in [Messages -> {"fresh", "to_threads", "to_loop", "freed"}]
    BY DEF TypeOK, Freed
  <2>1. TypeOK'
    BY <2>0 DEF TypeOK
  <2>2. LoopPlace' /\ Holders'
    BY DEF LoopPlace, TypeOK, Holders
  <2> QED
    BY <2>1, <2>2
<1>12. CASE StartThreads
  <2> USE <1>12 DEF StartThreads, Pool!Start
  <2>1. TypeOK'
    BY DEF TypeOK
  <2>2. LoopPlace' /\ Holders'
    BY DEF LoopPlace, Holders
  <2> QED
    BY <2>1, <2>2
<1>13. CASE BeginStop
  <2> USE <1>13 DEF BeginStop, Pool!BeginStop
  <2>0. loop' \in LoopStates
    BY DEF TypeOK
  <2>1. TypeOK'
    BY <2>0 DEF TypeOK
  <2>2. LoopPlace'
    BY DEF LoopPlace, TypeOK
  <2>3. Holders'
    BY DEF Holders, TypeOK
  <2> QED
    BY <2>1, <2>2, <2>3
<1>17. CASE StopThreads
  <2> USE <1>17 DEF StopThreads, Pool!EndStop, Polling
  <2>0. loop' \in LoopStates
    OBVIOUS
  <2>1. TypeOK'
    BY <2>0 DEF TypeOK
  <2>2. LoopPlace'
    BY DEF LoopPlace, TypeOK
  <2>3. Holders'
    BY DEF Holders, TypeOK
  <2> QED
    BY <2>1, <2>2, <2>3
<1>14. CASE Reconfigure
  <2> USE <1>14 DEF Reconfigure, PoolDown, Polling
  <2>0. loop' \in LoopStates
    OBVIOUS
  <2>4. <<>> \in Seq(Messages)
    BY EmptySeq
  <2>5. fate' \in [Messages -> {"fresh", "to_threads", "to_loop", "freed"}]
    BY DEF TypeOK, Freed
  <2>1. TypeOK'
    BY <2>0, <2>4, <2>5 DEF TypeOK, Freed
  <2>2. LoopPlace'
    BY DEF LoopPlace, TypeOK
  <2>3. Holders'
    BY DEF Holders, TypeOK
  <2> QED
    BY <2>1, <2>2, <2>3
<1>18. CASE Free
  <2> USE <1>18 DEF Free, PoolDown, Polling
  <2>0. loop' \in LoopStates
    OBVIOUS
  <2>4. <<>> \in Seq(Messages)
    BY EmptySeq
  <2>5. fate' \in [Messages -> {"fresh", "to_threads", "to_loop", "freed"}]
    BY DEF TypeOK, Freed
  <2>1. TypeOK'
    BY <2>0, <2>4, <2>5 DEF TypeOK, Freed
  <2>2. LoopPlace'
    BY DEF LoopPlace, TypeOK
  <2>3. Holders'
    BY DEF Holders, TypeOK
  <2> QED
    BY <2>1, <2>2, <2>3
<1>15. CASE UNCHANGED vars
  <2> USE <1>15 DEF vars
  <2>1. TypeOK'
    BY DEF TypeOK
  <2>2. LoopPlace' /\ Holders'
    BY DEF LoopPlace, Holders
  <2> QED
    BY <2>1, <2>2
<1> QED
  BY <1>1, <1>2, <1>3, <1>4, <1>5, <1>6, <1>7, <1>8, <1>9, <1>10, <1>11, <1>12, <1>13,
     <1>14, <1>15, <1>16, <1>17, <1>18 DEF Next, SendToLoop, LoopThread, Terminated

LEMMA PlacesCorrect == Spec => []IInv
<1>1. Init => IInv
  BY InitIInv
<1>2. IInv /\ [Next]_vars => IInv'
  BY StepKeepsIInv
<1> QED
  BY <1>1, <1>2, PTL DEF Spec
-----------------------------------------------------------------------------
(* Tokens.                                                                 *)

Writers == {m \in Messages : step[m] = "write"}

BeingRead == IF loop.at \in {"lock", "pop"} THEN 1 ELSE 0

LEMMA TokensAreCounted ==
    TokenForEachMessage <=>
        missed \/ torn \/ Len(loopQueue) <= Len(socket) + Cardinality(Writers) + BeingRead
  BY DEF TokenForEachMessage, Writers, BeingRead

LEMMA WritersAreFinite ==
    IInv => /\ Writers \subseteq active
            /\ IsFiniteSet(Writers) /\ Cardinality(Writers) \in Nat
<1> SUFFICES ASSUME IInv PROVE Writers \subseteq active /\ IsFiniteSet(Writers) /\ Cardinality(Writers) \in Nat
  OBVIOUS
<1>1. Writers \subseteq active /\ IsFiniteSet(active)
  BY DEF IInv, Holders, Writers
<1>2. IsFiniteSet(Writers)
  BY <1>1, FS_Subset
<1> QED
  BY <1>1, <1>2, FS_CardinalityType

LEMMA WritersCountedNext == IInv' => (Cardinality(Writers) \in Nat)'
<1>1. IInv => Cardinality(Writers) \in Nat
  BY WritersAreFinite
<1> QED
  BY <1>1, PTL

(* The writers change only where a message is inserted, and where its      *)
(* token has been written or has failed to be.                             *)
LEMMA TokensKept ==
    IInv /\ IInv' /\ TokenForEachMessage /\ [Next]_vars => TokenForEachMessage'
<1> SUFFICES ASSUME IInv, IInv', TokenForEachMessage, [Next]_vars PROVE TokenForEachMessage'
  OBVIOUS
<1> DEFINE W == Cardinality(Writers)
           Enough == missed \/ torn \/ Len(loopQueue) <= Len(socket) + W + BeingRead
<1>0. /\ Len(loopQueue) \in Nat /\ Len(socket) \in Nat
      /\ Len(loopQueue') \in Nat /\ Len(socket') \in Nat
      /\ W \in Nat /\ W' \in Nat /\ BeingRead \in Nat /\ BeingRead' \in Nat
  <2>1. W \in Nat
    BY WritersAreFinite
  <2>2. W' \in Nat
    BY WritersCountedNext
  <2> QED
    BY <2>1, <2>2, LenProperties DEF IInv, TypeOK, BeingRead
<1>00. Enough /\ (Enough' => TokenForEachMessage')
  <2>1. Enough <=> TokenForEachMessage
    BY TokensAreCounted
  <2>2. Enough' <=> TokenForEachMessage'
    BY <2>1, TokensAreCounted, PTL
  <2> QED
    BY <2>1, <2>2
<1>1. (Writers' = Writers) => W' = W
  OBVIOUS
<1>2. ASSUME NEW m \in Messages, m \notin Writers, Writers' = Writers \cup {m} PROVE W' = W + 1
  BY <1>2, WritersAreFinite, FS_AddElement
<1>3. ASSUME NEW m \in Messages, m \in Writers, Writers' = Writers \ {m} PROVE W' = W - 1
  BY <1>3, WritersAreFinite, FS_RemoveElement
<1> HIDE DEF W
<1> SUFFICES Enough'
  BY <1>00
<1> USE LoopAssumption DEF IInv
<1>4. ASSUME NEW m \in Messages,
             SendToThreads(m) \/ Take(m) \/ Handle(m) \/ SendLock(m) \/ SendLockTimeout(m)
      PROVE  Enough'
  <2>1. UNCHANGED <<loopQueue, socket, loop, missed, torn>>
    BY <1>4 DEF SendToThreads, Take, Handle, SendLock, SendLockTimeout
  <2>2. \/ step' = step
        \/ step[m] # "write" /\ step' = [step EXCEPT ![m] = "none"]
        \/ step[m] # "write" /\ step' = [step EXCEPT ![m] = "insert"]
        \/ step[m] # "write" /\ step' = [step EXCEPT ![m] = "handle"]
    BY <1>4 DEF SendToThreads, Take, Pool!Take, Handle, SendLock, SendLockTimeout, FreeAndReturn,
                Holders
  <2>3. Writers' = Writers
    BY <2>2 DEF Writers, TypeOK
  <2> QED
    BY <2>1, <2>3, <1>1, <1>00 DEF BeingRead
<1>5. ASSUME NEW m \in Messages, SendInsert(m) PROVE Enough'
  <2>0. step[m] = "insert" /\ UNCHANGED <<socket, loop, missed, torn>>
    BY <1>5 DEF SendInsert
  <2>1. CASE queueOn
    <3>1. step' = [step EXCEPT ![m] = "write"] /\ Len(loopQueue') <= Len(loopQueue) + 1
      BY <2>1, <1>5, RoomIsMade DEF SendInsert, TypeOK
    <3>2. m \notin Writers /\ Writers' = Writers \cup {m}
      BY <2>0, <3>1 DEF Writers, TypeOK
    <3>3. W' = W + 1
      BY <3>2, <1>2
    <3>4. BeingRead' = BeingRead /\ Len(socket') = Len(socket)
      BY <2>0 DEF BeingRead
    <3> QED
      BY <2>0, <3>1, <3>3, <3>4, <1>0, <1>00
  <2>2. CASE ~queueOn
    <3>1. step' = [step EXCEPT ![m] = "none"] /\ loopQueue' = loopQueue
      BY <2>2, <1>5 DEF SendInsert, FreeAndReturn
    <3>2. Writers' = Writers
      BY <2>0, <3>1 DEF Writers, TypeOK
    <3> QED
      BY <2>0, <3>1, <3>2, <1>1, <1>00 DEF BeingRead
  <2> QED
    BY <2>1, <2>2
<1>6. ASSUME NEW m \in Messages, SendWrite(m) PROVE Enough'
  <2>1. /\ step[m] = "write" /\ step' = [step EXCEPT ![m] = "none"]
        /\ socket' = Append(socket, m) /\ UNCHANGED <<loopQueue, loop, missed, torn>>
    BY <1>6 DEF SendWrite
  <2>2. m \in Writers /\ Writers' = Writers \ {m}
    BY <2>1 DEF Writers, TypeOK
  <2>3. W' = W - 1
    BY <2>2, <1>3
  <2>4. Len(socket') = Len(socket) + 1 /\ BeingRead' = BeingRead
    BY <2>1, AppendProperties DEF TypeOK, BeingRead
  <2> QED
    BY <2>1, <2>3, <2>4, <1>0, <1>00
<1>7. ASSUME NEW m \in Messages, SendWriteFails(m) PROVE Enough'
  BY <1>7 DEF SendWriteFails
<1>8. CASE LoopRead
  <2>1. /\ loop.at = "poll" /\ socket # <<>> /\ socket' = Tail(socket)
        /\ UNCHANGED <<step, loopQueue, missed, torn>>
    BY <1>8 DEF LoopRead, Unread
  <2>2. Writers' = Writers /\ BeingRead = 0
    BY <2>1 DEF Writers, BeingRead
  <2>3. Len(socket') = Len(socket) - 1
    BY <2>1, HeadTailProperties DEF TypeOK
  <2>4. CASE queueOn
    <3>1. BeingRead' = 1
      BY <2>4, <1>8 DEF LoopRead, TypeOK, LoopStates, BeingRead
    <3> QED
      BY <2>1, <2>2, <2>3, <3>1, <1>0, <1>00, <1>1
  <2>5. CASE ~queueOn
    <3>1. loopQueue' = <<>>
      BY <2>1, <2>5 DEF LoopPlace
    <3>2. Len(loopQueue') = 0
      BY <3>1
    <3> QED
      BY <3>2, <1>0
  <2> QED
    BY <2>4, <2>5
<1>9. CASE LoopLock
  <2>1. UNCHANGED <<step, loopQueue, socket, missed, torn>> /\ BeingRead' = BeingRead
    BY <1>9 DEF LoopLock, BeingRead, TypeOK, LoopStates
  <2>2. Writers' = Writers
    BY <2>1 DEF Writers
  <2> QED
    BY <2>1, <2>2, <1>1, <1>00
<1>10. CASE LoopLockTimeout
  BY <1>10 DEF LoopLockTimeout
<1>11. CASE LoopPop
  <2>1. UNCHANGED <<step, socket, missed, torn>> /\ BeingRead = 1
    BY <1>11 DEF LoopPop, BeingRead
  <2>2. Writers' = Writers
    BY <2>1 DEF Writers
  <2>3. \/ Len(loopQueue') = 0
        \/ Len(loopQueue') = Len(loopQueue) - 1
    <3>1. CASE loopQueue = <<>>
      BY <3>1, <1>11 DEF LoopPop
    <3>2. CASE loopQueue # <<>>
      BY <3>2, <1>11, HeadTailProperties DEF LoopPop, TypeOK
    <3> QED
      BY <3>1, <3>2
  <2>4. Len(socket') = Len(socket) /\ W' = W
    BY <2>1, <2>2, <1>1
  <2> QED
    BY <2>1, <2>3, <2>4, <1>0, <1>00
<1>12. CASE LoopHandle \/ StartThreads \/ BeginStop \/ StopThreads
  <2>1. UNCHANGED <<step, loopQueue, socket, missed, torn>> /\ BeingRead = 0
    BY <1>12 DEF LoopHandle, StartThreads, BeginStop, StopThreads, BeingRead, poolVars
  <2>2. Writers' = Writers
    BY <2>1 DEF Writers
  <2>3. Len(loopQueue') = Len(loopQueue) /\ Len(socket') = Len(socket) /\ W' = W
    BY <2>1, <2>2, <1>1
  <2> QED
    BY <2>1, <2>3, <1>0, <1>00
<1>13. CASE Reconfigure \/ Free
  <2>1. Len(loopQueue') = 0
    BY <1>13 DEF Reconfigure, Free
  <2> QED
    BY <2>1, <1>0
<1>14. CASE UNCHANGED vars
  <2>1. UNCHANGED <<step, loopQueue, socket, loop, missed, torn>>
    BY <1>14 DEF vars
  <2>2. Writers' = Writers
    BY <2>1 DEF Writers
  <2> QED
    BY <2>1, <2>2, <1>1, <1>00 DEF BeingRead
<1> QED
  BY <1>4, <1>5, <1>6, <1>7, <1>8, <1>9, <1>10, <1>11, <1>12, <1>13, <1>14
  DEF Next, SendToLoop, LoopThread, Terminated

(* The event loop is woken for every message in its queue                  *)
(* (TokenForEachMessage), whatever the threads, the event loop and those   *)
(* who start, stop, reconfigure and free do, with and without a queue: a   *)
(* token is written for each message that comes into the queue, and the    *)
(* loop takes a message for each token it reads, unless the lock or the    *)
(* socket fails it.                                                        *)
THEOREM TokensCorrect == Spec => []TokenForEachMessage
<1>1. Init => TokenForEachMessage
  <2> SUFFICES ASSUME Init PROVE TokenForEachMessage
    OBVIOUS
  <2>1. IInv
    BY InitIInv
  <2>2. Cardinality(Writers) \in Nat /\ BeingRead \in Nat
    BY <2>1, WritersAreFinite DEF BeingRead
  <2>3. Len(loopQueue) = 0 /\ Len(socket) = 0
    BY DEF Init
  <2> QED
    BY <2>2, <2>3, TokensAreCounted
<1>2. TokenForEachMessage /\ IInv /\ IInv' /\ [Next]_vars => TokenForEachMessage'
  BY TokensKept
<1> QED
  BY <1>1, <1>2, PlacesCorrect, PTL DEF Spec
-----------------------------------------------------------------------------
(* Owners.                                                                 *)

Distinct(q) == \A j, k \in 1 .. Len(q) : q[j] = q[k] => j = k

(* With the loop: in its queue or about to be handled. *)
WithLoop == ToSet(loopQueue) \cup {loop.msg}

(* Before it is sent to the loop. *)
WithThreads(m) == m \in pending \/ step[m] \in {"handle", "insert"}

(* The place of a message and its fate.  A failed write does not move a    *)
(* message; it leaves one in the queue that has been freed.                *)
Places ==
    /\ loop.at # "gone" => queueOn
    /\ Distinct(loopQueue)
    /\ loop.msg \notin ToSet(loopQueue)
    /\ \A m \in Messages :
          /\ fate[m] = "fresh" => m \notin pending \cup active \cup WithLoop
          /\ WithThreads(m) => fate[m] = "to_threads" /\ m \notin WithLoop
          /\ fate[m] = "to_threads" => WithThreads(m)
          /\ fate[m] = "to_loop" => m \in WithLoop
          /\ m \in WithLoop => torn \/ fate[m] = "to_loop"

LEMMA QueueSets ==
    ASSUME NEW q \in Seq(Messages), Distinct(q)
    PROVE  /\ ToSet(q) \in SUBSET Messages
           /\ \A k \in 1 .. Len(q) : q[k] \in ToSet(q)
           /\ ToSet(<<>>) = {}
           /\ q # <<>> => /\ Head(q) \in ToSet(q)
                          /\ ToSet(Tail(q)) = ToSet(q) \ {Head(q)}
                          /\ Distinct(Tail(q))
           /\ \A m \in Messages : m \notin ToSet(q) =>
                 ToSet(Append(q, m)) = ToSet(q) \cup {m} /\ Distinct(Append(q, m))
<1>0. Len(q) \in Nat /\ DOMAIN q = 1 .. Len(q) /\ \A k \in 1 .. Len(q) : q[k] \in Messages
  BY LenProperties, ElementOfSeq
<1>1. ToSet(q) \in SUBSET Messages /\ \A k \in 1 .. Len(q) : q[k] \in ToSet(q)
  BY <1>0 DEF ToSet
<1>2. ToSet(<<>>) = {}
  BY DEF ToSet
<1>3. ASSUME q # <<>>
      PROVE  Head(q) \in ToSet(q) /\ ToSet(Tail(q)) = ToSet(q) \ {Head(q)} /\ Distinct(Tail(q))
  <2>1. Len(q) \in Nat \ {0} /\ Head(q) = q[1]
    BY <1>0, <1>3, EmptySeq
  <2>2. /\ Tail(q) \in Seq(Messages) /\ Len(Tail(q)) = Len(q) - 1
        /\ \A k \in 1 .. Len(Tail(q)) : Tail(q)[k] = q[k + 1]
    BY <1>3, HeadTailProperties
  <2>3. DOMAIN Tail(q) = 1 .. Len(q) - 1
    BY <2>2, LenProperties
  <2>4. Distinct(Tail(q))
    <3> SUFFICES ASSUME NEW j \in 1 .. Len(Tail(q)), NEW k \in 1 .. Len(Tail(q)),
                        Tail(q)[j] = Tail(q)[k]
                 PROVE  j = k
      BY DEF Distinct
    <3>1. j + 1 \in 1 .. Len(q) /\ k + 1 \in 1 .. Len(q) /\ q[j + 1] = q[k + 1]
      BY <2>1, <2>2
    <3>2. j + 1 = k + 1
      BY <3>1 DEF Distinct
    <3> QED
      BY <3>2, <2>1, <2>2
  <2>5. ASSUME NEW x PROVE x \in ToSet(Tail(q)) <=> x \in ToSet(q) \ {Head(q)}
    <3>1. ASSUME x \in ToSet(Tail(q)) PROVE x \in ToSet(q) \ {Head(q)}
      <4>1. PICK k \in 1 .. Len(q) - 1 : x = Tail(q)[k]
        BY <3>1, <2>3 DEF ToSet
      <4>2. x = q[k + 1] /\ k + 1 \in 1 .. Len(q) /\ 1 \in 1 .. Len(q) /\ k + 1 # 1
        BY <4>1, <2>1, <2>2
      <4>3. q[k + 1] # q[1]
        BY <4>2 DEF Distinct
      <4> QED
        BY <4>2, <4>3, <2>1, <1>1
    <3>2. ASSUME x \in ToSet(q) \ {Head(q)} PROVE x \in ToSet(Tail(q))
      <4>1. PICK k \in 1 .. Len(q) : x = q[k]
        BY <3>2, <1>0 DEF ToSet
      <4>2. k # 1
        BY <3>2, <4>1, <2>1
      <4>3. k - 1 \in 1 .. Len(q) - 1 /\ (k - 1) + 1 = k
        BY <4>2, <2>1
      <4>4. Tail(q)[k - 1] = x
        BY <4>1, <4>3, <2>2
      <4> QED
        BY <4>3, <4>4, <2>3 DEF ToSet
    <3> QED
      BY <3>1, <3>2
  <2> QED
    BY <2>1, <2>4, <2>5, <1>1
<1>4. ASSUME NEW m \in Messages, m \notin ToSet(q)
      PROVE  ToSet(Append(q, m)) = ToSet(q) \cup {m} /\ Distinct(Append(q, m))
  <2> DEFINE r == Append(q, m)
  <2>1. /\ r \in Seq(Messages) /\ Len(r) = Len(q) + 1 /\ r[Len(r)] = m
        /\ \A k \in 1 .. Len(q) : r[k] = q[k]
    BY AppendProperties
  <2>2. DOMAIN r = 1 .. Len(q) + 1
    BY <2>1, LenProperties
  <2> HIDE DEF r
  <2>3. \A k \in 1 .. Len(q) + 1 : k = Len(q) + 1 \/ k \in 1 .. Len(q)
    BY <1>0
  <2>4. 1 .. Len(q) \subseteq 1 .. Len(q) + 1 /\ Len(q) + 1 \in 1 .. Len(q) + 1
    BY <1>0
  <2>5. ToSet(r) = ToSet(q) \cup {m}
    BY <2>1, <2>2, <2>3, <2>4, <1>0 DEF ToSet
  <2>6. Distinct(r)
    <3> SUFFICES ASSUME NEW j \in 1 .. Len(r), NEW k \in 1 .. Len(r), r[j] = r[k] PROVE j = k
      BY DEF Distinct
    <3>1. CASE j \in 1 .. Len(q) /\ k \in 1 .. Len(q)
      BY <3>1, <2>1 DEF Distinct
    <3>2. CASE j \notin 1 .. Len(q) \/ k \notin 1 .. Len(q)
      BY <3>2, <2>1, <2>3, <1>1, <1>4
    <3> QED
      BY <3>1, <3>2
  <2> QED
    BY <2>5, <2>6 DEF r
<1> QED
  BY <1>1, <1>2, <1>3, <1>4

(* The messages in the queue after an insertion. *)
LEMMA InsertSets ==
    ASSUME NEW q \in Seq(Messages), Distinct(q), NEW m \in Messages, m \notin ToSet(q)
    PROVE  LET given == IF Len(q) < LoopCapacity THEN {} ELSE {Head(q)}
           IN /\ given \subseteq ToSet(q)
              /\ ToSet(Append(MakeRoom(q), m)) = (ToSet(q) \ given) \cup {m}
              /\ Distinct(Append(MakeRoom(q), m))
<1>1. CASE Len(q) < LoopCapacity
  <2>1. MakeRoom(q) = q
    BY <1>1 DEF MakeRoom
  <2> QED
    BY <1>1, <2>1, QueueSets
<1>2. CASE ~(Len(q) < LoopCapacity)
  <2>1. MakeRoom(q) = Tail(q) /\ q # <<>>
    BY <1>2, LoopAssumption, EmptySeq DEF MakeRoom
  <2>2. Tail(q) \in Seq(Messages)
    BY <2>1, HeadTailProperties
  <2>3. /\ Head(q) \in ToSet(q) /\ ToSet(Tail(q)) = ToSet(q) \ {Head(q)} /\ Distinct(Tail(q))
    BY <2>1, QueueSets
  <2>4. /\ ToSet(Append(Tail(q), m)) = ToSet(Tail(q)) \cup {m}
        /\ Distinct(Append(Tail(q), m))
    BY <2>2, <2>3, QueueSets
  <2> QED
    BY <1>2, <2>1, <2>3, <2>4
<1> QED
  BY <1>1, <1>2

LEMMA PlacesKept ==
    ASSUME FALSE \notin QueueChoices, IInv, Places, [Next]_vars
    PROVE  Places'
<1> DEFINE Q == ToSet(loopQueue)
<1>0. Q \in SUBSET Messages
  BY QueueSets DEF IInv, TypeOK, Places
<1> USE LoopAssumption, <1>0 DEF IInv, WithLoop, WithThreads
<1> HIDE DEF Q
<1>1. ASSUME NEW m \in Messages, SendToThreads(m) PROVE Places'
  <2>1. UNCHANGED <<active, step, queueOn, loopQueue, loop, torn>> /\ fate[m] = "fresh"
    BY <1>1 DEF SendToThreads, Pool!Submit
  <2>2. /\ fate' = [[x \in Messages |-> IF x \in pending \ pending' THEN "freed" ELSE fate[x]]
                       EXCEPT ![m] = "to_threads"]
        /\ m \notin pending \cup active
        /\ pending' \subseteq pending \cup {m} /\ m \in pending'
    BY <1>1 DEF SendToThreads, Pool!Submit, Freed
  <2> QED
    BY <2>1, <2>2 DEF Places, Holders, TypeOK
<1>2. ASSUME NEW m \in Messages, Take(m) PROVE Places'
  BY <1>2 DEF Take, Pool!Take, Places, Holders, TypeOK
<1>3. ASSUME NEW m \in Messages, step[m] \in {"handle", "insert"}, FreeAndReturn(m),
             UNCHANGED <<queueOn, loopQueue, loop, torn>>
      PROVE  Places'
  BY <1>3 DEF FreeAndReturn, Pool!Finish, Freed, Places, Holders, TypeOK
<1>4. ASSUME NEW m \in Messages, SendLock(m) PROVE Places'
  BY <1>4 DEF SendLock, poolVars, Places, Holders, TypeOK
<1>5. ASSUME NEW m \in Messages, SendInsert(m) PROVE Places'
  <2>0. step[m] = "insert" /\ UNCHANGED <<queueOn, loop, torn>>
    BY <1>5 DEF SendInsert
  <2>1. CASE queueOn
    <3> DEFINE given == IF Len(loopQueue) < LoopCapacity THEN {} ELSE {Head(loopQueue)}
    <3>1. /\ loopQueue' = Append(MakeRoom(loopQueue), m)
          /\ fate' = [[x \in Messages |-> IF x \in given THEN "freed" ELSE fate[x]]
                         EXCEPT ![m] = "to_loop"]
          /\ step' = [step EXCEPT ![m] = "write"]
          /\ UNCHANGED <<pending, active>>
      BY <2>1, <1>5 DEF SendInsert, Freed, poolVars
    <3>2. m \notin Q /\ m # loop.msg /\ m \notin pending
      BY <2>0 DEF Places, Holders, Q
    <3>3. given \subseteq Q /\ Q' = (Q \ given) \cup {m} /\ Distinct(loopQueue)'
      BY <3>1, <3>2, InsertSets DEF Q, TypeOK, Places
    <3> HIDE DEF given
    <3>4. loop.msg \notin Q
      BY DEF Places, Q
    <3>5. \A x \in Messages :
             /\ x # m => fate'[x] = IF x \in given THEN "freed" ELSE fate[x]
             /\ fate'[m] = "to_loop"
             /\ x # m => step'[x] = step[x]
             /\ step'[m] = "write"
      BY <3>1 DEF TypeOK
    <3>6. ASSUME NEW x \in Messages
          PROVE  /\ fate'[x] = "fresh" => x \notin pending' \cup active' \cup (Q' \cup {loop'.msg})
                 /\ (x \in pending' \/ step'[x] \in {"handle", "insert"}) =>
                       fate'[x] = "to_threads" /\ x \notin Q' \cup {loop'.msg}
                 /\ fate'[x] = "to_threads" => (x \in pending' \/ step'[x] \in {"handle", "insert"})
                 /\ fate'[x] = "to_loop" => x \in Q' \cup {loop'.msg}
                 /\ x \in Q' \cup {loop'.msg} => torn' \/ fate'[x] = "to_loop"
      <4>1. /\ fate[x] = "fresh" => x \notin pending \cup active \cup (Q \cup {loop.msg})
            /\ (x \in pending \/ step[x] \in {"handle", "insert"}) =>
                  fate[x] = "to_threads" /\ x \notin Q \cup {loop.msg}
            /\ fate[x] = "to_threads" => (x \in pending \/ step[x] \in {"handle", "insert"})
            /\ fate[x] = "to_loop" => x \in Q \cup {loop.msg}
            /\ x \in Q \cup {loop.msg} => torn \/ fate[x] = "to_loop"
        BY DEF Places, Q
      <4>2. CASE x = m
        BY <4>2, <2>0, <3>1, <3>2, <3>3, <3>5
      <4>3. CASE x # m
        BY <4>1, <4>3, <2>0, <3>1, <3>3, <3>4, <3>5
      <4> QED
        BY <4>2, <4>3
    <3>7. (loop.msg \notin Q)' /\ (loop.at # "gone" => queueOn)'
      BY <2>0, <2>1, <3>2, <3>3, <3>4
    <3> QED
      BY <3>3, <3>6, <3>7 DEF Places, Q
  <2>2. CASE ~queueOn
    <3>1. FreeAndReturn(m) /\ UNCHANGED loopQueue
      BY <2>2, <1>5 DEF SendInsert
    <3> QED
      BY <2>0, <3>1, <1>3
  <2> QED
    BY <2>1, <2>2
<1>6. ASSUME NEW m \in Messages, SendWrite(m) PROVE Places'
  BY <1>6 DEF SendWrite, Pool!Finish, Places, Holders, TypeOK
<1>7. ASSUME NEW m \in Messages, SendWriteFails(m) PROVE Places'
  BY <1>7 DEF SendWriteFails, FreeAndReturn, Freed, Pool!Finish, Places, Holders, TypeOK
<1>8. ASSUME UNCHANGED <<pending, active, step, queueOn, loopQueue, fate, torn>>,
             loop'.msg = loop.msg, loop.at # "gone"
      PROVE  Places'
  BY <1>8 DEF Places
<1>9. CASE LoopRead \/ LoopLock \/ LoopLockTimeout \/ BeginStop
  <2>1. UNCHANGED <<pending, active, step, queueOn, loopQueue, fate, torn>> /\ loop.at # "gone"
    BY <1>9 DEF LoopRead, LoopLock, LoopLockTimeout, BeginStop, Pool!BeginStop, poolVars
  <2>2. queueOn
    BY <2>1 DEF Places
  <2>3. CASE LoopRead \/ LoopLock
    BY <2>1, <2>2, <2>3, <1>8 DEF LoopRead, LoopLock, TypeOK, LoopStates
  <2>4. CASE BeginStop
    <3>1. PICK call : loop' = [loop EXCEPT !.at = "join", !.call = call]
      BY <2>4 DEF BeginStop
    <3>2. loop'.msg = loop.msg
      BY <3>1 DEF TypeOK, LoopStates
    <3> QED
      BY <2>1, <3>2, <1>8
  <2>5. CASE LoopLockTimeout
    <3>1. loop.msg = None /\ loop'.msg = None
      BY <2>5 DEF LoopLockTimeout, LoopPlace, Polling
    <3> QED
      BY <2>1, <3>1, <1>8
  <2> QED
    BY <1>9, <2>3, <2>4, <2>5
<1>10. CASE StopThreads \/ StartThreads
  <2>1. UNCHANGED <<pending, active, step, queueOn, loopQueue, fate, torn>> /\ loop.at # "gone"
    BY <1>10 DEF StopThreads, StartThreads, Pool!EndStop, Pool!Start
  <2>2. loop'.msg = loop.msg
    BY <1>10 DEF StopThreads, StartThreads, Polling, LoopPlace
  <2> QED
    BY <2>1, <2>2, <1>8
<1>11. CASE LoopPop
  <2>1. UNCHANGED <<pending, active, step, queueOn, fate, torn>> /\ loop.msg = None /\ queueOn
    BY <1>11 DEF LoopPop, poolVars, LoopPlace, Places
  <2>2. CASE loopQueue = <<>>
    <3>1. loop'.msg = loop.msg /\ loopQueue' = loopQueue
      BY <2>1, <2>2, <1>11 DEF LoopPop, TypeOK, LoopStates
    <3> QED
      BY <2>1, <3>1, <1>11, <1>8 DEF LoopPop
  <2>3. CASE loopQueue # <<>>
    <3>0. PICK h : h = Head(loopQueue)
      OBVIOUS
    <3>1. loop'.msg = h /\ loopQueue' = Tail(loopQueue)
      BY <2>3, <1>11, <3>0 DEF LoopPop, TypeOK, LoopStates
    <3>2. h \in Q /\ Q' = Q \ {h} /\ Distinct(loopQueue)'
      BY <2>3, <3>0, <3>1, QueueSets DEF TypeOK, Places, Q
    <3>3. Q' \cup {loop'.msg} = Q /\ None \notin Messages /\ h \in Messages
      BY <3>1, <3>2
    <3> QED
      BY <2>1, <3>1, <3>2, <3>3 DEF Places, Q
  <2> QED
    BY <2>2, <2>3
<1>12. CASE LoopHandle
  <2>1. UNCHANGED <<pending, active, step, queueOn, loopQueue, torn>> /\ loop' = Polling
    BY <1>12 DEF LoopHandle, poolVars
  <2>2. fate' = [x \in Messages |-> IF x = loop.msg THEN "freed" ELSE fate[x]] /\ loop.at = "handle"
    BY <1>12 DEF LoopHandle, Freed
  <2>3. loop'.msg = None /\ None \notin Messages
    BY <2>1 DEF Polling
  <2>4. None \notin Q
    BY <2>3
  <2> QED
    BY <2>1, <2>2, <2>3, <2>4 DEF Places, Q
<1>13. CASE Reconfigure \/ Free
  <2>1. /\ pending' = {} /\ loopQueue' = <<>> /\ UNCHANGED <<active, step, torn>>
        /\ loop'.msg = None /\ (loop'.at # "gone" => queueOn')
        /\ fate' = [x \in Messages |-> IF x \in Q \cup pending THEN "freed" ELSE fate[x]]
    <3>1. Freed(Queued) = [x \in Messages |-> IF x \in Q \cup pending THEN "freed" ELSE fate[x]]
      BY DEF Freed, Queued, Q
    <3>2. CASE Reconfigure
      BY <3>1, <3>2 DEF Reconfigure, Polling
    <3>3. CASE Free
      BY <3>1, <3>3 DEF Free, Polling
    <3> QED
      BY <1>13, <3>2, <3>3
  <2>2. active = {} /\ loop.msg = None
    BY <1>13 DEF Reconfigure, Free, PoolDown, LoopPlace
  <2>3. None \notin Messages /\ \A x \in Messages : step[x] = "none"
    BY <2>2 DEF Holders
  <2>4. Q' = {} /\ Distinct(loopQueue)'
    <3>1. ToSet(<<>>) = {} /\ Distinct(<<>>)
      BY DEF ToSet, Distinct
    <3> QED
      BY <2>1, <3>1 DEF Q
  <2> QED
    BY <2>1, <2>2, <2>3, <2>4 DEF Places, Q
<1>14. CASE UNCHANGED vars
  BY <1>14 DEF vars, Places
<1> QED
  <2>1. ASSUME NEW m \in Messages, Handle(m) \/ SendLockTimeout(m) PROVE Places'
    BY <2>1, <1>3 DEF Handle, SendLockTimeout
  <2> QED
    BY <2>1, <1>1, <1>2, <1>4, <1>5, <1>6, <1>7, <1>9, <1>10, <1>11, <1>12, <1>13, <1>14
    DEF Next, SendToLoop, LoopThread, Terminated

LEMMA PlacesGiveOwners == IInv /\ Places => OneOwner
<1> SUFFICES ASSUME IInv, Places PROVE OneOwner
  OBVIOUS
<1>0. ToSet(loopQueue) \in SUBSET Messages /\ \A k \in 1 .. Len(loopQueue) : loopQueue[k] \in ToSet(loopQueue)
  BY QueueSets DEF IInv, TypeOK, Places
<1>1. \A m \in Messages :
         fate[m] \in {"to_threads", "to_loop"} =>
             m \in pending \cup active \cup ToSet(loopQueue) \cup {loop.msg}
  BY DEF Places, WithLoop, WithThreads, IInv, Holders
<1>2. torn \/ \A m \in Messages : m \in WithLoop => fate[m] = "to_loop"
  BY DEF Places
<1>3. \A m \in pending : fate[m] = "to_threads"
  BY DEF Places, WithThreads, IInv, TypeOK
<1>4. \A m \in active : step[m] \in {"handle", "insert"} => fate[m] = "to_threads"
  BY DEF Places, WithThreads, IInv, TypeOK
<1>5. \A j, k \in 1 .. Len(loopQueue) : loopQueue[j] = loopQueue[k] => j = k
  BY DEF Places, Distinct
<1>6. loop.at = "handle" => loop.msg \in Messages /\ loop.msg \notin ToSet(loopQueue)
  BY DEF Places, IInv, TypeOK, LoopStates, LoopPlace
<1>7. torn \/ \A k \in 1 .. Len(loopQueue) : fate[loopQueue[k]] = "to_loop"
  BY <1>0, <1>2 DEF WithLoop
<1>8. torn \/ (loop.at = "handle" => fate[loop.msg] = "to_loop")
  BY <1>2, <1>6 DEF WithLoop
<1> QED
  BY <1>1, <1>3, <1>4, <1>5, <1>6, <1>7, <1>8 DEF OneOwner

(* Every message has one owner, who frees it (OneOwner), as long as no     *)
(* configuration says disable_to_loop_queue: none of the nodes' does, and  *)
(* the garbage collector, whose does, sends nothing to its loop.  Without  *)
(* a queue the loop takes the pointer that it reads from the socket for a  *)
(* message, also that of a message freed with the queue that the thread    *)
(* loop had before it was reconfigured.                                    *)
THEOREM OwnersCorrect ==
    ASSUME FALSE \notin QueueChoices
    PROVE  Spec => []OneOwner
<1>1. Init => Places
  <2>1. ToSet(<<>>) = {} /\ Distinct(<<>>)
    BY DEF ToSet, Distinct
  <2> QED
    BY <2>1, LoopAssumption
    DEF Init, Pool!Init, Polling, Places, WithLoop, WithThreads
<1>2. IInv /\ Places /\ [Next]_vars => Places'
  BY PlacesKept
<1>3. IInv /\ Places => OneOwner
  BY PlacesGiveOwners
<1> QED
  BY <1>1, <1>2, <1>3, PlacesCorrect, PTL DEF Spec
=============================================================================
