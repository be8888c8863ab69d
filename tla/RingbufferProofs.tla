-------------------------- MODULE RingbufferProofs --------------------------
(***************************************************************************)
(* Proofs about Ringbuffer for every set of elements, every set of         *)
(* capacities, with and without the cache of released buffers.             *)
(*                                                                         *)
(* The inductive invariant is TypeOK, ElementsInSpan and EachHeldOnce      *)
(* with EmptyUnlessLive: growing the array of a cached object forgets its  *)
(* slots, which loses no element only because the object was cleared when  *)
(* it was released.  EachHeldOnce rests on ElementsInSpan: an insertion    *)
(* overwrites nothing because the slot to write lies outside the span.     *)
(*                                                                         *)
(* From it follow the balance of the statistics, that no element leaves    *)
(* but through the free function or a pop, and that the buffer implements  *)
(* BoundedFifo: its contents are the slots of the span behind the holes    *)
(* that cleared slots leave at its beginning (HolesFirst).                 *)
(***************************************************************************)
EXTENDS Ringbuffer, TLAPS, FiniteSetTheorems, SequenceTheorems

(* The wrap-around keeps an index inside the array. *)
LEMMA SuccInArray ==
    ASSUME capacity \in Nat, capacity > 1, NEW i \in Slots
    PROVE  Succ(i) \in Slots /\ Succ(i) # i
BY DEF Succ, Slots

(* The number of slots found occupied is a natural number. *)
LEMMA DropCountType ==
    ASSUME capacity \in Nat, NEW S \in SUBSET Slots
    PROVE  DropCount(S) \in Nat
<1>1. IsFiniteSet(Slots)
  BY FS_Interval DEF Slots
<1>2. IsFiniteSet({i \in S : content[i] # Null})
  BY <1>1, FS_Subset
<1> QED
  BY <1>2, FS_CardinalityType DEF DropCount

(* A buffer nobody uses holds nothing. *)
EmptyUnlessLive == owner # "live" => \A i \in Slots : content[i] = Null

IInv == TypeOK /\ ElementsInSpan /\ EachHeldOnce /\ EmptyUnlessLive

LEMMA InitInv == Init => IInv
<1> SUFFICES ASSUME Init PROVE IInv
  OBVIOUS
<1> USE RingAssumption DEF Init
<1>1. Slots = {}
  BY DEF Slots
<1>2. TypeOK
  BY <1>1 DEF TypeOK
<1>3. ElementsInSpan
  BY DEF ElementsInSpan
<1>4. EachHeldOnce
  BY <1>1 DEF EachHeldOnce, Held
<1>5. EmptyUnlessLive
  BY <1>1 DEF EmptyUnlessLive
<1> QED
  BY <1>2, <1>3, <1>4, <1>5 DEF IInv

LEMMA CreateNewInv ==
    ASSUME IInv, NEW c \in Capacities, NEW f \in FreeArgs, CreateNew(c, f)
    PROVE  IInv'
<1> USE RingAssumption DEF CreateNew
<1>1. c \in Nat /\ c > 0 /\ capacity' = c + 1 /\ Slots' = 0 .. c
  BY DEF Slots
<1>2. \A i \in Slots' : content'[i] = Null
  BY <1>1
<1>3. TypeOK'
  BY <1>1 DEF IInv, TypeOK
<1>4. ElementsInSpan'
  BY <1>1, <1>2 DEF ElementsInSpan
<1>5. EachHeldOnce'
  \* A buffer that is not allocated holds nothing.
  <2>1. \A e \in Elements : fate[e] # "held"
    BY DEF IInv, EachHeldOnce, EmptyUnlessLive, Held
  <2>2. Held' = {}
    BY <1>2 DEF Held
  <2> QED
    BY <1>2, <2>1, <2>2 DEF EachHeldOnce
<1>6. EmptyUnlessLive'
  BY DEF EmptyUnlessLive
<1> QED
  BY <1>3, <1>4, <1>5, <1>6 DEF IInv

LEMMA CreateCachedInv ==
    ASSUME IInv, NEW c \in Capacities, NEW f \in FreeArgs, CreateCached(c, f)
    PROVE  IInv'
<1> USE RingAssumption DEF CreateCached, indices, counters
<1>1. c \in Nat /\ c > 0
  OBVIOUS
<1>2. capacity \in Nat /\ capacity > 1 /\ capacity' \in Nat
       /\ capacity' >= capacity /\ Slots' = 0 .. capacity' - 1
  BY <1>1 DEF IInv, TypeOK, ElementsInSpan, Slots
<1>3. \A i \in Slots : content[i] = Null
  BY DEF IInv, EmptyUnlessLive
<1>4. content' \in [Slots' -> Elements \cup {Null}]
       /\ \A i \in Slots' : content'[i] = Null
  <2>1. CASE c + 1 > capacity
    BY <1>1, <1>2, <2>1 DEF Grown
  <2>2. CASE ~(c + 1 > capacity)
    BY <1>2, <1>3, <2>2 DEF IInv, TypeOK, Slots
  <2> QED
    BY <2>1, <2>2
<1>5. TypeOK'
  BY <1>2, <1>4 DEF IInv, TypeOK, FreeElementAfter
<1>6. ElementsInSpan'
  BY <1>2, <1>4 DEF IInv, TypeOK, ElementsInSpan, Slots
<1>7. EachHeldOnce'
  <2>1. \A e \in Elements : fate[e] # "held"
    BY <1>3 DEF IInv, EachHeldOnce, Held
  <2>2. Held' = {}
    BY <1>4 DEF Held
  <2> QED
    BY <1>4, <2>1, <2>2 DEF EachHeldOnce
<1>8. EmptyUnlessLive'
  BY DEF EmptyUnlessLive
<1> QED
  BY <1>5, <1>6, <1>7, <1>8 DEF IInv

LEMMA InsertInv ==
    ASSUME IInv, NEW e \in Elements, Insert(e)
    PROVE  IInv'
<1> DEFINE next == Succ(write)
<1> USE RingAssumption DEF Insert, setup
<1>1. capacity \in Nat /\ capacity > 1 /\ read \in Slots /\ write \in Slots
       /\ Slots' = Slots /\ e # Null
  BY DEF IInv, TypeOK, ElementsInSpan, Slots
<1>2. next \in Slots /\ next # write
  BY <1>1, SuccInArray
<1>3. content[write] = Null
  BY <1>1 DEF IInv, ElementsInSpan, InSpan, Slots
<1>4. \A i \in Slots : content'[i] = IF i = next THEN Null
                                    ELSE IF i = write THEN e ELSE content[i]
  BY <1>1, <1>2 DEF IInv, TypeOK
<1>5. TypeOK'
  <2>1. dropped' \in Nat
    BY <1>1, <1>2, DropCountType DEF IInv, TypeOK
  <2>2. read' \in Nat /\ write' \in Nat
    BY <1>1, <1>2 DEF ReadAfterWrite, Succ, Slots
  <2>3. content' \in [Slots' -> Elements \cup {Null}]
    BY <1>1, <1>2 DEF IInv, TypeOK
  <2>4. fate' \in [Elements -> {"outside", "held", "freed", "forgotten"}]
    BY DEF IInv, TypeOK, Disposal
  <2> QED
    BY <2>1, <2>2, <2>3, <2>4 DEF IInv, TypeOK
<1>6. ElementsInSpan'
  <2>1. read' \in Slots' /\ write' \in Slots'
    BY <1>1, <1>2, SuccInArray DEF ReadAfterWrite
  <2>2. ASSUME NEW i \in Slots, content'[i] # Null PROVE InSpan(i)'
    <3>1. i # next /\ (i = write \/ InSpan(i))
      BY <1>1, <1>4, <2>2 DEF IInv, ElementsInSpan
    <3> QED
      BY <1>1, <1>2, <3>1 DEF InSpan, ReadAfterWrite, Succ, Slots
  <2> QED
    BY <1>1, <2>1, <2>2 DEF ElementsInSpan
<1>7. EachHeldOnce'
  <2>1. e \notin Held
    BY DEF IInv, EachHeldOnce
  <2>2. \A i \in Slots : content[i] # e
    BY <2>1 DEF Held, IInv, TypeOK
  <2>3. ASSUME NEW i \in Slots, NEW j \in Slots, content'[i] = content'[j], content'[i] # Null
        PROVE  i = j
    BY <1>2, <1>4, <2>2, <2>3 DEF IInv, EachHeldOnce
  <2>4. ASSUME NEW x \in Elements PROVE fate'[x] = "held" <=> x \in Held'
    <3>1. CASE x = e
      <4>1. fate'[x] = "held"
        BY <1>2, <2>2, <3>1 DEF IInv, TypeOK
      <4>2. content'[write] = x
        BY <1>1, <1>2, <1>4, <3>1
      <4> QED
        BY <1>1, <4>1, <4>2 DEF Held
    <3>2. CASE x # e /\ x = content[next]
      <4>1. fate'[x] # "held"
        BY <3>2 DEF IInv, TypeOK, Disposal
      <4>2. \A i \in Slots : content'[i] # x
        BY <1>1, <1>2, <1>4, <3>2, ZenonT(60) DEF IInv, EachHeldOnce
      <4> QED
        BY <1>1, <4>1, <4>2 DEF Held
    <3>3. CASE x # e /\ x # content[next]
      <4>1. fate'[x] = fate[x]
        BY <3>3 DEF IInv, TypeOK
      <4>2. \A i \in Slots : content'[i] = x <=> content[i] = x
        BY <1>1, <1>2, <1>3, <1>4, <3>3
      <4>3. x \in Held' <=> x \in Held
        BY <1>1, <4>2 DEF Held
      <4> QED
        BY <4>1, <4>3 DEF IInv, EachHeldOnce
    <3> QED
      BY <3>1, <3>2, <3>3
  <2> QED
    BY <1>1, <2>3, <2>4, ZenonT(60) DEF EachHeldOnce
<1>8. EmptyUnlessLive'
  BY DEF EmptyUnlessLive
<1> QED
  BY <1>5, <1>6, <1>7, <1>8 DEF IInv

LEMMA PopInv ==
    ASSUME IInv, Pop
    PROVE  IInv'
<1> USE RingAssumption DEF Pop, setup
<1>1. capacity \in Nat /\ capacity > 1 /\ read \in Slots /\ write \in Slots
       /\ Slots' = Slots /\ read # write
  BY DEF IInv, TypeOK, ElementsInSpan, Slots
<1>2. read' \in Slots
  BY <1>1, SuccInArray
<1>3. \A i \in Slots : content'[i] = IF i = read THEN Null ELSE content[i]
  BY <1>1 DEF IInv, TypeOK, TakenFrom
<1>4. TypeOK'
  BY <1>1, <1>2 DEF IInv, TypeOK, TakenFrom, Slots
<1>5. ElementsInSpan'
  <2>1. ASSUME NEW i \in Slots, content'[i] # Null PROVE InSpan(i)'
    <3>1. i # read /\ InSpan(i)
      BY <1>1, <1>3, <2>1 DEF IInv, ElementsInSpan
    <3> QED
      BY <1>1, <3>1 DEF InSpan, Succ, Slots
  <2> QED
    BY <1>1, <1>2, <2>1 DEF ElementsInSpan
<1>6. EachHeldOnce'
  <2>1. \A i, j \in Slots : content'[i] = content'[j] /\ content'[i] # Null => i = j
    BY <1>3 DEF IInv, EachHeldOnce
  <2>2. ASSUME NEW x \in Elements PROVE fate'[x] = "held" <=> x \in Held'
    <3>1. CASE x = content[read]
      <4>1. fate'[x] # "held"
        BY <3>1 DEF IInv, TypeOK
      <4>2. \A i \in Slots : content'[i] # x
        BY <1>1, <1>3, <3>1 DEF IInv, EachHeldOnce
      <4> QED
        BY <1>1, <4>1, <4>2 DEF Held
    <3>2. CASE x # content[read]
      <4>1. fate'[x] = fate[x]
        BY <3>2 DEF IInv, TypeOK
      <4>2. \A i \in Slots : content'[i] = x <=> content[i] = x
        BY <1>1, <1>3, <3>2
      <4>3. x \in Held' <=> x \in Held
        BY <1>1, <4>2 DEF Held
      <4> QED
        BY <4>1, <4>3 DEF IInv, EachHeldOnce
    <3> QED
      BY <3>1, <3>2
  <2> QED
    BY <1>1, <2>1, <2>2 DEF EachHeldOnce
<1>7. EmptyUnlessLive'
  BY DEF EmptyUnlessLive
<1> QED
  BY <1>4, <1>5, <1>6, <1>7 DEF IInv

LEMMA ClearSlotsInv ==
    ASSUME IInv, owner = "live", owner' \in {"none", "cached", "live"}, ClearSlots
    PROVE  IInv'
<1> USE RingAssumption DEF ClearSlots, indices
<1>1. capacity \in Nat /\ capacity > 1 /\ Slots' = Slots
  BY DEF IInv, TypeOK, ElementsInSpan, Slots
<1>2. \A i \in Slots : content'[i] = Null
  OBVIOUS
<1>3. TypeOK'
  <2>1. dropped' \in Nat
    BY <1>1, DropCountType DEF IInv, TypeOK
  <2>2. fate' \in [Elements -> {"outside", "held", "freed", "forgotten"}]
    BY DEF IInv, TypeOK, Disposal
  <2> QED
    BY <1>1, <2>1, <2>2 DEF IInv, TypeOK
<1>4. ElementsInSpan'
  BY <1>1, <1>2 DEF IInv, ElementsInSpan
<1>5. EachHeldOnce'
  <2>1. ASSUME NEW x \in Elements PROVE fate'[x] # "held"
    BY DEF IInv, TypeOK, EachHeldOnce, Disposal
  <2>2. Held' = {}
    BY <1>1, <1>2 DEF Held
  <2> QED
    BY <1>1, <1>2, <2>1, <2>2 DEF EachHeldOnce
<1>6. EmptyUnlessLive'
  BY <1>1, <1>2 DEF EmptyUnlessLive
<1> QED
  BY <1>3, <1>4, <1>5, <1>6 DEF IInv

LEMMA NextInv == IInv /\ [Next]_vars => IInv'
<1> SUFFICES ASSUME IInv, [Next]_vars PROVE IInv'
  OBVIOUS
<1>1. ASSUME NEW c \in Capacities, NEW f \in FreeArgs, CreateNew(c, f) PROVE IInv'
  BY <1>1, CreateNewInv
<1>2. ASSUME NEW c \in Capacities, NEW f \in FreeArgs, CreateCached(c, f) PROVE IInv'
  BY <1>2, CreateCachedInv
<1>3. ASSUME NEW e \in Elements, Insert(e) PROVE IInv'
  BY <1>3, InsertInv
<1>4. CASE Pop
  BY <1>4, PopInv
<1>5. CASE Clear
  BY <1>5, ClearSlotsInv DEF Clear
<1>6. CASE Free
  BY <1>6, ClearSlotsInv DEF Free
<1>7. CASE UNCHANGED vars
  BY <1>7 DEF vars, IInv, TypeOK, ElementsInSpan, EachHeldOnce, EmptyUnlessLive,
              Slots, Held, InSpan
<1> QED
  BY <1>1, <1>2, <1>3, <1>4, <1>5, <1>6, <1>7 DEF Next

(* The inductive invariant holds in every reachable state. *)
LEMMA Invariance == Spec => []IInv
<1> QED
  BY InitInv, NextInv, PTL DEF Spec

(* The state of a ring buffer keeps its shape through every sequence of    *)
(* calls.                                                                  *)
THEOREM TypeCorrect == Spec => []TypeOK
<1>1. IInv => TypeOK
  BY DEF IInv
<1> QED
  BY <1>1, Invariance, PTL

(* The asserts of dtn_ringbuffer.c hold for every capacity and every       *)
(* sequence of calls: elements lie between the indices, so the slot that   *)
(* ringbuffer_insert writes is empty.                                      *)
THEOREM SpanHoldsElements == Spec => []ElementsInSpan
<1>1. IInv => ElementsInSpan
  BY DEF IInv
<1> QED
  BY <1>1, Invariance, PTL

(* No element is ever in two slots, and none that was handed out or freed  *)
(* is still in one.                                                        *)
THEOREM NothingHeldTwice == Spec => []EachHeldOnce
<1>1. IInv => EachHeldOnce
  BY DEF IInv
<1> QED
  BY <1>1, Invariance, PTL
-----------------------------------------------------------------------------
(* The occupied slots, one for each element held. *)
OccupiedSlots == {i \in Slots : content[i] # Null}

(* Emptying all slots counts every element held exactly once. *)
LEMMA OccupiedCountsHeld ==
    ASSUME IInv
    PROVE  /\ IsFiniteSet(Held)
           /\ Cardinality(Held) \in Nat
           /\ DropCount(Slots) = Cardinality(Held)
<1>1. IsFiniteSet(Slots)
  BY FS_Interval DEF IInv, TypeOK, Slots
<1>2. IsFiniteSet(OccupiedSlots)
  BY <1>1, FS_Subset DEF OccupiedSlots
<1>3. ExistsBijection(OccupiedSlots, Held)
  <2> DEFINE f == [i \in OccupiedSlots |-> content[i]]
  <2>1. f \in [OccupiedSlots -> Held]
    BY DEF OccupiedSlots, Held
  <2>2. \A i, j \in OccupiedSlots : f[i] = f[j] => i = j
    BY DEF IInv, EachHeldOnce, OccupiedSlots
  <2>3. \A e \in Held : \E i \in OccupiedSlots : f[i] = e
    BY DEF OccupiedSlots, Held
  <2> QED
    BY <2>1, <2>2, <2>3 DEF ExistsBijection, Bijection, Injection, Surjection, IsInjective
<1>4. IsFiniteSet(Held) /\ Cardinality(Held) = Cardinality(OccupiedSlots)
  BY <1>2, <1>3, FS_Bijection
<1> QED
  BY <1>4, FS_CardinalityType DEF DropCount, OccupiedSlots

(* An insertion adds one element and gives up what the next slot held. *)
LEMMA InsertBalances ==
    ASSUME IInv, NEW e \in Elements, Insert(e), StatisticsBalance
    PROVE  StatisticsBalance'
<1> DEFINE next == Succ(write)
<1> DEFINE given == content[next]
<1> USE RingAssumption DEF Insert, setup
<1>1. capacity \in Nat /\ capacity > 1 /\ write \in Slots /\ Slots' = Slots /\ e # Null
  BY DEF IInv, TypeOK, ElementsInSpan, Slots
<1>2. next \in Slots /\ next # write
  BY <1>1, SuccInArray
<1>3. content[write] = Null
  BY <1>1 DEF IInv, ElementsInSpan, InSpan, Slots
<1>4. \A i \in Slots : content'[i] = IF i = next THEN Null
                                    ELSE IF i = write THEN e ELSE content[i]
  BY <1>1, <1>2 DEF IInv, TypeOK
<1>5. e \notin Held
  BY DEF IInv, EachHeldOnce
<1>6. IsFiniteSet(Held) /\ Cardinality(Held) \in Nat
  BY OccupiedCountsHeld
<1>7. Held' = (Held \ {given}) \cup {e}
  <2>1. \A i \in Slots : content[i] = given /\ given # Null => i = next
    BY <1>2 DEF IInv, EachHeldOnce
  <2>2. ASSUME NEW x, x \in Held' PROVE x \in (Held \ {given}) \cup {e}
    <3>1. PICK i \in Slots : content'[i] = x /\ x # Null
      BY <1>1, <2>2 DEF Held
    <3>2. i # next /\ (i = write => x = e) /\ (i # write => content[i] = x)
      BY <1>4, <3>1
    <3>3. i # write => x \in Held /\ x # given
      BY <2>1, <3>1, <3>2 DEF Held
    <3> QED
      BY <3>2, <3>3
  <2>3. ASSUME NEW x, x \in (Held \ {given}) \cup {e} PROVE x \in Held'
    <3>1. CASE x = e
      BY <1>1, <1>2, <1>4, <3>1 DEF Held
    <3>2. CASE x \in Held /\ x # given
      <4>1. PICK i \in Slots : content[i] = x /\ x # Null
        BY <3>2 DEF Held
      <4>2. i # next /\ i # write
        BY <1>3, <3>2, <4>1
      <4> QED
        BY <1>1, <1>4, <4>1, <4>2 DEF Held
    <3> QED
      BY <2>3, <3>1, <3>2
  <2> QED
    BY <2>2, <2>3
<1>8. Cardinality(Held \ {given}) = Cardinality(Held) - DropCount({next})
      /\ IsFiniteSet(Held \ {given}) /\ DropCount({next}) \in Nat
  <2>1. CASE given = Null
    <3>1. DropCount({next}) = 0
      <4>1. {i \in {next} : content[i] # Null} = {}
        BY <2>1
      <4> QED
        BY <4>1, FS_EmptySet DEF DropCount
    <3>2. Held \ {given} = Held
      BY <2>1 DEF Held
    <3> HIDE DEF next, given
    <3>3. Cardinality(Held \ {given}) = Cardinality(Held) /\ IsFiniteSet(Held \ {given})
      BY <1>6, <3>2
    <3> QED
      BY <1>6, <3>1, <3>3
  <2>2. CASE given # Null
    <3>1. DropCount({next}) = 1
      <4>1. {i \in {next} : content[i] # Null} = {next}
        BY <2>2
      <4> QED
        BY <4>1, FS_Singleton DEF DropCount
    <3>2. given \in Held
      BY <1>2, <2>2 DEF Held
    <3> QED
      BY <1>6, <3>1, <3>2, FS_RemoveElement
  <2> QED
    BY <2>1, <2>2
<1>9. Cardinality(Held') = Cardinality(Held) - DropCount({next}) + 1
  <2>1. e \notin Held \ {given}
    BY <1>5
  <2> QED
    BY <1>7, <1>8, <2>1, FS_AddElement
<1> HIDE DEF next, given
<1>10. inserted = popped + dropped + Cardinality(Held)
  BY DEF StatisticsBalance
<1>11. inserted' = inserted + 1 /\ popped' = popped /\ dropped' = dropped + DropCount({next})
  BY DEF next
<1> QED
  BY <1>6, <1>8, <1>9, <1>10, <1>11 DEF StatisticsBalance, IInv, TypeOK

(* What pop hands out is counted, an empty slot is not. *)
LEMMA PopBalances ==
    ASSUME IInv, Pop, StatisticsBalance
    PROVE  StatisticsBalance'
<1> USE RingAssumption DEF Pop, setup
<1>1. capacity \in Nat /\ read \in Slots /\ Slots' = Slots
  BY DEF IInv, TypeOK, ElementsInSpan, Slots
<1>2. \A i \in Slots : content'[i] = IF i = read THEN Null ELSE content[i]
  BY <1>1 DEF IInv, TypeOK, TakenFrom
<1>3. IsFiniteSet(Held) /\ Cardinality(Held) \in Nat
  BY OccupiedCountsHeld
<1>4. Held' = Held \ {content[read]}
  BY <1>1, <1>2 DEF Held, IInv, EachHeldOnce
<1>5. CASE content[read] = Null
  <2>1. Held' = Held
    BY <1>4, <1>5 DEF Held
  <2> QED
    BY <1>5, <2>1 DEF StatisticsBalance
<1>6. CASE content[read] # Null
  <2>1. content[read] \in Held
    BY <1>1, <1>6 DEF Held
  <2>2. Cardinality(Held') = Cardinality(Held) - 1
    BY <1>3, <1>4, <2>1, FS_RemoveElement
  <2> QED
    BY <1>3, <1>6, <2>2 DEF StatisticsBalance, IInv, TypeOK
<1> QED
  BY <1>5, <1>6

(* clear counts all it gives up; a buffer without elements stays balanced. *)
LEMMA ClearBalances ==
    ASSUME IInv, owner = "live", ClearSlots, StatisticsBalance
    PROVE  StatisticsBalance'
<1> USE DEF ClearSlots, indices
<1>1. Held' = {}
  BY DEF Held, Slots
<1>2. Cardinality(Held') = 0
  BY <1>1, FS_EmptySet
<1>3. DropCount(Slots) = Cardinality(Held) /\ Cardinality(Held) \in Nat
  BY OccupiedCountsHeld
<1> QED
  BY <1>2, <1>3 DEF StatisticsBalance, IInv, TypeOK

(* A buffer made anew has counted nothing and holds nothing; a cached one  *)
(* is empty, and its array is grown or kept.                               *)
LEMMA CreateBalances ==
    ASSUME IInv, NEW c \in Capacities, NEW f \in FreeArgs,
           CreateNew(c, f) \/ CreateCached(c, f), StatisticsBalance
    PROVE  StatisticsBalance'
<1>1. Held = {} /\ Held' = {}
  <2>1. \A i \in Slots : content[i] = Null
    BY DEF IInv, EmptyUnlessLive, CreateNew, CreateCached
  <2>2. c \in Nat /\ capacity \in Nat
    BY RingAssumption DEF IInv, TypeOK
  <2>3. \A i \in Slots' : content'[i] = Null
    <3>1. CASE CreateNew(c, f)
      BY <2>2, <3>1 DEF CreateNew, Slots
    <3>2. CASE CreateCached(c, f) /\ c + 1 > capacity
      BY <2>2, <3>2 DEF CreateCached, Slots, Grown
    <3>3. CASE CreateCached(c, f) /\ ~(c + 1 > capacity)
      BY <2>1, <2>2, <3>3 DEF CreateCached, Slots
    <3> QED
      BY <3>1, <3>2, <3>3
  <2> QED
    BY <2>1, <2>3 DEF Held
<1>2. Cardinality(Held) = 0 /\ Cardinality(Held') = 0
  BY <1>1, FS_EmptySet
<1> QED
  BY <1>2 DEF CreateNew, CreateCached, StatisticsBalance, counters

(* The statistics of dtn_ringbuffer add up for every capacity and however  *)
(* often the object goes through the cache: no element leaves the array    *)
(* uncounted, and none is counted twice.                                   *)
THEOREM StatisticsCorrect == Spec => []StatisticsBalance
<1>1. Init => StatisticsBalance
  BY DEF Init, StatisticsBalance
<1>2. IInv /\ StatisticsBalance /\ [Next]_vars => StatisticsBalance'
  <2> SUFFICES ASSUME IInv, StatisticsBalance, [Next]_vars PROVE StatisticsBalance'
    OBVIOUS
  <2>1. ASSUME NEW c \in Capacities, NEW f \in FreeArgs, CreateNew(c, f) \/ CreateCached(c, f)
        PROVE  StatisticsBalance'
    BY <2>1, CreateBalances
  <2>2. ASSUME NEW e \in Elements, Insert(e) PROVE StatisticsBalance'
    BY <2>2, InsertBalances
  <2>3. CASE Pop
    BY <2>3, PopBalances
  <2>4. CASE Clear
    BY <2>4, ClearBalances DEF Clear
  <2>5. CASE Free
    BY <2>5, ClearBalances DEF Free
  <2>6. CASE UNCHANGED vars
    BY <2>6 DEF vars, StatisticsBalance, Held, Slots
  <2> QED
    BY <2>1, <2>2, <2>3, <2>4, <2>5, <2>6 DEF Next
<1> QED
  BY <1>1, <1>2, Invariance, PTL DEF Spec
-----------------------------------------------------------------------------
(* A user that gave a free function has it in the object, also where the   *)
(* object had another one or none while it belonged to somebody else.      *)
KeepsFreeElement == asked = "client" => freeElement = "client"

(* No step forgets an element of a user that gave a free function: what is *)
(* dropped, cleared or released goes through that function.                *)
THEOREM ElementsGoThroughFree == Spec => NothingForgotten
<1> DEFINE Step == \A e \in Elements :
                      fate[e] = "held" /\ fate'[e] = "forgotten" => asked = "none"
<1>1. Init => KeepsFreeElement
  BY DEF Init, KeepsFreeElement
<1>2. KeepsFreeElement /\ [Next]_vars => KeepsFreeElement'
  BY DEF KeepsFreeElement, Next, vars, setup, CreateNew, CreateCached, FreeElementAfter,
         Insert, Pop, Clear, Free, ClearSlots
<1>3. TypeOK /\ KeepsFreeElement /\ [Next]_vars => [Step]_vars
  <2> SUFFICES ASSUME TypeOK, KeepsFreeElement, Next, NEW e \in Elements,
                      fate[e] = "held", fate'[e] = "forgotten"
               PROVE  freeElement = "none"
    BY DEF KeepsFreeElement, TypeOK
  <2>1. ASSUME NEW c \in Capacities, NEW f \in FreeArgs, CreateNew(c, f) \/ CreateCached(c, f)
        PROVE  FALSE
    BY <2>1 DEF CreateNew, CreateCached
  <2>2. CASE Pop
    BY <2>2 DEF Pop, TypeOK
  <2>3. ASSUME NEW x \in Elements, Insert(x) PROVE freeElement = "none"
    BY <2>3 DEF Insert, Disposal, TypeOK
  <2>4. CASE Clear \/ Free
    BY <2>4 DEF Clear, Free, ClearSlots, Disposal, TypeOK
  <2> QED
    BY <2>1, <2>2, <2>3, <2>4 DEF Next
<1> QED
  BY <1>1, <1>2, <1>3, TypeCorrect, PTL DEF Spec, NothingForgotten
-----------------------------------------------------------------------------
(* The refinement.  The k-th place of the span is a slot, and the first h  *)
(* places are empty: only a clear leaves empty slots in the span, all of   *)
(* them before what is inserted later.                                     *)
SlotAt(k) == IF read + k - 1 < capacity THEN read + k - 1 ELSE read + k - 1 - capacity

Holes(h) == /\ h \in 0 .. SpanLength
            /\ \A k \in 1 .. SpanLength : Span[k] = Null <=> k <= h

HolesFirst == owner # "none" => \E h \in 0 .. SpanLength : Holes(h)

(* The places of the span are different slots. *)
LEMMA SpanPlaces ==
    ASSUME IInv, owner # "none"
    PROVE  /\ capacity \in Nat /\ capacity > 1 /\ read \in Slots /\ write \in Slots
           /\ SpanLength \in 0 .. capacity - 1
           /\ \A k \in 1 .. SpanLength :
                 /\ Span[k] = content[SlotAt(k)]
                 /\ SlotAt(k) \in Slots
                 /\ Span[k] \in Elements \cup {Null}
<1>1. capacity \in Nat /\ capacity > 1 /\ read \in Slots /\ write \in Slots
  BY DEF IInv, TypeOK, ElementsInSpan
<1>2. SpanLength \in 0 .. capacity - 1
  BY <1>1 DEF SpanLength, Slots
<1>3. ASSUME NEW k \in 1 .. SpanLength
      PROVE  /\ Span[k] = content[SlotAt(k)]
             /\ SlotAt(k) \in Slots
  BY <1>1, <1>2 DEF Span, SlotAt, Slots
<1> QED
  BY <1>1, <1>2, <1>3 DEF IInv, TypeOK

(* What the FIFO holds are the places after the empty ones. *)
LEMMA ContentsAre ==
    ASSUME IInv, owner # "none", NEW h, Holes(h)
    PROVE  /\ Contents \in Seq(Elements)
           /\ Len(Contents) = SpanLength - h
           /\ \A k \in 1 .. SpanLength - h : Contents[k] = Span[h + k]
<1>1. SpanLength \in Nat /\ h \in 0 .. SpanLength
  BY SpanPlaces DEF Holes
<1>2. Occupied = h + 1 .. SpanLength
  BY <1>1 DEF Occupied, Holes
<1>3. CASE h = SpanLength
  <2>1. Contents = <<>>
    BY <1>1, <1>2, <1>3 DEF Contents
  <2> QED
    BY <1>1, <1>3, <2>1
<1>4. CASE h < SpanLength
  <2>1. Min(Occupied) = h + 1 /\ h + 1 \in Occupied
    BY <1>1, <1>2, <1>4 DEF Min
  <2>2. Contents = SubSeq(Span, h + 1, SpanLength)
    BY <2>1 DEF Contents
  <2>3. \A k \in h + 1 .. SpanLength : Span[k] \in Elements
    BY <1>1, SpanPlaces DEF Holes
  <2> QED
    BY <1>1, <1>4, <2>2, <2>3, SubSeqProperties
<1> QED
  BY <1>1, <1>3, <1>4

(* In a buffer that is not full in terms of its indices, the span grows by *)
(* the new element; otherwise it moves on by one place.                    *)
LEMMA InsertMovesSpan ==
    ASSUME IInv, IInv', NEW e \in Elements, Insert(e)
    PROVE  /\ Succ(write) # read =>
                /\ SpanLength < capacity - 1
                /\ SpanLength' = SpanLength + 1
                /\ \A k \in 1 .. SpanLength : Span'[k] = Span[k]
                /\ Span'[SpanLength + 1] = e
           /\ Succ(write) = read =>
                /\ SpanLength = capacity - 1
                /\ SpanLength' = SpanLength
                /\ \A k \in 1 .. SpanLength - 1 : Span'[k] = Span[k + 1]
                /\ Span'[SpanLength] = e
<1> USE RingAssumption DEF Insert, setup
<1>1. /\ capacity \in Nat /\ capacity > 1 /\ read \in Slots /\ write \in Slots
      /\ SpanLength \in 0 .. capacity - 1
      /\ capacity' = capacity /\ Slots' = Slots /\ owner' # "none"
      /\ write' = Succ(write)
      /\ read' = IF Succ(write) = read THEN Succ(read) ELSE read
  BY SpanPlaces DEF ReadAfterWrite, Slots
<1>2. Succ(write) \in Slots /\ Succ(write) # write
  BY <1>1, SuccInArray
<1>3. \A i \in Slots : content'[i] = IF i = Succ(write) THEN Null
                                    ELSE IF i = write THEN e ELSE content[i]
  BY <1>1, <1>2 DEF IInv, TypeOK
<1>4. \A k \in 1 .. SpanLength : Span[k] = content[SlotAt(k)] /\ SlotAt(k) \in Slots
  BY SpanPlaces
<1>5. \A k \in 1 .. SpanLength' : Span'[k] = content'[SlotAt(k)']
  BY DEF Span, SlotAt
<1>8. PICK n \in Nat : n = SpanLength
  BY <1>1
<1> HIDE RingAssumption DEF Insert, setup
<1>6. CASE Succ(write) # read
  <2>1. SpanLength' = SpanLength + 1 /\ SpanLength < capacity - 1
    BY <1>1, <1>6 DEF SpanLength, Succ, Slots
  <2>2. \A k \in 1 .. SpanLength :
           SlotAt(k)' = SlotAt(k) /\ SlotAt(k) # write /\ SlotAt(k) # Succ(write)
    BY <1>1, <1>6 DEF SpanLength, Succ, Slots, SlotAt
  <2>3. SlotAt(n + 1)' = write
    BY <1>1, <1>6, <1>8 DEF SpanLength, Succ, Slots, SlotAt
  <2>4. \A k \in 1 .. SpanLength : Span'[k] = Span[k]
    BY <1>1, <1>3, <1>4, <1>5, <2>1, <2>2
  <2>5. Span'[SpanLength + 1] = e
    BY <1>1, <1>2, <1>3, <1>5, <1>8, <2>1, <2>3
  <2> QED
    BY <1>6, <2>1, <2>4, <2>5
<1>7. CASE Succ(write) = read
  <2>1. SpanLength' = SpanLength /\ SpanLength = capacity - 1
    BY <1>1, <1>7 DEF SpanLength, Succ, Slots
  <2>2. \A k \in 1 .. SpanLength - 1 :
           SlotAt(k)' = SlotAt(k + 1) /\ SlotAt(k + 1) # write /\ SlotAt(k + 1) # Succ(write)
    BY <1>1, <1>7, <2>1 DEF Succ, Slots, SlotAt
  <2>3. SlotAt(n)' = write
    BY <1>1, <1>7, <1>8, <2>1 DEF Succ, Slots, SlotAt
  <2>4. \A k \in 1 .. SpanLength - 1 : Span'[k] = Span[k + 1]
    BY <1>1, <1>3, <1>4, <1>5, <2>1, <2>2
  <2>5. Span'[SpanLength] = e
    BY <1>1, <1>2, <1>3, <1>5, <1>8, <2>1, <2>3
  <2> QED
    BY <1>7, <2>1, <2>4, <2>5
<1> QED
  BY <1>6, <1>7

(* The two lemmas as formulas; what they say of every state they also say  *)
(* of the state after a step.                                              *)
SpanFact ==
    IInv /\ owner # "none" =>
        /\ SpanLength \in 0 .. capacity - 1
        /\ \A k \in 1 .. SpanLength : \E i \in Slots : Span[k] = content[i]

ContentsFact ==
    \A h \in Nat : IInv /\ owner # "none" /\ Holes(h) =>
        /\ Contents \in Seq(Elements)
        /\ Len(Contents) = SpanLength - h
        /\ \A k \in 1 .. SpanLength - h : Contents[k] = Span[h + k]

LEMMA SpanFactNext == SpanFact'
<1>1. SpanFact
  BY SpanPlaces DEF SpanFact
<1> QED
  BY <1>1, PTL

LEMMA ContentsFactNext == ContentsFact'
<1>1. ContentsFact
  BY ContentsAre DEF ContentsFact
<1> QED
  BY <1>1, PTL

(* Pop moves the span on by one place. *)
LEMMA PopMovesSpan ==
    ASSUME IInv, Pop
    PROVE  /\ SpanLength \in 1 .. capacity - 1
           /\ SpanLength' = SpanLength - 1
           /\ \A k \in 1 .. SpanLength - 1 : Span'[k] = Span[k + 1]
<1>1. /\ capacity \in Nat /\ capacity > 1 /\ read \in Slots /\ write \in Slots
      /\ SpanLength \in 0 .. capacity - 1
      /\ capacity' = capacity /\ write' = write /\ read' = Succ(read) /\ read # write
  BY SpanPlaces DEF Pop, setup
<1>2. \A i \in Slots : content'[i] = IF i = read THEN Null ELSE content[i]
  BY <1>1 DEF IInv, TypeOK, Pop, TakenFrom
<1>3. SpanLength \in 1 .. capacity - 1 /\ SpanLength' = SpanLength - 1
  BY <1>1 DEF SpanLength, Succ, Slots
<1>4. \A k \in 1 .. SpanLength' : Span'[k] = content'[SlotAt(k)']
  BY DEF Span, SlotAt
<1>5. \A k \in 1 .. SpanLength : Span[k] = content[SlotAt(k)] /\ SlotAt(k) \in Slots
  BY SpanPlaces DEF Pop
<1>6. \A k \in 1 .. SpanLength - 1 : SlotAt(k)' = SlotAt(k + 1) /\ SlotAt(k + 1) # read
  BY <1>1, <1>3 DEF Succ, Slots, SlotAt
<1> QED
  BY <1>1, <1>2, <1>3, <1>4, <1>5, <1>6

(* The queue and the bound that the refinement mapping gives the FIFO. *)
Queue == IF owner = "live" THEN Contents ELSE <<>>
Bound == IF owner = "live" THEN capacity - 1 ELSE 0

AbsOpen == Queue' = <<>> /\ Bound' \in Nat
AbsInsert(e) ==
    /\ Bound > 0 /\ Bound' = Bound
    /\ Queue' = IF Len(Queue) < Bound THEN Append(Queue, e) ELSE Append(Tail(Queue), e)
AbsRemove == Queue # <<>> /\ Queue' = Tail(Queue) /\ Bound' = Bound
AbsDrain == Queue' = <<>> /\ Bound' = Bound
AbsStutter == Queue' = Queue /\ Bound' = Bound

AbsStep == AbsOpen \/ (\E e \in Elements : AbsInsert(e)) \/ AbsRemove \/ AbsDrain \/ AbsStutter

LEMMA AbsIsFifo == AbsStep => [Fifo!Next]_(Fifo!vars)
BY DEF AbsStep, AbsOpen, AbsInsert, AbsRemove, AbsDrain, AbsStutter, Queue, Bound,
       Fifo!Next, Fifo!vars, Fifo!Open, Fifo!Insert, Fifo!Remove, Fifo!Drain

(* A buffer whose slots are empty is an empty FIFO. *)
LEMMA EmptySpan ==
    ASSUME IInv', owner' # "none", \A i \in Slots' : content'[i] = Null
    PROVE  HolesFirst' /\ Contents' = <<>>
<1>1. PICK n \in Nat : n = SpanLength'
  BY SpanFactNext DEF SpanFact
<1>2. \A k \in 1 .. n : Span'[k] = Null
  BY <1>1, SpanFactNext DEF SpanFact
<1>3. Holes(n)'
  BY <1>1, <1>2 DEF Holes
<1>4. HolesFirst'
  BY <1>1, <1>3 DEF HolesFirst
<1>5. Contents' \in Seq(Elements) /\ Len(Contents') = SpanLength' - n
  BY <1>3, ContentsFactNext DEF ContentsFact
<1>6. Len(Contents') = 0
  <2>1. SpanLength' \in Nat
    BY <1>1
  <2>2. \A x \in Nat : x - x = 0
    OBVIOUS
  <2> QED
    BY <1>1, <1>5, <2>1, <2>2
<1> QED
  BY <1>4, <1>5, <1>6, EmptySeq

(* An insertion appends the element to the contents, and gives up the first *)
(* of them when the buffer is full of elements.                            *)
LEMMA InsertSimulates ==
    ASSUME IInv, IInv', HolesFirst, NEW e \in Elements, Insert(e)
    PROVE  HolesFirst' /\ AbsInsert(e)
<1>1. /\ owner = "live" /\ owner' = "live" /\ capacity' = capacity
      /\ capacity \in Nat /\ capacity > 1 /\ SpanLength \in 0 .. capacity - 1
      /\ e # Null
  BY SpanPlaces, RingAssumption DEF Insert, setup
<1>2. PICK h \in 0 .. SpanLength : Holes(h)
  BY <1>1 DEF HolesFirst
<1>3. PICK n \in Nat : n = SpanLength
  BY <1>1
<1>4. \A k \in 1 .. n : Span[k] = Null <=> k <= h
  BY <1>2, <1>3 DEF Holes
<1>5. /\ Contents \in Seq(Elements) /\ Len(Contents) = n - h
      /\ \A k \in 1 .. n - h : Contents[k] = Span[h + k]
  BY <1>1, <1>2, <1>3, ContentsAre
<1>6. ASSUME NEW g \in Nat, Holes(g)'
      PROVE  /\ HolesFirst'
             /\ Contents' \in Seq(Elements) /\ Len(Contents') = SpanLength' - g
             /\ \A k \in 1 .. SpanLength' - g : Contents'[k] = Span'[g + k]
  <2>1. HolesFirst'
    BY <1>6 DEF HolesFirst, Holes
  <2> QED
    BY <1>1, <1>6, <2>1, ContentsFactNext DEF ContentsFact
<1>7. CASE Succ(write) # read
  <2>1. /\ n < capacity - 1 /\ SpanLength' = n + 1
        /\ \A k \in 1 .. n : Span'[k] = Span[k]
        /\ Span'[n + 1] = e
    BY <1>3, <1>7, InsertMovesSpan
  <2>2. Holes(h)'
    BY <1>1, <1>2, <1>3, <1>4, <2>1 DEF Holes
  <2>3. /\ HolesFirst'
        /\ Contents' \in Seq(Elements) /\ Len(Contents') = n + 1 - h
        /\ \A k \in 1 .. n + 1 - h : Contents'[k] = Span'[h + k]
    BY <1>2, <1>6, <2>1, <2>2
  <2>4. Contents' = Append(Contents, e)
    BY <1>2, <1>3, <1>5, <2>1, <2>3, AppendProperties, SeqEqual
  <2> QED
    BY <1>1, <1>2, <1>3, <1>5, <2>1, <2>3, <2>4 DEF AbsInsert, Queue, Bound
<1>8. CASE Succ(write) = read
  <2>1. /\ n = capacity - 1 /\ SpanLength' = n
        /\ \A k \in 1 .. n - 1 : Span'[k] = Span[k + 1]
        /\ Span'[n] = e
    BY <1>3, <1>8, InsertMovesSpan
  <2>2. CASE h = 0
    <3>1. Holes(0)'
      BY <1>1, <1>4, <2>1, <2>2 DEF Holes
    <3>2. /\ HolesFirst'
          /\ Contents' \in Seq(Elements) /\ Len(Contents') = n
          /\ \A k \in 1 .. n : Contents'[k] = Span'[k]
      BY <1>3, <1>6, <2>1, <3>1
    <3>3. /\ Contents # <<>>
          /\ Tail(Contents) \in Seq(Elements) /\ Len(Tail(Contents)) = n - 1
          /\ \A k \in 1 .. n - 1 : Tail(Contents)[k] = Span[k + 1]
      BY <1>1, <1>3, <1>5, <2>1, <2>2, HeadTailProperties
    <3>4. Contents' = Append(Tail(Contents), e)
      <4> DEFINE rest == Tail(Contents)
      <4>1. /\ rest \in Seq(Elements) /\ Len(rest) = n - 1
            /\ \A k \in 1 .. n - 1 : rest[k] = Span[k + 1]
        BY <3>3
      <4> HIDE DEF rest
      <4>2. /\ Append(rest, e) \in Seq(Elements) /\ Len(Append(rest, e)) = n
            /\ \A k \in 1 .. n - 1 : Append(rest, e)[k] = Span[k + 1]
            /\ Append(rest, e)[n] = e
        BY <1>3, <4>1, AppendProperties
      <4>3. \A k \in 1 .. n : Contents'[k] = Append(rest, e)[k]
        BY <1>3, <2>1, <3>2, <4>2
      <4>4. Contents' = Append(rest, e)
        BY <3>2, <4>2, <4>3, SeqEqual
      <4> QED
        BY <4>4 DEF rest
    <3> QED
      BY <1>1, <1>5, <2>1, <2>2, <3>2, <3>4 DEF AbsInsert, Queue, Bound
  <2>3. CASE h # 0
    <3>1. Holes(h - 1)'
      BY <1>1, <1>2, <1>3, <1>4, <2>1, <2>3 DEF Holes
    <3>2. /\ HolesFirst'
          /\ Contents' \in Seq(Elements) /\ Len(Contents') = n - h + 1
          /\ \A k \in 1 .. n - h + 1 : Contents'[k] = Span'[h - 1 + k]
      <4>1. h - 1 \in Nat /\ n - (h - 1) = n - h + 1
        BY <1>2, <1>3, <2>3
      <4> QED
        BY <1>6, <2>1, <3>1, <4>1
    <3>3. Contents' = Append(Contents, e)
      <4>1. /\ Append(Contents, e) \in Seq(Elements) /\ Len(Append(Contents, e)) = n - h + 1
            /\ \A k \in 1 .. n - h : Append(Contents, e)[k] = Span[h + k]
            /\ Append(Contents, e)[n - h + 1] = e
        BY <1>2, <1>3, <1>5, AppendProperties
      <4>2. ASSUME NEW k \in 1 .. n - h + 1 PROVE Contents'[k] = Append(Contents, e)[k]
        <5>1. /\ h \in 1 .. n /\ h - 1 + k \in 1 .. n /\ k \in Nat
              /\ Contents'[k] = Span'[h - 1 + k]
          BY <1>2, <1>3, <2>3, <3>2
        <5>2. CASE k = n - h + 1
          BY <1>3, <2>1, <4>1, <5>1, <5>2, SMTT(30)
        <5>3. CASE k <= n - h
          <6>1. h - 1 + k \in 1 .. n - 1 /\ h - 1 + k + 1 = h + k
            BY <1>3, <5>1, <5>3
          <6> QED
            BY <2>1, <4>1, <5>1, <5>3, <6>1
        <5>4. k = n - h + 1 \/ k <= n - h
          BY <1>3, <5>1
        <5> QED
          BY <5>2, <5>3, <5>4
      <4> QED
        BY <3>2, <4>1, <4>2, SeqEqual
    <3> QED
      BY <1>1, <1>2, <1>3, <1>5, <2>1, <2>3, <3>2, <3>3 DEF AbsInsert, Queue, Bound
  <2> QED
    BY <2>2, <2>3
<1> QED
  BY <1>7, <1>8

LEMMA PopSimulates ==
    ASSUME IInv, IInv', HolesFirst, Pop
    PROVE  HolesFirst' /\ (AbsRemove \/ AbsStutter)
<1>1. /\ owner = "live" /\ owner' = "live" /\ capacity' = capacity
      /\ capacity \in Nat /\ capacity > 1
  BY SpanPlaces DEF Pop, setup
<1>2. PICK n \in Nat : n = SpanLength
  BY PopMovesSpan
<1>3. /\ n >= 1 /\ SpanLength' = n - 1
      /\ \A k \in 1 .. n - 1 : Span'[k] = Span[k + 1]
  BY <1>2, PopMovesSpan
<1>4. PICK h \in 0 .. n : Holes(h)
  BY <1>1, <1>2 DEF HolesFirst
<1>5. \A k \in 1 .. n : Span[k] = Null <=> k <= h
  BY <1>2, <1>4 DEF Holes
<1>6. /\ Contents \in Seq(Elements) /\ Len(Contents) = n - h
      /\ \A k \in 1 .. n - h : Contents[k] = Span[h + k]
  BY <1>1, <1>2, <1>4, ContentsAre
<1>7. ASSUME NEW g \in Nat, Holes(g)'
      PROVE  /\ HolesFirst'
             /\ Contents' \in Seq(Elements) /\ Len(Contents') = n - 1 - g
             /\ \A k \in 1 .. n - 1 - g : Contents'[k] = Span'[g + k]
  <2>1. HolesFirst'
    BY <1>7 DEF HolesFirst, Holes
  <2> QED
    BY <1>1, <1>3, <1>7, <2>1, ContentsFactNext DEF ContentsFact
<1>8. CASE h = 0
  <2>1. Holes(0)'
    BY <1>3, <1>5, <1>8 DEF Holes
  <2>2. /\ HolesFirst'
        /\ Contents' \in Seq(Elements) /\ Len(Contents') = n - 1
        /\ \A k \in 1 .. n - 1 : Contents'[k] = Span'[k]
    BY <1>7, <2>1
  <2>3. /\ Contents # <<>>
        /\ Tail(Contents) \in Seq(Elements) /\ Len(Tail(Contents)) = n - 1
        /\ \A k \in 1 .. n - 1 : Tail(Contents)[k] = Span[k + 1]
    BY <1>3, <1>6, <1>8, HeadTailProperties
  <2>4. Contents' = Tail(Contents)
    BY <1>3, <2>2, <2>3, SeqEqual
  <2> QED
    BY <1>1, <2>2, <2>3, <2>4 DEF AbsRemove, Queue, Bound
<1>9. CASE h # 0
  <2>1. Holes(h - 1)'
    BY <1>3, <1>4, <1>5, <1>9 DEF Holes
  <2>2. /\ HolesFirst'
        /\ Contents' \in Seq(Elements) /\ Len(Contents') = n - h
        /\ \A k \in 1 .. n - h : Contents'[k] = Span'[h - 1 + k]
    BY <1>4, <1>7, <1>9, <2>1
  <2>3. Contents' = Contents
    BY <1>3, <1>4, <1>6, <1>9, <2>2, SeqEqual
  <2> QED
    BY <1>1, <2>2, <2>3 DEF AbsStutter, Queue, Bound
<1> QED
  BY <1>8, <1>9

(* The steps after which no slot is in use. *)
LEMMA EmptyingSimulates ==
    ASSUME IInv, IInv', HolesFirst,
           \/ \E c \in Capacities, f \in FreeArgs : CreateNew(c, f) \/ CreateCached(c, f)
           \/ Clear \/ Free
    PROVE  HolesFirst' /\ (AbsOpen \/ AbsDrain)
<1>1. ASSUME NEW c \in Capacities, NEW f \in FreeArgs, CreateNew(c, f) \/ CreateCached(c, f)
      PROVE  HolesFirst' /\ AbsOpen
  <2>1. owner' = "live" /\ c \in Nat /\ capacity \in Nat /\ capacity' - 1 \in Nat
    <3>1. c \in Nat /\ capacity \in Nat
      BY RingAssumption DEF IInv, TypeOK
    <3>2. CASE CreateNew(c, f)
      BY <3>1, <3>2 DEF CreateNew
    <3>3. CASE CreateCached(c, f)
      BY <3>1, <3>3, SpanPlaces DEF CreateCached
    <3> QED
      BY <1>1, <3>1, <3>2, <3>3
  <2>2. \A i \in Slots' : content'[i] = Null
    <3>1. \A i \in Slots : content[i] = Null
      BY <1>1 DEF IInv, EmptyUnlessLive, CreateNew, CreateCached
    <3>2. CASE CreateNew(c, f)
      BY <2>1, <3>2 DEF CreateNew, Slots
    <3>3. CASE CreateCached(c, f) /\ c + 1 > capacity
      BY <2>1, <3>3 DEF CreateCached, Slots, Grown
    <3>4. CASE CreateCached(c, f) /\ ~(c + 1 > capacity)
      BY <2>1, <3>1, <3>4 DEF CreateCached, Slots
    <3> QED
      BY <1>1, <3>2, <3>3, <3>4
  <2> QED
    BY <2>1, <2>2, EmptySpan DEF AbsOpen, Queue, Bound
<1>2. CASE Clear \/ Free
  <2>1. /\ capacity' = capacity /\ Slots' = Slots /\ owner = "live"
        /\ \A i \in Slots' : content'[i] = Null
    BY <1>2 DEF Clear, Free, ClearSlots, Slots
  <2>2. owner' # "none" => HolesFirst' /\ Contents' = <<>>
    BY <2>1, EmptySpan
  <2>3. owner' = "live" \/ owner' # "live"
    OBVIOUS
  <2>4. HolesFirst'
    BY <2>2 DEF HolesFirst
  <2> QED
    BY <2>1, <2>2, <2>4 DEF AbsOpen, AbsDrain, Queue, Bound
<1> QED
  BY <1>1, <1>2

(* The circular array, its indices and the cache of objects together are a *)
(* FIFO: for every capacity elements come out in the order they went in,   *)
(* a full buffer gives up its oldest element and no other, and a cached    *)
(* object is an empty queue to its next user.                              *)
THEOREM FifoRefinement == Spec => ImplementsFifo
<1>1. Init => HolesFirst /\ Fifo!Init
  BY DEF Init, HolesFirst, Fifo!Init
<1>2. IInv /\ IInv' /\ HolesFirst /\ [Next]_vars => HolesFirst' /\ [Fifo!Next]_(Fifo!vars)
  <2> SUFFICES ASSUME IInv, IInv', HolesFirst, [Next]_vars
               PROVE  HolesFirst' /\ AbsStep
    BY AbsIsFifo
  <2>1. ASSUME NEW e \in Elements, Insert(e) PROVE HolesFirst' /\ AbsStep
    BY <2>1, InsertSimulates DEF AbsStep
  <2>2. CASE Pop
    BY <2>2, PopSimulates DEF AbsStep
  <2>3. CASE Next /\ ~Pop /\ ~(\E e \in Elements : Insert(e))
    BY <2>3, EmptyingSimulates DEF Next, AbsStep
  <2>4. CASE UNCHANGED vars
    <3>1. Queue' = Queue /\ Bound' = Bound /\ HolesFirst'
      BY <2>4, ZenonT(60) DEF vars, Queue, Bound, Contents, Occupied, Span, SpanLength, HolesFirst, Holes
    <3> QED
      BY <3>1 DEF AbsStep, AbsStutter
  <2> QED
    BY <2>1, <2>2, <2>3, <2>4
<1> QED
  BY <1>1, <1>2, Invariance, PTL DEF Spec, ImplementsFifo, Fifo!Spec
=============================================================================
