------------------------- MODULE BundleBufferProofs -------------------------
(***************************************************************************)
(* Proofs about BundleBuffer for every set of workers, every way ADUs are  *)
(* cut into fragments and whatever the network does.                       *)
(***************************************************************************)
EXTENDS BundleBuffer, Foundations, SequenceTheorems

Places == {"free", "history", "lookup", "data", "insert", "deliver"}

TypeOK ==
    /\ quality \in [Fragments -> {"good", "unverifiable", "no payload"}]
    /\ network \in [Fragments -> Nat]
    /\ push \in [Workers -> [at : Places, frag : Fragments \cup {None}, out : Seq(Nat)]]
    /\ \A w \in Workers : push[w].at # "free" => push[w].frag \in Fragments
    /\ historyLock \in Workers \cup {Timer, None}
    /\ dataLock \in Workers \cup {Timer, None}
    /\ history \in [Fragments -> 0 .. Never]
    /\ queue \in [Adus -> Seq(Nat)]
    /\ \A a \in Adus : \A k \in 1 .. Len(queue[a]) : queue[a][k] \in DOMAIN Sizes[a]
    /\ created \in [Adus -> Nat]
    /\ timer \in {"set", "data", "between", "history"}
    /\ now \in 0 .. MaxTime
    /\ delivered \in [Adus -> Seq(Seq(Nat))]
    /\ unguarded \in SUBSET Fragments
    /\ broken \in BOOLEAN

(* A fragment is one of an ADU, and its number one of that ADU's. *)
LEMMA FragmentParts ==
    ASSUME NEW f \in Fragments
    PROVE  f[1] \in Adus /\ f[2] \in DOMAIN Sizes[f[1]] /\ f[2] \in Nat \ {0} /\ f = <<f[1], f[2]>>
<1>1. PICK a \in Adus : f \in {a} \X DOMAIN Sizes[a]
  BY DEF Fragments
<1>2. Sizes[a] \in Seq(Nat \ {0})
  BY BufferAssumption
<1>3. DOMAIN Sizes[a] = 1 .. Len(Sizes[a]) /\ Len(Sizes[a]) \in Nat
  BY <1>2, LenProperties
<1> QED
  BY <1>1, <1>3

LEMMA FragmentOf ==
    ASSUME NEW a \in Adus, NEW i \in DOMAIN Sizes[a]
    PROVE  <<a, i>> \in Fragments
BY DEF Fragments

(* There is a place for a fragment in every queue, before the first that   *)
(* is not smaller.                                                         *)
LEMMA PlaceIs ==
    ASSUME NEW q \in Seq(Nat), NEW i \in Nat
    PROVE  /\ Place(q, i) \in 1 .. Len(q) + 1
           /\ Place(q, i) <= Len(q) => q[Place(q, i)] >= i
           /\ \A p1 \in 1 .. Place(q, i) - 1 : q[p1] < i
<1> DEFINE T == {p \in 1 .. Len(q) + 1 : p <= Len(q) => q[p] >= i}
<1>1. T \in SUBSET Nat /\ Len(q) + 1 \in T
  OBVIOUS
<1>2. PICK p \in T : \A k \in T : p <= k
  BY <1>1, LeastElement
<1>3. /\ p \in 1 .. Len(q) + 1
      /\ p <= Len(q) => q[p] >= i
      /\ \A p1 \in 1 .. p - 1 : q[p1] < i
  BY <1>2
<1> QED
  BY <1>3 DEF Place

(* The queue with the fragment in its place. *)
LEMMA PlacedIs ==
    ASSUME NEW q \in Seq(Nat), NEW i \in Nat
    PROVE  /\ Placed(q, i) \in Seq(Nat)
           /\ Len(Placed(q, i)) = Len(q) + 1
           /\ Placed(q, i)[Place(q, i)] = i
           /\ \A k \in 1 .. Len(q) + 1 :
                 Placed(q, i)[k] = IF k < Place(q, i) THEN q[k]
                                   ELSE IF k = Place(q, i) THEN i ELSE q[k - 1]
<1> DEFINE p == Place(q, i)
<1> DEFINE before == SubSeq(q, 1, p - 1)
<1> DEFINE after == SubSeq(q, p, Len(q))
<1>1. p \in 1 .. Len(q) + 1 /\ Len(q) \in Nat
  BY PlaceIs
<1>2. Placed(q, i) = before \o <<i>> \o after
  BY DEF Placed, InsertAt
<1> HIDE DEF p
<1>3. /\ before \in Seq(Nat) /\ Len(before) = p - 1
      /\ \A k \in 1 .. p - 1 : before[k] = q[k]
  <2>1. \A k \in 1 .. p - 1 : q[k] \in Nat
    BY <1>1
  <2> QED
    BY <1>1, <2>1, SubSeqProperties
<1>4. /\ after \in Seq(Nat) /\ Len(after) = Len(q) - p + 1
      /\ \A k \in 1 .. Len(q) - p + 1 : after[k] = q[p + k - 1]
  <2>1. \A k \in p .. Len(q) : q[k] \in Nat
    BY <1>1
  <2> QED
    BY <1>1, <2>1, SubSeqProperties
<1> HIDE DEF before, after
<1> DEFINE left == before \o <<i>>
<1>5. /\ left \in Seq(Nat) /\ Len(left) = p
      /\ \A k \in 1 .. p - 1 : left[k] = q[k]
      /\ left[p] = i
  <2>1. /\ <<i>> \in Seq(Nat) /\ Len(<<i>>) = 1 /\ <<i>>[1] = i
        /\ p \in Nat \ {0}
    BY <1>1
  <2>2. /\ left \in Seq(Nat) /\ Len(left) = Len(before) + 1
        /\ \A k \in 1 .. Len(before) + 1 :
              left[k] = IF k <= Len(before) THEN before[k] ELSE <<i>>[k - Len(before)]
    BY <1>3, <2>1, ConcatProperties
  <2> HIDE DEF left
  <2>3. ASSUME NEW k \in 1 .. p - 1 PROVE left[k] = q[k]
    <3>1. k \in 1 .. Len(before) + 1 /\ k <= Len(before)
      BY <1>3, <2>1
    <3> QED
      BY <1>3, <2>2, <3>1
  <2>4. left[p] = i
    <3>1. p \in 1 .. Len(before) + 1 /\ ~(p <= Len(before)) /\ p - Len(before) = 1
      BY <1>3, <2>1
    <3> QED
      BY <2>1, <2>2, <3>1
  <2> QED
    BY <1>3, <2>1, <2>2, <2>3, <2>4
<1> HIDE DEF left
<1>6. /\ left \o after \in Seq(Nat)
      /\ Len(left \o after) = Len(q) + 1
      /\ \A k \in 1 .. Len(q) + 1 :
            (left \o after)[k] = IF k <= p THEN left[k] ELSE after[k - p]
  <2>1. Len(left) + Len(after) = Len(q) + 1
    BY <1>1, <1>4, <1>5
  <2>2. /\ left \o after \in Seq(Nat)
        /\ Len(left \o after) = Len(left) + Len(after)
        /\ \A k \in 1 .. Len(left) + Len(after) :
              (left \o after)[k] = IF k <= Len(left) THEN left[k] ELSE after[k - Len(left)]
    BY <1>4, <1>5, ConcatProperties
  <2> QED
    BY <1>5, <2>1, <2>2
<1>7. \A k \in 1 .. Len(q) + 1 : k > p => after[k - p] = q[k - 1]
  BY <1>1, <1>4
<1>8. ASSUME NEW k \in 1 .. Len(q) + 1
      PROVE  (left \o after)[k] = IF k < p THEN q[k] ELSE IF k = p THEN i ELSE q[k - 1]
  <2>1. CASE k < p
    BY <1>1, <1>5, <1>6, <2>1
  <2>2. CASE k = p
    BY <1>1, <1>5, <1>6, <2>2
  <2>3. CASE k > p
    BY <1>1, <1>6, <1>7, <2>3
  <2>4. k < p \/ k = p \/ k > p
    BY <1>1
  <2> QED
    BY <1>1, <2>1, <2>2, <2>3, <2>4
<1>9. Placed(q, i) = left \o after
  BY <1>2 DEF left
<1>10. /\ Placed(q, i) \in Seq(Nat)
       /\ Len(Placed(q, i)) = Len(q) + 1
       /\ Placed(q, i)[p] = i
       /\ \A k \in 1 .. Len(q) + 1 :
             Placed(q, i)[k] = IF k < p THEN q[k] ELSE IF k = p THEN i ELSE q[k - 1]
  BY <1>1, <1>6, <1>8, <1>9, SMTT(30)
<1> QED
  BY <1>10 DEF p
-----------------------------------------------------------------------------
LEMMA Times ==
    ASSUME TypeOK
    PROVE  MaxTime \in Nat /\ Never \in Nat /\ now \in Nat /\ now \in 0 .. Never /\ Never \in 0 .. Never
<1>1. MaxTime \in Nat /\ now \in 0 .. MaxTime
  BY BufferAssumption DEF TypeOK
<1> QED
  BY <1>1 DEF Never

LEMMA InitType == Init => TypeOK
<1> SUFFICES ASSUME Init PROVE TypeOK
  OBVIOUS
<1>1. PICK s \in Scenarios : quality = s.quality /\ network = s.copies
  BY DEF Init
<1>2. quality \in [Fragments -> {"good", "unverifiable", "no payload"}] /\ network \in [Fragments -> Nat]
  BY <1>1, BufferAssumption
<1>3. <<>> \in Seq(Nat) /\ Len(<<>>) = 0 /\ <<>> \in Seq(Seq(Nat))
  OBVIOUS
<1>4. push \in [Workers -> [at : Places, frag : Fragments \cup {None}, out : Seq(Nat)]]
      /\ \A w \in Workers : push[w].at = "free"
  BY <1>3 DEF Init, Free, Places
<1>5. MaxTime \in Nat /\ Never \in Nat /\ Never \in 0 .. Never
  <2>1. MaxTime \in Nat
    BY BufferAssumption
  <2> QED
    BY <2>1 DEF Never
<1>6. history \in [Fragments -> 0 .. Never] /\ now \in 0 .. MaxTime
  BY <1>5 DEF Init
<1>7. /\ queue \in [Adus -> Seq(Nat)] /\ delivered \in [Adus -> Seq(Seq(Nat))]
      /\ created \in [Adus -> Nat]
      /\ \A a \in Adus : queue[a] = <<>>
  BY <1>3 DEF Init
<1>8. \A a \in Adus : \A k \in 1 .. Len(queue[a]) : queue[a][k] \in DOMAIN Sizes[a]
  <2>1. \A a \in Adus : 1 .. Len(queue[a]) = {}
    BY <1>3, <1>7
  <2> QED
    BY <2>1
<1>9. /\ historyLock = None /\ dataLock = None /\ timer = "set" /\ unguarded = {} /\ broken = FALSE
  BY DEF Init
<1> QED
  BY <1>2, <1>4, <1>6, <1>7, <1>8, <1>9 DEF TypeOK

(* A worker that comes from one place to another keeps its fragment. *)
LEMMA GoesType ==
    ASSUME TypeOK, NEW w \in Workers, NEW place \in Places, Goes(w, place), push[w].at # "free"
    PROVE  /\ push' \in [Workers -> [at : Places, frag : Fragments \cup {None}, out : Seq(Nat)]]
           /\ \A v \in Workers : push'[v].at # "free" => push'[v].frag \in Fragments
           /\ push'[w] = [push[w] EXCEPT !.at = place]
           /\ \A v \in Workers \ {w} : push'[v] = push[v]
BY SMTT(30), ZenonT(60) DEF TypeOK, Goes

LEMMA ReturnsType ==
    ASSUME TypeOK, NEW w \in Workers, Returns(w)
    PROVE  /\ push' \in [Workers -> [at : Places, frag : Fragments \cup {None}, out : Seq(Nat)]]
           /\ \A v \in Workers : push'[v].at # "free" => push'[v].frag \in Fragments
           /\ push'[w] = Free
           /\ \A v \in Workers \ {w} : push'[v] = push[v]
<1>1. Free \in [at : Places, frag : Fragments \cup {None}, out : Seq(Nat)] /\ Free.at = "free"
  BY DEF Free, Places
<1> QED
  BY <1>1 DEF TypeOK, Returns

(* The queue of an ADU stays a sequence of its fragments. *)
LEMMA QueueType ==
    ASSUME TypeOK, NEW f \in Fragments, NEW q \in Seq(Nat), SetQueue(f[1], q),
           \A k \in 1 .. Len(q) : q[k] \in DOMAIN Sizes[f[1]]
    PROVE  /\ queue' \in [Adus -> Seq(Nat)]
           /\ \A a \in Adus : \A k \in 1 .. Len(queue'[a]) : queue'[a][k] \in DOMAIN Sizes[a]
BY FragmentParts DEF TypeOK, SetQueue

LEMMA PlacedType ==
    ASSUME TypeOK, NEW f \in Fragments
    PROVE  /\ Placed(queue[f[1]], f[2]) \in Seq(Nat)
           /\ \A k \in 1 .. Len(Placed(queue[f[1]], f[2])) :
                 Placed(queue[f[1]], f[2])[k] \in DOMAIN Sizes[f[1]]
<1> DEFINE q == queue[f[1]]
<1>1. /\ q \in Seq(Nat) /\ f[2] \in Nat /\ f[2] \in DOMAIN Sizes[f[1]]
      /\ \A k \in 1 .. Len(q) : q[k] \in DOMAIN Sizes[f[1]]
  BY FragmentParts DEF TypeOK
<1> HIDE DEF q
<1>2. Place(q, f[2]) \in 1 .. Len(q) + 1 /\ Len(q) \in Nat
  BY <1>1, PlaceIs, SMTT(30)
<1>3. /\ Placed(q, f[2]) \in Seq(Nat) /\ Len(Placed(q, f[2])) = Len(q) + 1
      /\ \A k \in 1 .. Len(q) + 1 :
            Placed(q, f[2])[k] = IF k < Place(q, f[2]) THEN q[k]
                                 ELSE IF k = Place(q, f[2]) THEN f[2] ELSE q[k - 1]
  BY <1>1, PlacedIs
<1>4. ASSUME NEW k \in 1 .. Len(q) + 1 PROVE Placed(q, f[2])[k] \in DOMAIN Sizes[f[1]]
  <2>1. CASE k < Place(q, f[2])
    BY <1>1, <1>2, <1>3, <2>1
  <2>2. CASE k = Place(q, f[2])
    BY <1>1, <1>3, <2>2
  <2>3. CASE k > Place(q, f[2])
    BY <1>1, <1>2, <1>3, <2>3, SMTT(30)
  <2> QED
    BY <1>2, <2>1, <2>2, <2>3
<1>5. /\ Placed(q, f[2]) \in Seq(Nat)
      /\ \A k \in 1 .. Len(Placed(q, f[2])) : Placed(q, f[2])[k] \in DOMAIN Sizes[f[1]]
  BY <1>3, <1>4
<1> QED
  BY <1>5 DEF q

LEMMA HandsOverType ==
    ASSUME TypeOK, NEW a \in Adus, NEW out \in Seq(Nat), HandsOver(a, out)
    PROVE  delivered' \in [Adus -> Seq(Seq(Nat))]
<1>1. Append(delivered[a], out) \in Seq(Seq(Nat))
  BY AppendProperties DEF TypeOK
<1> QED
  BY <1>1 DEF TypeOK, HandsOver

LEMMA PushType ==
    ASSUME TypeOK, NEW w \in Workers,
           \/ \E a \in Whole : PushWhole(w, a)
           \/ \E f \in Fragments : PushFragment(w, f)
           \/ Push(w)
    PROVE  TypeOK'
<1>1. ASSUME NEW a \in Whole, PushWhole(w, a) PROVE TypeOK'
  <2>1. a \in Adus /\ <<1>> \in Seq(Nat) /\ 1 \in DOMAIN Sizes[a]
    <3>1. a \in Adus /\ Len(Sizes[a]) = 1 /\ Sizes[a] \in Seq(Nat \ {0})
      BY BufferAssumption
    <3> QED
      BY <3>1, LenProperties
  <2>2. delivered' \in [Adus -> Seq(Seq(Nat))]
    BY <1>1, <2>1, HandsOverType DEF PushWhole, TypeOK
  <2>3. network' \in [Fragments -> Nat]
    <3>1. <<a, 1>> \in Fragments /\ network \in [Fragments -> Nat]
      BY <2>1, FragmentOf DEF TypeOK
    <3>2. PICK x \in Nat : x = network[<<a, 1>>]
      BY <3>1
    <3>3. x > 0 /\ network' = [network EXCEPT ![<<a, 1>>] = x - 1]
      BY <1>1, <3>2 DEF PushWhole
    <3>4. x - 1 \in Nat
      BY <3>3
    <3> QED
      BY <3>1, <3>3, <3>4
  <2> QED
    BY <1>1, <2>2, <2>3 DEF PushWhole, TypeOK
<1>2. ASSUME NEW f \in Fragments, PushFragment(w, f) PROVE TypeOK'
  <2>1. network' \in [Fragments -> Nat]
    <3>1. PICK x \in Nat : x = network[f]
      BY DEF TypeOK
    <3>2. x > 0 /\ network' = [network EXCEPT ![f] = x - 1]
      BY <1>2, <3>1 DEF PushFragment
    <3>3. x - 1 \in Nat
      BY <3>2
    <3> QED
      BY <3>2, <3>3 DEF TypeOK
  <2>2. [at |-> "history", frag |-> f, out |-> <<>>] \in
            [at : Places, frag : Fragments \cup {None}, out : Seq(Nat)]
    BY DEF Places
  <2>3. /\ push' \in [Workers -> [at : Places, frag : Fragments \cup {None}, out : Seq(Nat)]]
        /\ \A v \in Workers : push'[v].at # "free" => push'[v].frag \in Fragments
    BY <1>2, <2>2 DEF PushFragment, TypeOK
  <2> QED
    BY <1>2, <2>1, <2>3 DEF PushFragment, TypeOK
<1>3. CASE HistoryLock(w) \/ HistoryTimeout(w) \/ DataLock(w)
  <2>1. /\ push' \in [Workers -> [at : Places, frag : Fragments \cup {None}, out : Seq(Nat)]]
        /\ \A v \in Workers : push'[v].at # "free" => push'[v].frag \in Fragments
    BY <1>3, GoesType DEF HistoryLock, HistoryTimeout, DataLock, Places
  <2> QED
    BY <1>3, <2>1 DEF HistoryLock, HistoryTimeout, DataLock, TypeOK
<1>4. CASE HistoryLookup(w)
  <2>1. /\ push' \in [Workers -> [at : Places, frag : Fragments \cup {None}, out : Seq(Nat)]]
        /\ \A v \in Workers : push'[v].at # "free" => push'[v].frag \in Fragments
    BY <1>4, GoesType, ReturnsType DEF HistoryLookup, Places
  <2>2. history' \in [Fragments -> 0 .. Never]
    BY <1>4, Times DEF HistoryLookup, Recorded, TypeOK
  <2> QED
    BY <1>4, <2>1, <2>2 DEF HistoryLookup, TypeOK
<1>5. CASE DataTimeout(w)
  BY <1>5, ReturnsType DEF DataTimeout, TypeOK
<1>6. CASE InsertFirst(w)
  <2>1. push[w].frag \in Fragments
    BY <1>6 DEF InsertFirst, TypeOK
  <2>2. PICK f \in Fragments : f = push[w].frag
    BY <2>1
  <2>3. f[1] \in Adus /\ f[2] \in DOMAIN Sizes[f[1]] /\ f[2] \in Nat
    BY FragmentParts
  <2>4. <<f[2]>> \in Seq(Nat) /\ \A k \in 1 .. Len(<<f[2]>>) : <<f[2]>>[k] \in DOMAIN Sizes[f[1]]
    BY <2>3
  <2>5. /\ queue' \in [Adus -> Seq(Nat)]
        /\ \A a \in Adus : \A k \in 1 .. Len(queue'[a]) : queue'[a][k] \in DOMAIN Sizes[a]
    BY <1>6, <2>2, <2>4, QueueType DEF InsertFirst
  <2>6. created' \in [Adus -> Nat]
    <3>1. created' = [created EXCEPT ![f[1]] = now]
      BY <1>6, <2>2 DEF InsertFirst
    <3> QED
      BY <3>1, Times DEF TypeOK
  <2>7. dataLock' = None
    BY <1>6 DEF InsertFirst, Unlock
  <2> QED
    BY <1>6, <2>5, <2>6, <2>7, ReturnsType DEF InsertFirst, TypeOK
<1>7. CASE InsertMore(w)
  <2>1. PICK f \in Fragments : f = push[w].frag
    BY <1>7 DEF InsertMore, TypeOK
  <2>2. /\ queue' \in [Adus -> Seq(Nat)]
        /\ \A a \in Adus : \A k \in 1 .. Len(queue'[a]) : queue'[a][k] \in DOMAIN Sizes[a]
    BY <1>7, <2>1, PlacedType, QueueType DEF InsertMore
  <2>3. dataLock' = None
    BY <1>7 DEF InsertMore, Unlock
  <2> QED
    BY <1>7, <2>2, <2>3, ReturnsType DEF InsertMore, TypeOK
<1>8. CASE InsertLast(w)
  <2>1. PICK f \in Fragments : f = push[w].frag
    BY <1>8 DEF InsertLast, TypeOK
  <2>2. f[1] \in Adus
    BY FragmentParts
  <2>3. Placed(queue[f[1]], f[2]) \in Seq(Nat)
    BY PlacedType
  <2>4. /\ push' \in [Workers -> [at : Places, frag : Fragments \cup {None}, out : Seq(Nat)]]
        /\ \A v \in Workers : push'[v].at # "free" => push'[v].frag \in Fragments
    BY <1>8, <2>1, <2>3, ZenonT(60) DEF InsertLast, TypeOK, Places
  <2>5. /\ queue' \in [Adus -> Seq(Nat)]
        /\ \A a \in Adus : \A k \in 1 .. Len(queue'[a]) : queue'[a][k] \in DOMAIN Sizes[a]
    <3>1. PICK q \in Seq(Nat) : q = <<>>
      <4>1. <<>> \in Seq(Nat)
        OBVIOUS
      <4> QED
        BY <4>1
    <3>2. 1 .. Len(q) = {}
      BY <3>1
    <3>3. SetQueue(f[1], q)
      BY <1>8, <2>1, <3>1 DEF InsertLast, Forget
    <3> QED
      BY <3>2, <3>3, QueueType
  <2>6. created' \in [Adus -> Nat] /\ dataLock' = None
    BY <1>8 DEF InsertLast, Forget, Unlock, TypeOK
  <2> QED
    BY <1>8, <2>4, <2>5, <2>6 DEF InsertLast, TypeOK
<1>9. CASE InsertFails(w)
  <2>1. PICK f \in Fragments : f = push[w].frag
    BY <1>9 DEF InsertFails, TypeOK
  <2>2. /\ queue' \in [Adus -> Seq(Nat)]
        /\ \A a \in Adus : \A k \in 1 .. Len(queue'[a]) : queue'[a][k] \in DOMAIN Sizes[a]
    <3>1. queue' = queue \/ SetQueue(f[1], Placed(queue[f[1]], f[2]))
      BY <1>9, <2>1 DEF InsertFails
    <3> QED
      BY <3>1, PlacedType, QueueType DEF TypeOK
  <2> QED
    BY <1>9, <2>2, ReturnsType DEF InsertFails, TypeOK
<1>10. CASE Deliver(w)
  <2>1. PICK f \in Fragments : f = push[w].frag
    BY <1>10 DEF Deliver, TypeOK
  <2>2. f[1] \in Adus /\ push[w].out \in Seq(Nat)
    BY FragmentParts DEF TypeOK
  <2>3. delivered' \in [Adus -> Seq(Seq(Nat))]
    BY <1>10, <2>1, <2>2, HandsOverType DEF Deliver
  <2> QED
    BY <1>10, <2>3, ReturnsType DEF Deliver, TypeOK
<1> QED
  BY <1>1, <1>2, <1>3, <1>4, <1>5, <1>6, <1>7, <1>8, <1>9, <1>10 DEF Push

LEMMA CleanupType ==
    ASSUME TypeOK, Cleanup \/ Clear \/ Tick
    PROVE  TypeOK'
<1>1. CASE CleanupLockData \/ CleanupLockHistory \/ CleanupTimeout
  BY <1>1 DEF CleanupLockData, CleanupLockHistory, CleanupTimeout, Reschedule, TypeOK
<1>2. CASE CleanupData
  <2>0. <<>> \in Seq(Nat) /\ 1 .. Len(<<>>) = {} /\ 0 \in Nat
    OBVIOUS
  <2>1. queue' \in [Adus -> Seq(Nat)] /\ created' \in [Adus -> Nat]
    BY <1>2, <2>0 DEF CleanupData, TypeOK
  <2>2. \A a \in Adus : \A k \in 1 .. Len(queue'[a]) : queue'[a][k] \in DOMAIN Sizes[a]
    <3> SUFFICES ASSUME NEW a \in Adus PROVE \A k \in 1 .. Len(queue'[a]) : queue'[a][k] \in DOMAIN Sizes[a]
      OBVIOUS
    <3>1. queue'[a] = queue[a] \/ (queue'[a] = <<>> /\ 1 .. Len(queue'[a]) = {})
      BY <1>2, <2>0 DEF CleanupData
    <3> QED
      BY <3>1 DEF TypeOK
  <2> QED
    BY <1>2, <2>1, <2>2 DEF CleanupData, TypeOK
<1>3. CASE CleanupHistory
  <2>1. history' \in [Fragments -> 0 .. Never]
    BY <1>3, Times DEF CleanupHistory, TypeOK
  <2> QED
    BY <1>3, <2>1 DEF CleanupHistory, Outdated, TypeOK
<1>4. CASE Clear
  <2>0. <<>> \in Seq(Nat) /\ 1 .. Len(<<>>) = {} /\ 0 \in Nat
    OBVIOUS
  <2>1. queue' \in [Adus -> Seq(Nat)] /\ created' \in [Adus -> Nat]
    BY <1>4, <2>0 DEF Clear, TypeOK
  <2>2. \A a \in Adus : \A k \in 1 .. Len(queue'[a]) : queue'[a][k] \in DOMAIN Sizes[a]
    <3> SUFFICES ASSUME NEW a \in Adus PROVE \A k \in 1 .. Len(queue'[a]) : queue'[a][k] \in DOMAIN Sizes[a]
      OBVIOUS
    <3>1. queue'[a] = queue[a] \/ (queue'[a] = <<>> /\ 1 .. Len(queue'[a]) = {})
      BY <1>4, <2>0 DEF Clear
    <3> QED
      BY <3>1 DEF TypeOK
  <2> QED
    BY <1>4, <2>1, <2>2 DEF Clear, TypeOK
<1>5. CASE Tick
  <2>1. now' \in 0 .. MaxTime
    BY <1>5, Times DEF Tick
  <2> QED
    BY <1>5, <2>1 DEF Tick, TypeOK
<1> QED
  BY <1>1, <1>2, <1>3, <1>4, <1>5 DEF Cleanup

LEMMA TypeCorrect == Spec => []TypeOK
<1>1. TypeOK /\ [Next]_vars => TypeOK'
  <2> SUFFICES ASSUME TypeOK, [Next]_vars PROVE TypeOK'
    OBVIOUS
  <2>1. CASE UNCHANGED vars
    BY <2>1 DEF vars, TypeOK
  <2> QED
    BY <2>1, PushType, CleanupType DEF Next
<1> QED
  BY <1>1, InitType, PTL DEF Spec
-----------------------------------------------------------------------------
(* Each lock has the owner its place says.                                 *)

LEMMA InitLocks == Init => LocksGivenBack
<1> SUFFICES ASSUME Init PROVE LocksGivenBack
  OBVIOUS
<1>1. \A w \in Workers : push[w].at = "free"
  BY DEF Init, Free
<1>2. historyLock = None /\ dataLock = None /\ timer = "set"
  BY DEF Init
<1>3. None \notin Workers /\ Timer # None
  BY BufferAssumption
<1> QED
  BY <1>1, <1>2, <1>3 DEF LocksGivenBack

LEMMA PushLocks ==
    ASSUME TypeOK, LocksGivenBack, NEW w \in Workers,
           \/ \E a \in Whole : PushWhole(w, a)
           \/ \E f \in Fragments : PushFragment(w, f)
           \/ Push(w)
    PROVE  LocksGivenBack'
<1>0. Timer \notin Workers /\ None \notin Workers /\ Timer # None
  BY BufferAssumption
<1>1. ASSUME NEW a \in Whole, PushWhole(w, a) PROVE LocksGivenBack'
  BY <1>1 DEF PushWhole, LocksGivenBack
<1>2. ASSUME NEW f \in Fragments, PushFragment(w, f) PROVE LocksGivenBack'
  <2>1. /\ push[w].at = "free" /\ push'[w].at = "history"
        /\ \A v \in Workers \ {w} : push'[v] = push[v]
        /\ UNCHANGED <<historyLock, dataLock, timer, broken>>
    <3>1. push[w] = Free /\ Free.at = "free"
      BY <1>2 DEF PushFragment, Free
    <3>2. push' = [push EXCEPT ![w] = [at |-> "history", frag |-> f, out |-> <<>>]]
          /\ push \in [Workers -> [at : Places, frag : Fragments \cup {None}, out : Seq(Nat)]]
      BY <1>2 DEF PushFragment, TypeOK
    <3>3. UNCHANGED <<historyLock, dataLock, timer, broken>>
      BY <1>2 DEF PushFragment
    <3> QED
      BY <3>1, <3>2, <3>3
  <2> QED
    BY <2>1 DEF LocksGivenBack
<1>3. CASE HistoryLock(w)
  <2>1. /\ push'[w].at = "lookup" /\ \A v \in Workers \ {w} : push'[v] = push[v]
        /\ push[w].at = "history" /\ historyLock = None /\ historyLock' = w
        /\ UNCHANGED <<dataLock, timer, broken>>
    BY <1>3, GoesType DEF HistoryLock, Places
  <2> QED
    BY <1>0, <2>1 DEF LocksGivenBack
<1>4. CASE HistoryLookup(w)
  <2>1. /\ push'[w].at \in {"free", "data"} /\ \A v \in Workers \ {w} : push'[v] = push[v]
        /\ push[w].at = "lookup" /\ historyLock' = None
        /\ UNCHANGED <<dataLock, timer, broken>>
    <3>1. /\ push[w].at = "lookup" /\ historyLock' = None
          /\ Goes(w, "data") \/ Returns(w)
          /\ UNCHANGED <<dataLock, timer, broken>>
      BY <1>4 DEF HistoryLookup
    <3>2. CASE Goes(w, "data")
      BY <3>1, <3>2, GoesType DEF Places
    <3>3. CASE Returns(w)
      BY <3>1, <3>3, ReturnsType DEF Free
    <3> QED
      BY <3>1, <3>2, <3>3
  <2> QED
    BY <1>0, <2>1 DEF LocksGivenBack
<1>5. CASE HistoryTimeout(w)
  <2>1. /\ push'[w].at = "data" /\ \A v \in Workers \ {w} : push'[v] = push[v]
        /\ push[w].at = "history"
        /\ UNCHANGED <<historyLock, dataLock, timer, broken>>
    BY <1>5, GoesType DEF HistoryTimeout, Places
  <2> QED
    BY <2>1 DEF LocksGivenBack
<1>6. CASE DataLock(w)
  <2>1. /\ push'[w].at = "insert" /\ \A v \in Workers \ {w} : push'[v] = push[v]
        /\ push[w].at = "data" /\ dataLock = None /\ dataLock' = w
        /\ UNCHANGED <<historyLock, timer, broken>>
    BY <1>6, GoesType DEF DataLock, Places
  <2> QED
    BY <1>0, <2>1 DEF LocksGivenBack
<1>7. CASE DataTimeout(w) \/ Deliver(w)
  <2>1. /\ push'[w].at = "free" /\ \A v \in Workers \ {w} : push'[v] = push[v]
        /\ push[w].at \in {"data", "deliver"}
        /\ UNCHANGED <<historyLock, dataLock, timer, broken>>
    BY <1>7, ReturnsType DEF DataTimeout, Deliver, Free
  <2> QED
    BY <2>1 DEF LocksGivenBack
<1>8. CASE InsertFirst(w) \/ InsertMore(w) \/ InsertLast(w)
  <2>1. /\ push'[w].at \in {"free", "deliver"} /\ \A v \in Workers \ {w} : push'[v] = push[v]
        /\ push[w].at = "insert" /\ dataLock' = None
        /\ UNCHANGED <<historyLock, timer, broken>>
    <3>1. CASE InsertFirst(w) \/ InsertMore(w)
      BY <3>1, ReturnsType DEF InsertFirst, InsertMore, Unlock, Free
    <3>2. CASE InsertLast(w)
      BY <3>2 DEF InsertLast, Unlock, TypeOK
    <3> QED
      BY <1>8, <3>1, <3>2
  <2> QED
    BY <1>0, <2>1 DEF LocksGivenBack
<1>9. CASE InsertFails(w)
  <2>1. /\ push'[w].at = "free" /\ \A v \in Workers \ {w} : push'[v] = push[v]
        /\ push[w].at = "insert" /\ broken' = TRUE
        /\ UNCHANGED <<historyLock, dataLock, timer>>
    BY <1>9, ReturnsType DEF InsertFails, Free
  <2> QED
    BY <2>1 DEF LocksGivenBack
<1> QED
  BY <1>1, <1>2, <1>3, <1>4, <1>5, <1>6, <1>7, <1>8, <1>9 DEF Push

LEMMA CleanupLocks ==
    ASSUME LocksGivenBack, Cleanup \/ Clear \/ Tick
    PROVE  LocksGivenBack'
<1>0. Timer \notin Workers /\ None \notin Workers /\ Timer # None
  BY BufferAssumption
<1>1. UNCHANGED <<push, broken>>
  BY DEF Cleanup, CleanupLockData, CleanupData, CleanupLockHistory, CleanupHistory,
         CleanupTimeout, Clear, Tick
<1>2. CASE CleanupLockData
  BY <1>0, <1>1, <1>2 DEF CleanupLockData, LocksGivenBack
<1>3. CASE CleanupData
  BY <1>0, <1>1, <1>3 DEF CleanupData, LocksGivenBack
<1>4. CASE CleanupLockHistory
  BY <1>0, <1>1, <1>4 DEF CleanupLockHistory, LocksGivenBack
<1>5. CASE CleanupHistory
  BY <1>0, <1>1, <1>5 DEF CleanupHistory, LocksGivenBack
<1>6. CASE CleanupTimeout \/ Clear \/ Tick
  BY <1>0, <1>1, <1>6 DEF CleanupTimeout, Clear, Tick, Reschedule, LocksGivenBack
<1> QED
  BY <1>2, <1>3, <1>4, <1>5, <1>6 DEF Cleanup

(* A lock is held by the thread in its critical section and by no other:   *)
(* no payload callback runs under a lock, and only a push that met a       *)
(* fragment without a payload leaves the data lock behind.                 *)
THEOREM LocksHaveOwners == Spec => []LocksGivenBack
<1>1. TypeOK /\ LocksGivenBack /\ [Next]_vars => LocksGivenBack'
  <2> SUFFICES ASSUME TypeOK, LocksGivenBack, [Next]_vars PROVE LocksGivenBack'
    OBVIOUS
  <2>1. CASE UNCHANGED vars
    BY <2>1 DEF vars, LocksGivenBack
  <2> QED
    BY <2>1, PushLocks, CleanupLocks DEF Next
<1> QED
  BY <1>1, InitLocks, TypeCorrect, PTL DEF Spec
-----------------------------------------------------------------------------
(* A fragment the history guards is in one place at most.                  *)

AtMostOne(S) == \A x, y \in S : x = y
PositionsOf(s, i) == {p \in DOMAIN s : s[p] = i}

Calls(f) == {w \in Workers : push[w].frag = f /\ push[w].at \in {"data", "insert"}}
Queued(f) == PositionsOf(queue[f[1]], f[2])
Outs(f) == {w \in Workers : /\ push[w].at = "deliver"
                            /\ push[w].frag[1] = f[1]
                            /\ f[2] \in ToSet(push[w].out)}
Given(f) == {n \in DOMAIN delivered[f[1]] : f[2] \in ToSet(delivered[f[1]][n])}

UsedOnce(f) ==
    /\ AtMostOne(Calls(f)) /\ AtMostOne(Queued(f)) /\ AtMostOne(Outs(f)) /\ AtMostOne(Given(f))
    /\ \A w \in Outs(f) : AtMostOne(PositionsOf(push[w].out, f[2]))
    /\ \A n \in Given(f) : AtMostOne(PositionsOf(delivered[f[1]][n], f[2]))
    /\ history[f] = Never => Calls(f) = {} /\ Queued(f) = {} /\ Outs(f) = {} /\ Given(f) = {}
    /\ Calls(f) # {} => Queued(f) = {} /\ Outs(f) = {} /\ Given(f) = {}
    /\ Queued(f) # {} => Outs(f) = {} /\ Given(f) = {}
    /\ Outs(f) # {} => Given(f) = {}

Guarded == {f \in Fragments \ unguarded : f[1] \notin Whole}
Once == \A f \in Guarded : UsedOnce(f)

LEMMA PositionsAndSet ==
    ASSUME NEW s, NEW i
    PROVE  i \in ToSet(s) <=> PositionsOf(s, i) # {}
BY DEF ToSet, PositionsOf

(* A fragment put into a queue that has it not is there once, and another  *)
(* fragment is there as often as before.                                   *)
LEMMA PlacedOnce ==
    ASSUME NEW q \in Seq(Nat), NEW i \in Nat, PositionsOf(q, i) = {}
    PROVE  AtMostOne(PositionsOf(Placed(q, i), i))
<1>1. /\ Len(q) \in Nat /\ Place(q, i) \in 1 .. Len(q) + 1
      /\ \A k \in 1 .. Len(q) : q[k] # i
  <2>1. Len(q) \in Nat /\ DOMAIN q = 1 .. Len(q)
    BY LenProperties
  <2>2. \A k \in DOMAIN q : q[k] # i
    BY DEF PositionsOf
  <2> QED
    BY <2>1, <2>2, PlaceIs
<1>2. /\ DOMAIN Placed(q, i) = 1 .. Len(q) + 1
      /\ \A k \in 1 .. Len(q) + 1 :
            Placed(q, i)[k] = IF k < Place(q, i) THEN q[k]
                              ELSE IF k = Place(q, i) THEN i ELSE q[k - 1]
  BY PlacedIs, LenProperties, ZenonT(60)
<1>3. ASSUME NEW k \in 1 .. Len(q) + 1, Placed(q, i)[k] = i
      PROVE  k = Place(q, i)
  <2>1. CASE k < Place(q, i)
    BY <1>1, <1>2, <1>3, <2>1
  <2>2. CASE k > Place(q, i)
    <3>1. k - 1 \in 1 .. Len(q) /\ Placed(q, i)[k] = q[k - 1]
      BY <1>1, <1>2, <2>2
    <3> QED
      BY <1>1, <1>3, <3>1
  <2> QED
    BY <1>1, <2>1, <2>2
<1> QED
  BY <1>2, <1>3 DEF AtMostOne, PositionsOf

LEMMA PlacedAnother ==
    ASSUME NEW q \in Seq(Nat), NEW i \in Nat, NEW j \in Nat, i # j
    PROVE  /\ PositionsOf(q, i) = {} => PositionsOf(Placed(q, j), i) = {}
           /\ AtMostOne(PositionsOf(q, i)) => AtMostOne(PositionsOf(Placed(q, j), i))
<1> DEFINE before(k) == IF k < Place(q, j) THEN k ELSE k - 1
<1>1. Len(q) \in Nat /\ Place(q, j) \in 1 .. Len(q) + 1
  BY PlaceIs
<1>2. /\ DOMAIN Placed(q, j) = 1 .. Len(q) + 1
      /\ \A k \in 1 .. Len(q) + 1 :
            Placed(q, j)[k] = IF k < Place(q, j) THEN q[k]
                              ELSE IF k = Place(q, j) THEN j ELSE q[k - 1]
  BY PlacedIs, LenProperties
<1>3. ASSUME NEW k \in PositionsOf(Placed(q, j), i)
      PROVE  before(k) \in PositionsOf(q, i) /\ k # Place(q, j) /\ k \in 1 .. Len(q) + 1
  <2>1. k \in 1 .. Len(q) + 1 /\ Placed(q, j)[k] = i
    BY <1>2 DEF PositionsOf
  <2>2. CASE k < Place(q, j)
    BY <1>1, <1>2, <2>1, <2>2 DEF PositionsOf
  <2>3. CASE k > Place(q, j)
    <3>1. k - 1 \in 1 .. Len(q) /\ Placed(q, j)[k] = q[k - 1] /\ ~(k < Place(q, j))
      BY <1>1, <1>2, <2>1, <2>3
    <3> QED
      BY <2>1, <2>3, <3>1, <1>1 DEF PositionsOf
  <2>4. k # Place(q, j)
    BY <1>1, <1>2, <2>1
  <2> QED
    BY <1>1, <2>1, <2>2, <2>3, <2>4
<1>4. ASSUME NEW k \in PositionsOf(Placed(q, j), i), NEW m \in PositionsOf(Placed(q, j), i),
             before(k) = before(m)
      PROVE  k = m
  BY <1>1, <1>3, <1>4
<1> QED
  BY <1>3, <1>4 DEF AtMostOne

(* Steps that take no fragment further. *)
LEMMA Shrinks ==
    ASSUME NEW f \in Fragments, UsedOnce(f),
           Calls(f)' \subseteq Calls(f),
           Outs(f)' \subseteq Outs(f), \A w \in Outs(f)' : push'[w].out = push[w].out,
           queue'[f[1]] = queue[f[1]] \/ queue'[f[1]] = <<>>,
           delivered'[f[1]] = delivered[f[1]],
           history'[f] = Never => history[f] = Never
    PROVE  UsedOnce(f)'
<1>1. Queued(f)' \subseteq Queued(f)
  <2>1. DOMAIN <<>> = {}
    OBVIOUS
  <2> QED
    BY <2>1 DEF Queued, PositionsOf
<1>2. Given(f)' = Given(f)
  BY DEF Given
<1>3. \A w \in Outs(f)' : PositionsOf(push'[w].out, f[2]) = PositionsOf(push[w].out, f[2])
  OBVIOUS
<1>4. \A n \in Given(f)' : delivered'[f[1]][n] = delivered[f[1]][n]
  OBVIOUS
<1> HIDE DEF Calls, Outs, Given, Queued, PositionsOf
<1> QED
  BY <1>1, <1>2, <1>3, <1>4, SMTT(30) DEF UsedOnce, AtMostOne

(* A step of one worker leaves the others' calls and outputs alone. *)
LEMMA OthersStay ==
    ASSUME TypeOK, NEW f, NEW w \in Workers,
           \A v \in Workers \ {w} : push'[v] = push[v]
    PROVE  /\ Calls(f)' \ {w} = Calls(f) \ {w}
           /\ Outs(f)' \ {w} = Outs(f) \ {w}
           /\ \A v \in Outs(f)' \ {w} : push'[v].out = push[v].out
BY DEF Calls, Outs

(* A worker that leaves without a result, or that has not looked up yet. *)
LEMMA LeavesOnce ==
    ASSUME TypeOK, NEW f \in Fragments, UsedOnce(f), NEW w \in Workers,
           \A v \in Workers \ {w} : push'[v] = push[v],
           push'[w].at \in {"free", "history", "lookup"},
           queue'[f[1]] = queue[f[1]],
           delivered'[f[1]] = delivered[f[1]],
           history'[f] = Never => history[f] = Never
    PROVE  UsedOnce(f)'
<1>1. w \notin Calls(f)' /\ w \notin Outs(f)'
  BY DEF Calls, Outs
<1>2. /\ Calls(f)' \subseteq Calls(f) /\ Outs(f)' \subseteq Outs(f)
      /\ \A v \in Outs(f)' : push'[v].out = push[v].out
  BY <1>1, OthersStay
<1> QED
  BY <1>2, Shrinks

LEMMA LookupOnce ==
    ASSUME TypeOK, NEW f \in Fragments, UsedOnce(f), NEW w \in Workers, HistoryLookup(w)
    PROVE  UsedOnce(f)'
<1>1. push[w].at = "lookup" /\ push[w].frag \in Fragments /\ UNCHANGED <<queue, delivered>>
  BY DEF HistoryLookup, TypeOK
<1>2. CASE history[push[w].frag] # Never
  <2>1. Returns(w) /\ history' = history
    BY <1>2 DEF HistoryLookup
  <2>2. push'[w].at = "free" /\ \A v \in Workers \ {w} : push'[v] = push[v]
    BY <2>1, ReturnsType DEF Free
  <2> QED
    BY <1>1, <2>1, <2>2, LeavesOnce
<1>3. CASE history[push[w].frag] = Never
  <2>1. Goes(w, "data") /\ history' = [history EXCEPT ![push[w].frag] = now]
    BY <1>3 DEF HistoryLookup, Recorded
  <2>2. /\ push'[w].at = "data" /\ push'[w].frag = push[w].frag
        /\ \A v \in Workers \ {w} : push'[v] = push[v]
    <3>1. /\ push'[w] = [push[w] EXCEPT !.at = "data"]
          /\ \A v \in Workers \ {w} : push'[v] = push[v]
      BY <1>1, <2>1, GoesType DEF Places
    <3>2. push[w] \in [at : Places, frag : Fragments \cup {None}, out : Seq(Nat)]
      BY DEF TypeOK
    <3> QED
      BY <3>1, <3>2
  <2>3. w \notin Outs(f)' /\ w \notin Calls(f)
    BY <1>1, <2>2 DEF Outs, Calls
  <2>4. Outs(f)' \subseteq Outs(f) /\ \A v \in Outs(f)' : push'[v].out = push[v].out
    BY <2>2, <2>3, OthersStay
  <2>5. history \in [Fragments -> 0 .. Never] /\ now \in 0 .. MaxTime /\ MaxTime \in Nat
    BY BufferAssumption DEF TypeOK
  <2>6. CASE f # push[w].frag
    <3>1. Calls(f)' \subseteq Calls(f)
      BY <2>2, <2>6, OthersStay DEF Calls
    <3>2. history'[f] = history[f]
      BY <2>1, <2>5, <2>6
    <3> QED
      BY <1>1, <2>4, <3>1, <3>2, Shrinks
  <2>7. CASE f = push[w].frag
    <3>1. Calls(f) = {} /\ Queued(f) = {} /\ Outs(f) = {} /\ Given(f) = {}
      BY <1>3, <2>7 DEF UsedOnce
    <3>2. Calls(f)' \subseteq {w}
      BY <2>2, <3>1, OthersStay
    <3>3. Outs(f)' = {} /\ Queued(f)' = {} /\ Given(f)' = {}
      BY <1>1, <2>4, <3>1 DEF Queued, Given
    <3>4. history'[f] # Never
      BY <2>1, <2>5, <2>7 DEF Never
    <3> QED
      BY <3>2, <3>3, <3>4 DEF UsedOnce, AtMostOne
  <2> QED
    BY <2>6, <2>7
<1> QED
  BY <1>2, <1>3

(* The fragment leaves the call and enters the queue, or goes by it. *)
LEMMA InsertOnce ==
    ASSUME TypeOK, NEW f \in Fragments, UsedOnce(f), NEW w \in Workers,
           push[w].at = "insert", push'[w].at = "free",
           \A v \in Workers \ {w} : push'[v] = push[v],
           queue'[f[1]] = IF push[w].frag[1] = f[1] THEN Placed(queue[f[1]], push[w].frag[2])
                          ELSE queue[f[1]],
           delivered' = delivered, history' = history
    PROVE  UsedOnce(f)'
<1>1. /\ push[w].frag \in Fragments
      /\ w \notin Calls(f)' /\ w \notin Outs(f)'
  BY DEF TypeOK, Calls, Outs
<1>2. /\ Calls(f)' \subseteq Calls(f) /\ Outs(f)' \subseteq Outs(f)
      /\ \A v \in Outs(f)' : push'[v].out = push[v].out
  BY <1>1, OthersStay
<1>3. CASE push[w].frag[1] # f[1]
  BY <1>2, <1>3, Shrinks
<1>4. CASE push[w].frag[1] = f[1]
  <2>1. PICK j \in Nat : j = push[w].frag[2]
    BY <1>1, FragmentParts
  <2>2. queue[f[1]] \in Seq(Nat) /\ f[2] \in Nat
    BY FragmentParts DEF TypeOK
  <2>3. Queued(f)' = PositionsOf(Placed(queue[f[1]], j), f[2])
    BY <1>4, <2>1 DEF Queued, PositionsOf
  <2>4. Given(f)' = Given(f) /\ delivered'[f[1]] = delivered[f[1]]
    BY DEF Given
  <2>5. /\ \A v \in Outs(f)' : PositionsOf(push'[v].out, f[2]) = PositionsOf(push[v].out, f[2])
        /\ \A n \in Given(f)' : delivered'[f[1]][n] = delivered[f[1]][n]
    BY <1>2, <2>4
  <2>6. CASE f[2] # j
    <3>1. /\ Queued(f) = {} => Queued(f)' = {}
          /\ AtMostOne(Queued(f)) => AtMostOne(Queued(f)')
      BY <2>2, <2>3, <2>6, PlacedAnother DEF Queued
    <3> HIDE DEF Calls, Queued, Outs, Given, PositionsOf
    <3> QED
      BY <1>2, <2>4, <2>5, <3>1 DEF UsedOnce, AtMostOne
  <2>7. CASE f[2] = j
    <3>1. f = push[w].frag
      BY <1>1, <1>4, <2>1, <2>7, FragmentParts
    <3>2. w \in Calls(f)
      BY <3>1 DEF Calls
    <3>3. Queued(f) = {} /\ Outs(f) = {} /\ Given(f) = {} /\ history[f] # Never
      BY <3>2 DEF UsedOnce
    <3>4. AtMostOne(Queued(f)')
      BY <2>2, <2>3, <2>7, <3>3, PlacedOnce DEF Queued
    <3>5. Calls(f)' = {}
      BY <1>1, <1>2, <3>2 DEF UsedOnce, AtMostOne
    <3> QED
      BY <1>2, <2>4, <3>3, <3>4, <3>5 DEF UsedOnce, AtMostOne
  <2> QED
    BY <2>6, <2>7
<1> QED
  BY <1>3, <1>4

(* The ADU's fragments leave the queue for the call that completes them.   *)
LEMMA LastOnce ==
    ASSUME TypeOK, NEW f \in Fragments, UsedOnce(f), NEW w \in Workers, InsertLast(w)
    PROVE  UsedOnce(f)'
<1>1. PICK g \in Fragments : g = push[w].frag
  BY DEF InsertLast, TypeOK
<1>2. /\ push[w].at = "insert" /\ UNCHANGED <<delivered, history>>
      /\ \A v \in Workers \ {w} : push'[v] = push[v]
      /\ queue' = [queue EXCEPT ![g[1]] = <<>>]
  BY <1>1 DEF InsertLast, Forget, SetQueue, TypeOK
<1>3. push'[w].at = "deliver" /\ push'[w].frag = g /\ push'[w].out = Placed(queue[g[1]], g[2])
  <2>1. /\ push' = [push EXCEPT ![w] = [push[w] EXCEPT !.at = "deliver",
                                                        !.out = Placed(queue[g[1]], g[2])]]
        /\ push \in [Workers -> [at : Places, frag : Fragments \cup {None}, out : Seq(Nat)]]
    BY <1>1 DEF InsertLast, TypeOK
  <2> QED
    BY <1>1, <2>1
<1>4. w \notin Calls(f)' /\ Calls(f)' \subseteq Calls(f)
  BY <1>2, <1>3, OthersStay DEF Calls
<1>5. CASE g[1] # f[1]
  <2>1. w \notin Outs(f)'
    BY <1>3, <1>5 DEF Outs
  <2>2. Outs(f)' \subseteq Outs(f) /\ \A v \in Outs(f)' : push'[v].out = push[v].out
    BY <1>2, <2>1, OthersStay, ZenonT(60)
  <2>3. queue'[f[1]] = queue[f[1]]
    BY <1>2, <1>5, FragmentParts DEF TypeOK
  <2> QED
    BY <1>2, <1>4, <2>2, <2>3, Shrinks
<1>6. CASE g[1] = f[1]
  <2>1. PICK j \in Nat : j = g[2]
    BY FragmentParts
  <2>2. queue[f[1]] \in Seq(Nat) /\ f[2] \in Nat
    BY FragmentParts DEF TypeOK
  <2>3. queue'[f[1]] = <<>> /\ Queued(f)' = {}
    <3>0. DOMAIN <<>> = {}
      OBVIOUS
    <3>1. queue'[f[1]] = <<>>
      BY <1>2, <1>6, FragmentParts DEF TypeOK
    <3> QED
      BY <3>0, <3>1 DEF Queued, PositionsOf
  <2>4. push'[w].out = Placed(queue[f[1]], j) /\ w \notin Outs(f)
    BY <1>2, <1>3, <1>6, <2>1 DEF Outs
  <2>5. w \in Outs(f)' => PositionsOf(Placed(queue[f[1]], j), f[2]) # {}
    BY <2>4, PositionsAndSet DEF Outs
  <2>6. Given(f)' = Given(f) /\ delivered'[f[1]] = delivered[f[1]]
    BY <1>2 DEF Given
  <2>7. CASE f[2] # j
    <3>1. /\ Queued(f) = {} => PositionsOf(Placed(queue[f[1]], j), f[2]) = {}
          /\ AtMostOne(Queued(f)) => AtMostOne(PositionsOf(Placed(queue[f[1]], j), f[2]))
      BY <2>2, <2>7, PlacedAnother DEF Queued
    <3>2. CASE Queued(f) = {}
      <4>1. w \notin Outs(f)'
        BY <2>5, <3>1, <3>2
      <4>2. Outs(f)' \subseteq Outs(f) /\ \A v \in Outs(f)' : push'[v].out = push[v].out
        BY <1>2, <4>1, OthersStay, ZenonT(60)
      <4> QED
        BY <1>2, <1>4, <2>3, <2>6, <4>2, Shrinks
    <3>3. CASE Queued(f) # {}
      <4>1. Calls(f) = {} /\ Outs(f) = {} /\ Given(f) = {} /\ history[f] # Never
        BY <3>3 DEF UsedOnce
      <4>2. Calls(f)' = {} /\ Outs(f)' \subseteq {w}
        BY <1>2, <1>4, <4>1, OthersStay
      <4>3. AtMostOne(PositionsOf(push'[w].out, f[2]))
        BY <2>4, <3>1 DEF UsedOnce
      <4>4. history'[f] # Never /\ Given(f)' = {}
        BY <1>2, <2>6, <4>1
      <4> HIDE DEF Calls, Queued, Outs, Given, PositionsOf
      <4> QED
        BY <2>3, <4>2, <4>3, <4>4 DEF UsedOnce, AtMostOne
    <3> QED
      BY <3>2, <3>3
  <2>8. CASE f[2] = j
    <3>1. f = push[w].frag
      BY <1>1, <1>6, <2>1, <2>8, FragmentParts
    <3>2. w \in Calls(f)
      BY <1>2, <3>1 DEF Calls
    <3>3. Queued(f) = {} /\ Outs(f) = {} /\ Given(f) = {} /\ history[f] # Never
      BY <3>2 DEF UsedOnce
    <3>4. AtMostOne(PositionsOf(push'[w].out, f[2]))
      BY <2>2, <2>4, <2>8, <3>3, PlacedOnce DEF Queued
    <3>5. Calls(f)' = {} /\ Outs(f)' \subseteq {w}
      BY <1>2, <1>4, <3>2, <3>3, OthersStay DEF UsedOnce, AtMostOne
    <3>6. history'[f] # Never /\ Given(f)' = {}
      BY <1>2, <2>6, <3>3
    <3> HIDE DEF Calls, Queued, Outs, Given, PositionsOf
    <3> QED
      BY <2>3, <3>4, <3>5, <3>6 DEF UsedOnce, AtMostOne
  <2> QED
    BY <2>7, <2>8
<1> QED
  BY <1>5, <1>6

LEMMA DeliverOnce ==
    ASSUME TypeOK, NEW f \in Fragments, UsedOnce(f), NEW w \in Workers, Deliver(w)
    PROVE  UsedOnce(f)'
<1>1. PICK g \in Fragments : g = push[w].frag
  BY DEF Deliver, TypeOK
<1>2. /\ push[w].at = "deliver" /\ UNCHANGED <<queue, history>>
      /\ push'[w].at = "free"
      /\ \A v \in Workers \ {w} : push'[v] = push[v]
  BY ReturnsType DEF Deliver, Free
<1>3. PICK out \in Seq(Nat) : out = push[w].out
  BY DEF TypeOK
<1>4. /\ delivered' = [delivered EXCEPT ![g[1]] = Append(delivered[g[1]], out)]
      /\ f[1] \in Adus /\ delivered[f[1]] \in Seq(Seq(Nat))
  BY <1>1, <1>3, FragmentParts DEF Deliver, HandsOver, TypeOK
<1>5. /\ w \notin Calls(f)' /\ w \notin Outs(f)'
      /\ Calls(f)' \subseteq Calls(f) /\ Outs(f)' \subseteq Outs(f)
      /\ \A v \in Outs(f)' : push'[v].out = push[v].out
  <2>1. w \notin Calls(f)' /\ w \notin Outs(f)'
    BY <1>2 DEF Calls, Outs
  <2> QED
    BY <1>2, <2>1, OthersStay
<1>6. CASE g[1] # f[1]
  <2>1. delivered'[f[1]] = delivered[f[1]]
    BY <1>4, <1>6 DEF TypeOK
  <2> QED
    BY <1>2, <1>5, <2>1, Shrinks
<1>7. CASE g[1] = f[1]
  <2> DEFINE n == Len(delivered[f[1]]) + 1
  <2>1. /\ DOMAIN delivered'[f[1]] = DOMAIN delivered[f[1]] \cup {n}
        /\ n \notin DOMAIN delivered[f[1]]
        /\ \A k \in DOMAIN delivered[f[1]] : delivered'[f[1]][k] = delivered[f[1]][k]
        /\ delivered'[f[1]][n] = out
    <3>1. delivered'[f[1]] = Append(delivered[f[1]], out)
      BY <1>4, <1>7 DEF TypeOK
    <3>2. out \in Seq(Nat) /\ delivered[f[1]] \in Seq(Seq(Nat))
      BY <1>4
    <3> QED
      BY <3>1, <3>2, AppendProperties, LenProperties
  <2> HIDE DEF n
  <2>2. Queued(f)' = Queued(f)
    BY <1>2 DEF Queued
  <2>3. CASE w \in Outs(f)
    <3>1. /\ Calls(f) = {} /\ Queued(f) = {} /\ Given(f) = {} /\ history[f] # Never
          /\ AtMostOne(PositionsOf(out, f[2]))
      BY <1>3, <2>3 DEF UsedOnce
    <3>2. Calls(f)' = {} /\ Queued(f)' = {} /\ Outs(f)' = {}
      BY <1>5, <2>2, <2>3, <3>1 DEF UsedOnce, AtMostOne
    <3>3. Given(f)' \subseteq {n}
      BY <2>1, <3>1 DEF Given
    <3>4. history'[f] # Never
      BY <1>2, <3>1
    <3> HIDE DEF Calls, Queued, Outs, Given, PositionsOf
    <3> QED
      BY <2>1, <3>1, <3>2, <3>3, <3>4 DEF UsedOnce, AtMostOne
  <2>4. CASE w \notin Outs(f)
    <3>1. f[2] \notin ToSet(out)
      BY <1>1, <1>2, <1>3, <1>7, <2>4 DEF Outs
    <3>2. /\ Given(f)' = Given(f)
          /\ \A k \in Given(f) : delivered'[f[1]][k] = delivered[f[1]][k]
      BY <2>1, <3>1 DEF Given
    <3>3. \A v \in Outs(f)' : PositionsOf(push'[v].out, f[2]) = PositionsOf(push[v].out, f[2])
      BY <1>5
    <3>4. history'[f] = history[f]
      BY <1>2
    <3> HIDE DEF Calls, Queued, Outs, Given, PositionsOf
    <3> QED
      BY <1>5, <2>2, <3>2, <3>3, <3>4, ZenonT(60) DEF UsedOnce, AtMostOne
  <2> QED
    BY <2>3, <2>4
<1> QED
  BY <1>6, <1>7

LEMMA PlacedFirst ==
    ASSUME NEW i \in Nat
    PROVE  Placed(<<>>, i) = <<i>>
<1>1. PICK q \in Seq(Nat) : q = <<>>
  <2>1. <<>> \in Seq(Nat)
    OBVIOUS
  <2> QED
    BY <2>1
<1>2. Len(q) = 0
  BY <1>1
<1>3. Place(q, i) = 1
  <2>1. Place(q, i) \in 1 .. Len(q) + 1
    BY PlaceIs
  <2> QED
    BY <1>2, <2>1
<1>4. Placed(q, i) \in Seq(Nat) /\ Len(Placed(q, i)) = 1 /\ Placed(q, i)[1] = i
  <2>1. /\ Placed(q, i) \in Seq(Nat) /\ Len(Placed(q, i)) = Len(q) + 1
        /\ Placed(q, i)[Place(q, i)] = i
    BY PlacedIs
  <2> QED
    BY <1>2, <1>3, <2>1
<1>5. <<i>> \in Seq(Nat) /\ Len(<<i>>) = 1 /\ <<i>>[1] = i
  OBVIOUS
<1> QED
  BY <1>1, <1>4, <1>5, SeqEqual

LEMMA PushOnce ==
    ASSUME TypeOK, NEW f \in Fragments, f \notin unguarded', f[1] \notin Whole, UsedOnce(f),
           NEW w \in Workers,
           \/ \E a \in Whole : PushWhole(w, a)
           \/ \E g \in Fragments : PushFragment(w, g)
           \/ Push(w)
    PROVE  UsedOnce(f)'
<1>1. ASSUME NEW a \in Whole, PushWhole(w, a) PROVE UsedOnce(f)'
  <2>1. UNCHANGED <<push, queue, history>>
    BY <1>1 DEF PushWhole
  <2>2. delivered'[f[1]] = delivered[f[1]]
    <3>1. f[1] # a /\ f[1] \in Adus /\ delivered \in [Adus -> Seq(Seq(Nat))]
      BY FragmentParts DEF TypeOK
    <3>2. delivered' = delivered \/ HandsOver(a, <<1>>)
      BY <1>1 DEF PushWhole
    <3> QED
      BY <3>1, <3>2 DEF HandsOver
  <2>3. Calls(f)' = Calls(f) /\ Outs(f)' = Outs(f)
    BY <2>1 DEF Calls, Outs
  <2> QED
    BY <2>1, <2>2, <2>3, Shrinks
<1>2. ASSUME NEW g \in Fragments, PushFragment(w, g) PROVE UsedOnce(f)'
  <2>1. /\ push'[w].at = "history" /\ \A v \in Workers \ {w} : push'[v] = push[v]
        /\ UNCHANGED <<queue, history, delivered>>
    BY <1>2 DEF PushFragment, TypeOK
  <2> QED
    BY <2>1, LeavesOnce
<1>3. CASE HistoryLock(w)
  <2>1. /\ push'[w].at = "lookup" /\ \A v \in Workers \ {w} : push'[v] = push[v]
        /\ UNCHANGED <<queue, history, delivered>>
    BY <1>3, GoesType DEF HistoryLock, Places
  <2> QED
    BY <2>1, LeavesOnce
<1>4. CASE HistoryLookup(w)
  BY <1>4, LookupOnce
<1>5. CASE HistoryTimeout(w)
  <2>1. /\ push'[w] = [push[w] EXCEPT !.at = "data"] /\ push[w].frag # f
        /\ \A v \in Workers \ {w} : push'[v] = push[v]
        /\ UNCHANGED <<queue, history, delivered>>
    BY <1>5, GoesType DEF HistoryTimeout, Places
  <2>2. push[w] \in [at : Places, frag : Fragments \cup {None}, out : Seq(Nat)]
    BY DEF TypeOK
  <2>3. push'[w].at = "data" /\ push'[w].frag # f
    BY <2>1, <2>2
  <2>4. /\ Calls(f)' \subseteq Calls(f) /\ Outs(f)' \subseteq Outs(f)
        /\ \A v \in Outs(f)' : push'[v].out = push[v].out
    <3>1. w \notin Calls(f)' /\ w \notin Outs(f)'
      BY <2>3 DEF Calls, Outs
    <3> QED
      BY <2>1, <3>1, OthersStay
  <2> QED
    BY <2>1, <2>4, Shrinks
<1>6. CASE DataLock(w)
  <2>1. /\ push'[w] = [push[w] EXCEPT !.at = "insert"] /\ push[w].at = "data"
        /\ \A v \in Workers \ {w} : push'[v] = push[v]
        /\ UNCHANGED <<queue, history, delivered>>
    BY <1>6, GoesType DEF DataLock, Places
  <2>2. push[w] \in [at : Places, frag : Fragments \cup {None}, out : Seq(Nat)]
    BY DEF TypeOK
  <2>3. push'[w].at = "insert" /\ push'[w].frag = push[w].frag
    BY <2>1, <2>2
  <2>4. /\ Calls(f)' \subseteq Calls(f) /\ Outs(f)' \subseteq Outs(f)
        /\ \A v \in Outs(f)' : push'[v].out = push[v].out
    <3>1. w \notin Outs(f)' /\ (w \in Calls(f)' <=> w \in Calls(f))
      BY <2>1, <2>3 DEF Calls, Outs
    <3> QED
      BY <2>1, <3>1, OthersStay
  <2> QED
    BY <2>1, <2>4, Shrinks
<1>7. CASE DataTimeout(w)
  <2>1. /\ push'[w].at = "free" /\ \A v \in Workers \ {w} : push'[v] = push[v]
        /\ UNCHANGED <<queue, history, delivered>>
    BY <1>7, ReturnsType DEF DataTimeout, Free
  <2> QED
    BY <2>1, LeavesOnce
<1>8. CASE InsertFirst(w) \/ InsertMore(w)
  <2>1. /\ push[w].at = "insert" /\ Returns(w)
        /\ UNCHANGED <<history, delivered>>
    BY <1>8 DEF InsertFirst, InsertMore
  <2>2. push'[w].at = "free" /\ \A v \in Workers \ {w} : push'[v] = push[v]
    BY <2>1, ReturnsType DEF Free
  <2>3. PICK g \in Fragments : g = push[w].frag
    BY <2>1 DEF TypeOK
  <2>4. g[1] \in Adus /\ g[2] \in Nat /\ f[1] \in Adus
    BY FragmentParts
  <2>5. queue' = [queue EXCEPT ![g[1]] = Placed(queue[g[1]], g[2])]
    <3>1. CASE InsertFirst(w)
      <4>1. queue[g[1]] = <<>> /\ queue' = [queue EXCEPT ![g[1]] = <<g[2]>>]
        BY <2>3, <3>1 DEF InsertFirst, SetQueue
      <4> QED
        BY <2>4, <4>1, PlacedFirst
    <3>2. CASE InsertMore(w)
      BY <2>3, <3>2 DEF InsertMore, SetQueue
    <3> QED
      BY <1>8, <3>1, <3>2
  <2>6. queue'[f[1]] = IF push[w].frag[1] = f[1] THEN Placed(queue[f[1]], push[w].frag[2])
                       ELSE queue[f[1]]
    BY <2>3, <2>4, <2>5 DEF TypeOK
  <2> QED
    BY <2>1, <2>2, <2>6, InsertOnce
<1>9. CASE InsertLast(w)
  BY <1>9, LastOnce
<1>10. CASE InsertFails(w)
  <2>1. /\ push[w].at = "insert" /\ Returns(w)
        /\ UNCHANGED <<history, delivered>>
    BY <1>10 DEF InsertFails
  <2>2. push'[w].at = "free" /\ \A v \in Workers \ {w} : push'[v] = push[v]
    BY <2>1, ReturnsType DEF Free
  <2>3. PICK g \in Fragments : g = push[w].frag
    BY <2>1 DEF TypeOK
  <2>4. g[1] \in Adus /\ g[2] \in Nat /\ f[1] \in Adus
    BY FragmentParts
  <2>5. queue' = queue \/ queue' = [queue EXCEPT ![g[1]] = Placed(queue[g[1]], g[2])]
    BY <1>10, <2>3 DEF InsertFails, SetQueue
  <2>6. CASE queue' = queue
    BY <2>1, <2>2, <2>6, LeavesOnce
  <2>7. CASE queue' = [queue EXCEPT ![g[1]] = Placed(queue[g[1]], g[2])]
    <3>1. queue'[f[1]] = IF push[w].frag[1] = f[1] THEN Placed(queue[f[1]], push[w].frag[2])
                         ELSE queue[f[1]]
      BY <2>3, <2>4, <2>7 DEF TypeOK
    <3> QED
      BY <2>1, <2>2, <3>1, InsertOnce
  <2> QED
    BY <2>5, <2>6, <2>7
<1>11. CASE Deliver(w)
  BY <1>11, DeliverOnce
<1> QED
  BY <1>1, <1>2, <1>3, <1>4, <1>5, <1>6, <1>7, <1>8, <1>9, <1>10, <1>11 DEF Push

LEMMA CleanupOnce ==
    ASSUME TypeOK, NEW f \in Fragments, f \notin unguarded', UsedOnce(f),
           Cleanup \/ Clear \/ Tick
    PROVE  UsedOnce(f)'
<1>1. UNCHANGED <<push, delivered>>
  BY DEF Cleanup, CleanupLockData, CleanupData, CleanupLockHistory, CleanupHistory,
         CleanupTimeout, Clear, Tick
<1>2. Calls(f)' = Calls(f) /\ Outs(f)' = Outs(f)
  BY <1>1 DEF Calls, Outs
<1>3. queue'[f[1]] = queue[f[1]] \/ queue'[f[1]] = <<>>
  <2>1. f[1] \in Adus
    BY FragmentParts
  <2> QED
    BY <2>1 DEF Cleanup, CleanupLockData, CleanupData, CleanupLockHistory, CleanupHistory,
                CleanupTimeout, Clear, Tick
<1>4. history'[f] = Never => history[f] = Never
  <2>1. CASE CleanupHistory
    BY <2>1 DEF CleanupHistory
  <2>2. CASE ~CleanupHistory
    BY <2>2 DEF Cleanup, CleanupLockData, CleanupData, CleanupLockHistory,
                CleanupTimeout, Clear, Tick
  <2> QED
    BY <2>1, <2>2
<1> QED
  BY <1>1, <1>2, <1>3, <1>4, Shrinks

(* The fragments the history guards only become fewer. *)
LEMMA GuardedShrinks == [Next]_vars => unguarded \subseteq unguarded'
BY DEF Next, Push, Cleanup, PushWhole, PushFragment, HistoryLock, HistoryLookup,
       HistoryTimeout, DataLock, DataTimeout, InsertFirst, InsertMore, InsertLast,
       InsertFails, Deliver, CleanupLockData, CleanupData, CleanupLockHistory,
       CleanupHistory, CleanupTimeout, Clear, Tick, vars

LEMMA InitOnce == Init => Once
<1> SUFFICES ASSUME Init, NEW f \in Fragments PROVE UsedOnce(f)
  BY DEF Once, Guarded
<1>1. Calls(f) = {} /\ Outs(f) = {}
  BY DEF Init, Free, Calls, Outs
<1>2. Queued(f) = {} /\ Given(f) = {}
  <2>1. queue[f[1]] = <<>> /\ delivered[f[1]] = <<>> /\ DOMAIN <<>> = {}
    BY FragmentParts DEF Init
  <2> QED
    BY <2>1 DEF Queued, PositionsOf, Given
<1> QED
  BY <1>1, <1>2 DEF UsedOnce, AtMostOne

LEMMA OnceNext == TypeOK /\ Once /\ [Next]_vars => Once'
<1> SUFFICES ASSUME TypeOK, Once, [Next]_vars,
                    NEW f \in Fragments, f \notin unguarded', f[1] \notin Whole
             PROVE  UsedOnce(f)'
  BY DEF Once, Guarded
<1>1. UsedOnce(f)
  BY GuardedShrinks DEF Once, Guarded
<1>2. CASE UNCHANGED vars
  BY <1>1, <1>2 DEF vars, UsedOnce, AtMostOne, Calls, Queued, Outs, Given, PositionsOf
<1> QED
  BY <1>1, <1>2, PushOnce, CleanupOnce DEF Next

LEMMA OnceCounted ==
    ASSUME NEW f \in Fragments, UsedOnce(f)
    PROVE  /\ Cardinality(Calls(f)) + Cardinality(Queued(f))
                 + Cardinality(Outs(f)) + Cardinality(Given(f)) <= 1
           /\ \A n \in Given(f) : Occurrences(delivered[f[1]][n], f[2]) = 1
<1>1. ASSUME NEW S, AtMostOne(S)
      PROVE  \/ S = {} /\ Cardinality(S) = 0
             \/ S # {} /\ Cardinality(S) = 1
  <2>1. CASE S = {}
    <3>1. Cardinality(S) = 0
      BY <2>1, FS_EmptySet, Zenon
    <3> QED
      BY <2>1, <3>1
  <2>2. CASE S # {}
    <3>1. PICK x : x \in S
      BY <2>2
    <3>2. S = {x}
      BY <1>1, <3>1 DEF AtMostOne
    <3> QED
      BY <3>2, FS_Singleton
  <2> QED
    BY <2>1, <2>2
<1>2. /\ Cardinality(Calls(f)) \in {0, 1} /\ (Calls(f) # {} <=> Cardinality(Calls(f)) = 1)
      /\ Cardinality(Queued(f)) \in {0, 1} /\ (Queued(f) # {} <=> Cardinality(Queued(f)) = 1)
      /\ Cardinality(Outs(f)) \in {0, 1} /\ (Outs(f) # {} <=> Cardinality(Outs(f)) = 1)
      /\ Cardinality(Given(f)) \in {0, 1} /\ (Given(f) # {} <=> Cardinality(Given(f)) = 1)
  <2>1. AtMostOne(Calls(f)) /\ AtMostOne(Queued(f)) /\ AtMostOne(Outs(f)) /\ AtMostOne(Given(f))
    BY DEF UsedOnce
  <2> HIDE DEF Calls, Queued, Outs, Given
  <2> QED
    BY <1>1, <2>1
<1>3. ASSUME NEW n \in Given(f) PROVE Occurrences(delivered[f[1]][n], f[2]) = 1
  <2>1. PositionsOf(delivered[f[1]][n], f[2]) # {} /\ AtMostOne(PositionsOf(delivered[f[1]][n], f[2]))
    BY <1>3, PositionsAndSet DEF Given, UsedOnce
  <2>2. Cardinality(PositionsOf(delivered[f[1]][n], f[2])) = 1
    BY <1>1, <2>1
  <2> QED
    BY <2>2 DEF Occurrences, PositionsOf
<1> HIDE DEF Calls, Queued, Outs, Given
<1> QED
  BY <1>2, <1>3 DEF UsedOnce

(* However often the network delivers a fragment and whichever workers     *)
(* have it, one copy of it at most takes part in reassembly, and an ADU    *)
(* handed over holds it once, unless the history lost or missed it.        *)
THEOREM FragmentsUsedOnce == Spec => []FragmentUsedOnce
<1>1. Once => FragmentUsedOnce
  <2> SUFFICES ASSUME Once, NEW f \in Fragments \ unguarded, f[1] \notin Whole
               PROVE  /\ Cardinality(Calls(f)) + Cardinality(Queued(f))
                            + Cardinality(Outs(f)) + Cardinality(Given(f)) <= 1
                      /\ \A n \in Given(f) : Occurrences(delivered[f[1]][n], f[2]) = 1
    BY DEF FragmentUsedOnce, Occurrences, Calls, Queued, Outs, Given, PositionsOf
  <2> QED
    BY OnceCounted DEF Once, Guarded
<1> QED
  BY <1>1, InitOnce, OnceNext, TypeCorrect, PTL DEF Spec
-----------------------------------------------------------------------------
(* The sums of payload sizes.                                              *)

LEMMA BytesAre ==
    ASSUME NEW a \in Adus, NEW q \in Seq(Nat), \A k \in 1 .. Len(q) : q[k] \in DOMAIN Sizes[a]
    PROVE  /\ BytesUpTo(a, q) \in [0 .. Len(q) -> Nat]
           /\ BytesUpTo(a, q)[0] = 0
           /\ \A k \in 1 .. Len(q) :
                 BytesUpTo(a, q)[k] = BytesUpTo(a, q)[k - 1] + Sizes[a][q[k]]
<1> DEFINE c == [k \in 1 .. Len(q) |-> Sizes[a][q[k]]]
<1> DEFINE Count(g) == g = [k \in 0 .. Len(q) |-> IF k = 0 THEN 0 ELSE g[k - 1] + Sizes[a][q[k]]]
<1>0. Len(q) \in Nat
  OBVIOUS
<1>1. c \in [1 .. Len(q) -> Nat]
  <2>1. Sizes[a] \in Seq(Nat \ {0})
    BY BufferAssumption
  <2>2. \A i \in DOMAIN Sizes[a] : Sizes[a][i] \in Nat
    BY <2>1
  <2> QED
    BY <2>2
<1>2. PICK g \in [0 .. Len(q) -> Nat] :
          g = [k \in 0 .. Len(q) |-> IF k = 0 THEN 0 ELSE g[k - 1] + c[k]]
  <2> HIDE DEF c
  <2> QED
    BY <1>0, <1>1, RunningTotal
<1>3. Count(g)
  <2>1. \A k \in 0 .. Len(q) : k # 0 => c[k] = Sizes[a][q[k]]
    BY <1>0
  <2> HIDE DEF c
  <2> QED
    BY <1>2, <2>1
<1>4. Count(BytesUpTo(a, q))
  <2>1. BytesUpTo(a, q) = CHOOSE s : Count(s)
    BY DEF BytesUpTo
  <2> HIDE DEF Count
  <2> QED
    BY <1>3, <2>1
<1>5. ASSUME NEW h, Count(h) PROVE h \in [0 .. Len(q) -> Nat]
  <2> DEFINE T == {k \in Nat : k <= Len(q) => h[k] \in Nat}
  <2>1. 0 \in T
    BY <1>0, <1>5
  <2>2. ASSUME NEW k \in T PROVE k + 1 \in T
    <3> SUFFICES ASSUME k + 1 <= Len(q) PROVE h[k + 1] \in Nat
      OBVIOUS
    <3>1. k \in Nat /\ h[k] \in Nat /\ k + 1 \in 1 .. Len(q) /\ k + 1 \in 0 .. Len(q)
      BY <1>0
    <3>2. h[k + 1] = h[k] + Sizes[a][q[k + 1]]
      BY <1>5, <3>1
    <3>3. Sizes[a][q[k + 1]] \in Nat
      BY <1>1, <3>1
    <3> QED
      BY <3>1, <3>2, <3>3
  <2>3. T = Nat
    <3>1. T \in SUBSET Nat
      OBVIOUS
    <3> HIDE DEF T
    <3> QED
      BY <2>1, <2>2, <3>1, InductionOnNat
  <2>4. \A k \in 0 .. Len(q) : h[k] \in Nat
    BY <1>0, <2>3
  <2>5. h = [k \in 0 .. Len(q) |-> h[k]]
    BY <1>5
  <2> QED
    BY <2>4, <2>5
<1> DEFINE b == BytesUpTo(a, q)
<1>6. b \in [0 .. Len(q) -> Nat] /\ b = [k \in 0 .. Len(q) |-> IF k = 0 THEN 0 ELSE b[k - 1] + Sizes[a][q[k]]]
  BY <1>4, <1>5
<1> HIDE DEF b
<1>7. b[0] = 0
  BY <1>0, <1>6
<1>8. \A k \in 1 .. Len(q) : b[k] = b[k - 1] + Sizes[a][q[k]]
  BY <1>0, <1>6, SMTT(30)
<1> QED
  BY <1>6, <1>7, <1>8 DEF b

(* The sizes of the first fragments of an ADU, in the sender's order. *)
Ordered(a) == [i \in DOMAIN Sizes[a] |-> i]
First(a, k) == BytesUpTo(a, Ordered(a))[k]

LEMMA FirstAre ==
    ASSUME NEW a \in Adus
    PROVE  /\ Len(Sizes[a]) \in Nat /\ DOMAIN Sizes[a] = 1 .. Len(Sizes[a])
           /\ \A k \in 1 .. Len(Sizes[a]) : Sizes[a][k] \in Nat /\ Sizes[a][k] > 0
           /\ Ordered(a) \in Seq(Nat) /\ Len(Ordered(a)) = Len(Sizes[a])
           /\ \A k \in 0 .. Len(Sizes[a]) : First(a, k) \in Nat
           /\ \A k \in 1 .. Len(Sizes[a]) : First(a, k) = First(a, k - 1) + Sizes[a][k]
           /\ First(a, 0) = 0
           /\ BytesOf(a, Ordered(a)) = First(a, Len(Sizes[a]))
<1> DEFINE n == Len(Sizes[a])
<1>1. Sizes[a] \in Seq(Nat \ {0})
  BY BufferAssumption
<1>2. n \in Nat /\ DOMAIN Sizes[a] = 1 .. n /\ \A k \in 1 .. n : Sizes[a][k] \in Nat /\ Sizes[a][k] > 0
  BY <1>1
<1> HIDE DEF n
<1>3. Ordered(a) \in Seq(Nat) /\ Len(Ordered(a)) = n /\ \A k \in 1 .. n : Ordered(a)[k] = k
  BY <1>2, IsASeq DEF Ordered
<1>4. \A k \in 1 .. Len(Ordered(a)) : Ordered(a)[k] \in DOMAIN Sizes[a]
  BY <1>2, <1>3
<1>5. /\ BytesUpTo(a, Ordered(a)) \in [0 .. n -> Nat]
      /\ BytesUpTo(a, Ordered(a))[0] = 0
      /\ \A k \in 1 .. n : BytesUpTo(a, Ordered(a))[k]
                               = BytesUpTo(a, Ordered(a))[k - 1] + Sizes[a][Ordered(a)[k]]
  BY <1>3, <1>4, BytesAre
<1> QED
  BY <1>2, <1>3, <1>5 DEF First, BytesOf, n

(* A later prefix has a byte more at least for each fragment more. *)
LEMMA FirstGrows ==
    ASSUME NEW a \in Adus, NEW k \in 0 .. Len(Sizes[a]), NEW m \in 0 .. Len(Sizes[a]), k <= m
    PROVE  First(a, m) - First(a, k) >= m - k
<1> DEFINE T == {d \in Nat : k + d <= Len(Sizes[a]) => First(a, k + d) - First(a, k) >= d}
<1>0. /\ Len(Sizes[a]) \in Nat /\ k \in Nat
      /\ \A j \in 0 .. Len(Sizes[a]) : First(a, j) \in Nat
      /\ \A j \in 1 .. Len(Sizes[a]) : First(a, j) >= First(a, j - 1) + 1
  <2>1. /\ Len(Sizes[a]) \in Nat
        /\ \A j \in 0 .. Len(Sizes[a]) : First(a, j) \in Nat
    BY FirstAre
  <2>2. ASSUME NEW j \in 1 .. Len(Sizes[a]) PROVE First(a, j) >= First(a, j - 1) + 1
    <3>1. First(a, j) = First(a, j - 1) + Sizes[a][j] /\ Sizes[a][j] \in Nat /\ Sizes[a][j] > 0
      BY FirstAre
    <3>2. j - 1 \in 0 .. Len(Sizes[a])
      BY <2>1
    <3>3. First(a, j - 1) \in Nat
      BY <2>1, <3>2
    <3> QED
      BY <3>1, <3>3
  <2> QED
    BY <2>1, <2>2
<1>1. 0 \in T
  BY <1>0
<1>2. ASSUME NEW d \in T PROVE d + 1 \in T
  <2> SUFFICES ASSUME k + (d + 1) <= Len(Sizes[a]) PROVE First(a, k + (d + 1)) - First(a, k) >= d + 1
    OBVIOUS
  <2>1. d \in Nat /\ k + d \in 0 .. Len(Sizes[a]) /\ k + (d + 1) \in 1 .. Len(Sizes[a])
    BY <1>0
  <2>2. First(a, k + d) - First(a, k) >= d
    BY <2>1
  <2>3. First(a, k + (d + 1)) >= First(a, k + d) + 1
    <3>1. (k + (d + 1)) - 1 = k + d
      BY <1>0, <2>1
    <3> QED
      BY <1>0, <2>1, <3>1
  <2>4. First(a, k + d) \in Nat /\ First(a, k) \in Nat /\ First(a, k + (d + 1)) \in Nat
    BY <1>0, <2>1
  <2> QED
    BY <2>1, <2>2, <2>3, <2>4
<1>3. T = Nat
  <2>1. T \in SUBSET Nat
    OBVIOUS
  <2> HIDE DEF T
  <2> QED
    BY <1>1, <1>2, <2>1, InductionOnNat
<1>4. m - k \in Nat /\ k + (m - k) = m /\ m \in Nat /\ m <= Len(Sizes[a])
  BY <1>0
<1>5. PICK d \in Nat : d = m - k
  BY <1>4
<1>6. d \in T
  BY <1>3
<1>7. k + d = m
  BY <1>0, <1>4, <1>5
<1> QED
  BY <1>4, <1>5, <1>6, <1>7

Sorted(s) == \A k, m \in DOMAIN s : k < m => s[k] <= s[m]
Increasing(s) == \A k, m \in DOMAIN s : k < m => s[k] < s[m]

(* A fragment in its place keeps the sender's order. *)
LEMMA PlacedInOrder ==
    ASSUME NEW q \in Seq(Nat), NEW i \in Nat
    PROVE  /\ Sorted(q) => Sorted(Placed(q, i))
           /\ Increasing(q) /\ i \notin ToSet(q) => Increasing(Placed(q, i))
<1> DEFINE t == Placed(q, i)
<1> DEFINE p == Place(q, i)
<1>1. /\ Len(q) \in Nat /\ DOMAIN q = 1 .. Len(q) /\ p \in 1 .. Len(q) + 1
      /\ p <= Len(q) => q[p] >= i
      /\ \A k \in 1 .. p - 1 : q[k] < i
      /\ \A k \in 1 .. Len(q) : q[k] \in Nat
  <2>1. Len(q) \in Nat /\ DOMAIN q = 1 .. Len(q) /\ \A k \in 1 .. Len(q) : q[k] \in Nat
    BY LenProperties
  <2>2. /\ p \in 1 .. Len(q) + 1
        /\ p <= Len(q) => q[p] >= i
        /\ \A k \in 1 .. p - 1 : q[k] < i
    BY PlaceIs
  <2> QED
    BY <2>1, <2>2
<1>2. /\ DOMAIN t = 1 .. Len(q) + 1
      /\ \A k \in 1 .. Len(q) + 1 : t[k] = IF k < p THEN q[k] ELSE IF k = p THEN i ELSE q[k - 1]
  BY PlacedIs, LenProperties, ZenonT(60)
<1> HIDE DEF t, p
<1>3. \A k \in 1 .. Len(q) + 1 : k > p => k - 1 \in 1 .. Len(q) /\ k - 1 >= p /\ t[k] = q[k - 1]
  BY <1>1, <1>2
<1>4. \A k \in 1 .. Len(q) + 1 : k < p => k \in 1 .. Len(q) /\ t[k] = q[k] /\ q[k] < i
  BY <1>1, <1>2
<1>5. t[p] = i
  BY <1>1, <1>2
<1>6. ASSUME Sorted(q), NEW k \in 1 .. Len(q) + 1, NEW m \in 1 .. Len(q) + 1, k < m
      PROVE  t[k] <= t[m]
  <2>0. \A x, y \in 1 .. Len(q) : x <= y => q[x] <= q[y]
    <3>1. \A x, y \in 1 .. Len(q) : x < y => q[x] <= q[y]
      BY <1>1, <1>6 DEF Sorted
    <3>2. \A x, y \in 1 .. Len(q) : x <= y => x = y \/ x < y
      OBVIOUS
    <3>3. \A x \in 1 .. Len(q) : q[x] <= q[x]
      BY <1>1
    <3> QED
      BY <3>1, <3>2, <3>3
  <2>1. CASE m < p
    <3>1. k < p
      BY <1>1, <1>6, <2>1
    <3>2. /\ k \in 1 .. Len(q) /\ t[k] = q[k]
          /\ m \in 1 .. Len(q) /\ t[m] = q[m]
      BY <1>4, <2>1, <3>1
    <3>3. k <= m
      BY <1>6
    <3> QED
      BY <2>0, <3>2, <3>3
  <2>2. CASE m = p
    <3>1. k < p
      BY <1>6, <2>2
    <3>2. t[k] = q[k] /\ q[k] < i /\ q[k] \in Nat
      BY <1>1, <1>4, <3>1
    <3> QED
      BY <1>5, <2>2, <3>2
  <2>3. CASE m > p
    <3>1. m - 1 \in 1 .. Len(q) /\ m - 1 >= p /\ t[m] = q[m - 1] /\ q[m - 1] \in Nat
      BY <1>1, <1>3, <2>3
    <3>2. CASE k < p
      BY <1>1, <1>4, <2>0, <3>1, <3>2
    <3>3. CASE k = p
      <4>1. p \in 1 .. Len(q) /\ q[p] >= i /\ q[p] <= q[m - 1] /\ q[p] \in Nat
        BY <1>1, <2>0, <3>1
      <4> QED
        BY <1>5, <3>1, <3>3, <4>1
    <3>4. CASE k > p
      <4>1. k - 1 \in 1 .. Len(q) /\ t[k] = q[k - 1] /\ k - 1 <= m - 1
        BY <1>3, <1>6, <3>4
      <4> QED
        BY <2>0, <3>1, <4>1
    <3> QED
      BY <1>1, <3>2, <3>3, <3>4
  <2> QED
    BY <1>1, <2>1, <2>2, <2>3
<1>7. ASSUME Increasing(q), i \notin ToSet(q),
             NEW k \in 1 .. Len(q) + 1, NEW m \in 1 .. Len(q) + 1, k < m
      PROVE  t[k] < t[m]
  <2>0. \A x, y \in 1 .. Len(q) : x < y => q[x] < q[y]
    BY <1>1, <1>7 DEF Increasing
  <2>1. CASE m < p
    <3>1. k < p
      BY <1>1, <1>7, <2>1
    <3>2. /\ k \in 1 .. Len(q) /\ t[k] = q[k]
          /\ m \in 1 .. Len(q) /\ t[m] = q[m]
      BY <1>4, <2>1, <3>1
    <3> QED
      BY <1>7, <2>0, <3>2
  <2>2. CASE m = p
    <3>1. k < p
      BY <1>7, <2>2
    <3>2. t[k] = q[k] /\ q[k] < i
      BY <1>4, <3>1
    <3> QED
      BY <1>5, <2>2, <3>2
  <2>3. CASE m > p
    <3>0. \A x \in 1 .. Len(q) : q[x] # i
      BY <1>1, <1>7 DEF ToSet
    <3>1. m - 1 \in 1 .. Len(q) /\ m - 1 >= p /\ t[m] = q[m - 1] /\ q[m - 1] \in Nat
      BY <1>1, <1>3, <2>3
    <3>2. CASE k < p
      <4>1. k < m - 1 /\ k \in 1 .. Len(q) /\ t[k] = q[k]
        BY <1>1, <1>4, <3>1, <3>2
      <4> QED
        BY <2>0, <3>1, <4>1
    <3>3. CASE k = p
      <4>1. p \in 1 .. Len(q) /\ q[p] > i /\ q[p] \in Nat
        <5>1. p \in 1 .. Len(q) /\ q[p] >= i /\ q[p] \in Nat
          BY <1>1, <3>1
        <5> QED
          BY <3>0, <5>1
      <4>2. q[p] <= q[m - 1]
        <5>1. p = m - 1 \/ p < m - 1
          BY <3>1, <4>1
        <5> QED
          <6>1. CASE p = m - 1
            BY <3>1, <6>1
          <6>2. CASE p < m - 1
            <7>1. q[p] < q[m - 1]
              BY <2>0, <3>1, <4>1, <6>2
            <7> QED
              BY <3>1, <4>1, <7>1
          <6> QED
            BY <5>1, <6>1, <6>2
      <4> QED
        BY <1>5, <3>1, <3>3, <4>1, <4>2
    <3>4. CASE k > p
      <4>1. k - 1 \in 1 .. Len(q) /\ t[k] = q[k - 1] /\ k - 1 < m - 1
        BY <1>3, <1>7, <3>4
      <4> QED
        BY <2>0, <3>1, <4>1
    <3> QED
      BY <1>1, <3>2, <3>3, <3>4
  <2> QED
    BY <1>1, <2>1, <2>2, <2>3
<1> QED
  BY <1>2, <1>6, <1>7 DEF Sorted, Increasing, t

(* An ADU's fragments in order, some left out, are so many bytes fewer at  *)
(* least than fragments.                                                   *)
LEMMA FewBytes ==
    ASSUME NEW a \in Adus, NEW t \in Seq(Nat), \A k \in 1 .. Len(t) : t[k] \in DOMAIN Sizes[a],
           Increasing(t), NEW k \in 1 .. Len(t)
    PROVE  BytesUpTo(a, t)[k] - k <= First(a, t[k]) - t[k] /\ k <= t[k]
<1> DEFINE b == BytesUpTo(a, t)
<1> DEFINE n == Len(Sizes[a])
<1> DEFINE T == {j \in Nat : j + 1 <= Len(t) => /\ b[j + 1] - (j + 1) <= First(a, t[j + 1]) - t[j + 1]
                                                /\ j + 1 <= t[j + 1]}
<1>0. /\ Len(t) \in Nat /\ n \in Nat
      /\ \A j \in 1 .. Len(t) : t[j] \in 1 .. n
      /\ \A j \in 0 .. Len(t) : b[j] \in Nat
      /\ \A j \in 1 .. Len(t) : b[j] = b[j - 1] + Sizes[a][t[j]]
      /\ b[0] = 0
      /\ \A x, y \in 1 .. Len(t) : x < y => t[x] < t[y]
  <2>1. Len(t) \in Nat /\ n \in Nat /\ DOMAIN Sizes[a] = 1 .. n /\ DOMAIN t = 1 .. Len(t)
    BY FirstAre, LenProperties
  <2>2. /\ b \in [0 .. Len(t) -> Nat]
        /\ \A j \in 1 .. Len(t) : b[j] = b[j - 1] + Sizes[a][t[j]]
        /\ b[0] = 0
    BY BytesAre
  <2> HIDE DEF b, n
  <2> QED
    BY <2>1, <2>2 DEF Increasing
<1>a. /\ \A j \in 0 .. n : First(a, j) \in Nat
      /\ \A j \in 1 .. n : First(a, j) = First(a, j - 1) + Sizes[a][j]
      /\ \A j \in 1 .. n : Sizes[a][j] \in Nat /\ Sizes[a][j] > 0
      /\ First(a, 0) = 0
  BY FirstAre
<1>b. \A x, y \in 0 .. n : x <= y => First(a, y) - First(a, x) >= y - x
  BY FirstGrows
<1> HIDE DEF b, n
<1>1. ASSUME NEW x \in 0 .. n, NEW j \in 1 .. Len(t), x < t[j], j - 1 <= x,
             b[j - 1] - (j - 1) <= First(a, x) - x
      PROVE  b[j] - j <= First(a, t[j]) - t[j] /\ j <= t[j]
  <2>1. /\ t[j] \in 1 .. n /\ t[j] - 1 \in 0 .. n /\ x <= t[j] - 1 /\ j - 1 \in 0 .. Len(t)
    BY <1>0, <1>1, SMTT(30)
  <2>2. First(a, t[j] - 1) - First(a, x) >= (t[j] - 1) - x
    BY <1>b, <2>1
  <2>3. /\ First(a, t[j]) = First(a, t[j] - 1) + Sizes[a][t[j]] /\ b[j] = b[j - 1] + Sizes[a][t[j]]
        /\ First(a, t[j] - 1) \in Nat /\ First(a, x) \in Nat /\ b[j - 1] \in Nat
        /\ Sizes[a][t[j]] \in Nat
    BY <1>0, <1>a, <2>1
  <2>4. x \in Nat /\ j \in Nat /\ t[j] \in Nat
    BY <1>0
  <2>5. PICK u \in Nat : u = t[j]
    BY <2>4
  <2>6. PICK B \in Nat, z \in Nat : B = b[j - 1] /\ z = Sizes[a][u]
    BY <2>3, <2>5
  <2>7. PICK F \in Nat, G \in Nat : F = First(a, x) /\ G = First(a, u - 1)
    BY <2>3, <2>5
  <2>8. /\ b[j] = B + z /\ First(a, u) = G + z /\ G - F >= (u - 1) - x
        /\ B - (j - 1) <= F - x /\ x < u /\ j - 1 <= x
    BY <1>1, <2>2, <2>3, <2>5, <2>6, <2>7
  <2>9. (B + z) - j <= (G + z) - u /\ j <= u
    BY <2>4, <2>8
  <2> QED
    BY <2>5, <2>8, <2>9
<1>2. 0 \in T
  <2> SUFFICES ASSUME 1 <= Len(t) PROVE b[1] - 1 <= First(a, t[1]) - t[1] /\ 1 <= t[1]
    OBVIOUS
  <2>1. 1 \in 1 .. Len(t) /\ 0 \in 0 .. n /\ 0 < t[1] /\ b[1 - 1] = 0
    BY <1>0
  <2>2. b[1 - 1] - (1 - 1) <= First(a, 0) - 0
    BY <1>a, <2>1
  <2> QED
    BY <1>1, <2>1, <2>2
<1>3. ASSUME NEW j \in T PROVE j + 1 \in T
  <2> SUFFICES ASSUME (j + 1) + 1 <= Len(t)
               PROVE  /\ b[(j + 1) + 1] - ((j + 1) + 1) <= First(a, t[(j + 1) + 1]) - t[(j + 1) + 1]
                      /\ (j + 1) + 1 <= t[(j + 1) + 1]
    OBVIOUS
  <2>1. /\ j \in Nat /\ j + 1 \in 1 .. Len(t) /\ (j + 1) + 1 \in 1 .. Len(t)
        /\ ((j + 1) + 1) - 1 = j + 1
    BY <1>0
  <2>2. /\ b[j + 1] - (j + 1) <= First(a, t[j + 1]) - t[j + 1]
        /\ j + 1 <= t[j + 1]
    BY <2>1
  <2>3. t[j + 1] < t[(j + 1) + 1] /\ t[j + 1] \in 0 .. n
    BY <1>0, <2>1
  <2> HIDE DEF T
  <2> QED
    BY <1>1, <2>1, <2>2, <2>3
<1>4. T = Nat
  <2>1. T \in SUBSET Nat
    OBVIOUS
  <2> HIDE DEF T
  <2> QED
    BY <1>2, <1>3, <2>1, InductionOnNat
<1>5. PICK j \in Nat : k = j + 1
  <2>1. k - 1 \in Nat /\ k = (k - 1) + 1
    BY <1>0
  <2> QED
    BY <2>1
<1>6. j \in T
  BY <1>4
<1>7. j + 1 <= Len(t)
  BY <1>0, <1>5
<1>8. b[j + 1] - (j + 1) <= First(a, t[j + 1]) - t[j + 1] /\ j + 1 <= t[j + 1]
  BY <1>6, <1>7
<1> QED
  BY <1>5, <1>8 DEF b

(* As many fragments as the ADU has, in order, are the ADU. *)
LEMMA AsManyIsAll ==
    ASSUME NEW a \in Adus, NEW t \in Seq(Nat), \A k \in 1 .. Len(t) : t[k] \in DOMAIN Sizes[a],
           Increasing(t), Len(t) >= Len(Sizes[a])
    PROVE  t = Ordered(a)
<1> DEFINE n == Len(Sizes[a])
<1>0. /\ Len(t) \in Nat /\ n \in Nat /\ DOMAIN Sizes[a] = 1 .. n /\ DOMAIN t = 1 .. Len(t)
      /\ Ordered(a) \in Seq(Nat) /\ Len(Ordered(a)) = n
  BY FirstAre, LenProperties
<1>1. \A k \in 1 .. Len(t) : k <= t[k] /\ t[k] \in 1 .. n
  BY <1>0, FewBytes
<1>2. Len(t) = n
  <2>1. CASE Len(t) = 0
    BY <1>0, <2>1
  <2>2. CASE Len(t) # 0
    <3>1. Len(t) \in 1 .. Len(t)
      BY <1>0, <2>2
    <3>2. Len(t) <= t[Len(t)] /\ t[Len(t)] \in 1 .. n
      BY <1>1, <3>1
    <3> QED
      BY <1>0, <3>2
  <2> QED
    BY <2>1, <2>2
<1>3. \A x, y \in 1 .. n : x < y => t[x] < t[y]
  BY <1>0, <1>2 DEF Increasing
<1> DEFINE T == {d \in Nat : d < n => t[n - d] <= n - d}
<1>b. \A k \in 1 .. n : k <= t[k] /\ t[k] \in 1 .. n
  BY <1>1, <1>2
<1>c. n \in Nat
  BY <1>0
<1> HIDE DEF n
<1>4. 0 \in T
  <2> SUFFICES ASSUME 0 < n PROVE t[n - 0] <= n - 0
    OBVIOUS
  <2>1. n \in 1 .. n /\ n - 0 = n
    BY <1>c
  <2>2. t[n] \in 1 .. n
    BY <1>b, <2>1
  <2> QED
    BY <1>c, <2>1, <2>2
<1>5. ASSUME NEW d \in T PROVE d + 1 \in T
  <2> SUFFICES ASSUME d + 1 < n PROVE t[n - (d + 1)] <= n - (d + 1)
    OBVIOUS
  <2>1. d \in Nat /\ n - (d + 1) \in 1 .. n /\ n - d \in 1 .. n /\ n - (d + 1) < n - d
    BY <1>c
  <2>2. t[n - d] <= n - d
    BY <1>c, <2>1
  <2>3. t[n - (d + 1)] < t[n - d]
    BY <1>3, <2>1
  <2>4. t[n - (d + 1)] \in Nat /\ t[n - d] \in Nat
    BY <1>b, <1>c, <2>1
  <2> QED
    BY <1>c, <2>1, <2>2, <2>3, <2>4
<1>6. T = Nat
  <2>1. T \in SUBSET Nat
    OBVIOUS
  <2> HIDE DEF T
  <2> QED
    BY <1>4, <1>5, <2>1, InductionOnNat
<1>7. ASSUME NEW k \in 1 .. n PROVE t[k] = k
  <2>1. n - k \in Nat /\ n - k < n /\ n - (n - k) = k /\ k \in Nat
    BY <1>c
  <2>2. PICK d \in Nat : d = n - k
    BY <2>1
  <2>3. d \in T
    BY <1>6
  <2>4. t[k] <= k
    BY <2>1, <2>2, <2>3
  <2>5. k <= t[k] /\ t[k] \in Nat
    BY <1>b, <1>c
  <2> QED
    BY <2>1, <2>4, <2>5
<1>8. \A k \in 1 .. n : Ordered(a)[k] = k
  BY <1>0 DEF n, Ordered
<1> QED
  BY <1>0, <1>2, <1>7, <1>8, SeqEqual DEF n

(* Sequences that begin alike sum up alike. *)
LEMMA SameBytes ==
    ASSUME NEW a \in Adus, NEW q \in Seq(Nat), NEW r \in Seq(Nat),
           \A k \in 1 .. Len(q) : q[k] \in DOMAIN Sizes[a],
           \A k \in 1 .. Len(r) : r[k] \in DOMAIN Sizes[a],
           NEW v \in Nat, v <= Len(q), v <= Len(r), \A k \in 1 .. v : q[k] = r[k]
    PROVE  \A k \in 0 .. v : BytesUpTo(a, q)[k] = BytesUpTo(a, r)[k]
<1> DEFINE b == BytesUpTo(a, q)
<1> DEFINE c == BytesUpTo(a, r)
<1> DEFINE T == {k \in Nat : k <= v => b[k] = c[k]}
<1>0. /\ b[0] = 0 /\ c[0] = 0 /\ Len(q) \in Nat /\ Len(r) \in Nat
      /\ \A k \in 1 .. Len(q) : b[k] = b[k - 1] + Sizes[a][q[k]]
      /\ \A k \in 1 .. Len(r) : c[k] = c[k - 1] + Sizes[a][r[k]]
  BY BytesAre, LenProperties
<1> HIDE DEF b, c
<1>1. 0 \in T
  BY <1>0
<1>2. ASSUME NEW k \in T PROVE k + 1 \in T
  <2> SUFFICES ASSUME k + 1 <= v PROVE b[k + 1] = c[k + 1]
    OBVIOUS
  <2>1. /\ k \in Nat /\ k + 1 \in 1 .. v /\ k + 1 \in 1 .. Len(q) /\ k + 1 \in 1 .. Len(r)
        /\ (k + 1) - 1 = k
    <3>1. PICK m \in Nat, l \in Nat : m = Len(q) /\ l = Len(r)
      BY <1>0
    <3>2. k \in Nat
      BY DEF T
    <3> HIDE DEF T
    <3> QED
      BY <3>1, <3>2
  <2>2. b[k] = c[k]
    BY <2>1
  <2> HIDE DEF T
  <2> QED
    BY <1>0, <2>1, <2>2
<1>3. T = Nat
  <2>1. T \in SUBSET Nat
    OBVIOUS
  <2> HIDE DEF T
  <2> QED
    BY <1>1, <1>2, <2>1, InductionOnNat
<1> QED
  BY <1>3 DEF b, c

(* The bytes counted when a fragment comes are those of the first so many  *)
(* fragments of the queue it is put into.                                  *)
LEMMA PlacedBytes ==
    ASSUME NEW a \in Adus, NEW q \in Seq(Nat), NEW i \in DOMAIN Sizes[a],
           \A k \in 1 .. Len(q) : q[k] \in DOMAIN Sizes[a],
           \A k \in 1 .. Len(Placed(q, i)) : Placed(q, i)[k] \in DOMAIN Sizes[a]
    PROVE  \A k \in Place(q, i) .. Len(q) + 1 :
               BytesUpTo(a, Placed(q, i))[k] = BytesUpTo(a, q)[k - 1] + Sizes[a][i]
<1> DEFINE t == Placed(q, i)
<1> DEFINE p == Place(q, i)
<1> DEFINE b == BytesUpTo(a, q)
<1> DEFINE c == BytesUpTo(a, t)
<1> DEFINE T == {d \in Nat : p + d <= Len(q) + 1 => c[p + d] = b[(p + d) - 1] + Sizes[a][i]}
<1>0. i \in Nat /\ Len(q) \in Nat /\ Sizes[a][i] \in Nat
  BY FirstAre, LenProperties
<1>1. /\ p \in 1 .. Len(q) + 1
      /\ t \in Seq(Nat) /\ Len(t) = Len(q) + 1
      /\ \A k \in 1 .. Len(q) + 1 : t[k] = IF k < p THEN q[k] ELSE IF k = p THEN i ELSE q[k - 1]
  <2>1. p \in 1 .. Len(q) + 1
    BY <1>0, PlaceIs
  <2> QED
    BY <1>0, <2>1, PlacedIs
<1>2. /\ b \in [0 .. Len(q) -> Nat]
      /\ \A k \in 1 .. Len(q) : b[k] = b[k - 1] + Sizes[a][q[k]]
  BY BytesAre
<1>3. \A k \in 1 .. Len(q) + 1 : c[k] = c[k - 1] + Sizes[a][t[k]]
  BY <1>1, BytesAre
<1>4. c[p - 1] = b[p - 1]
  <2>1. PICK v \in Nat : v = p - 1
    BY <1>0, <1>1
  <2>2. v <= Len(q) /\ v <= Len(t) /\ \A k \in 1 .. v : q[k] = t[k]
    BY <1>0, <1>1, <2>1, SMTT(30)
  <2>3. v \in 0 .. v
    BY <2>1
  <2>4. \A k \in 0 .. v : b[k] = c[k]
    BY <1>1, <2>2, SameBytes
  <2> QED
    BY <2>1, <2>3, <2>4
<1> HIDE DEF t, p, b, c
<1>5. 0 \in T
  <2>1. t[p] = i /\ p + 0 = p /\ p \in 1 .. Len(q) + 1
    BY <1>0, <1>1
  <2> QED
    BY <1>3, <1>4, <2>1
<1>6. ASSUME NEW d \in T PROVE d + 1 \in T
  <2> SUFFICES ASSUME p + (d + 1) <= Len(q) + 1
               PROVE  c[p + (d + 1)] = b[(p + (d + 1)) - 1] + Sizes[a][i]
    OBVIOUS
  <2>1. PICK k \in 1 .. Len(q) : k = p + d
    BY <1>0, <1>1, SMTT(30)
  <2>0. d \in Nat /\ p \in Nat /\ k \in Nat
    <3>1. d \in Nat
      BY DEF T
    <3> HIDE DEF T
    <3> QED
      BY <1>0, <1>1, <3>1
  <2>2. /\ p + (d + 1) = k + 1 /\ (p + (d + 1)) - 1 = k /\ k + 1 \in 1 .. Len(q) + 1
        /\ (k + 1) - 1 = k /\ k - 1 \in 0 .. Len(q) /\ k \in 0 .. Len(q) /\ k + 1 > p
    <3> HIDE DEF T
    <3> QED
      BY <1>0, <2>0, <2>1
  <2>3. c[k] = b[k - 1] + Sizes[a][i]
    BY <1>0, <2>1
  <2>4. t[k + 1] = q[k]
    <3>1. ~(k + 1 < p) /\ k + 1 # p
      BY <2>0, <2>2
    <3> QED
      BY <1>1, <2>2, <3>1
  <2>5. c[k + 1] = c[k] + Sizes[a][q[k]] /\ b[k] = b[k - 1] + Sizes[a][q[k]]
    BY <1>2, <1>3, <2>2, <2>4
  <2>6. b[k - 1] \in Nat /\ b[k] \in Nat /\ Sizes[a][q[k]] \in Nat
    BY <1>2, <2>2, FirstAre
  <2> HIDE DEF T
  <2> QED
    BY <1>0, <2>2, <2>3, <2>5, <2>6, SMTT(30)
<1>7. T = Nat
  <2>1. T \in SUBSET Nat
    OBVIOUS
  <2> HIDE DEF T
  <2> QED
    BY <1>5, <1>6, <2>1, InductionOnNat
<1>8. ASSUME NEW k \in p .. Len(q) + 1 PROVE c[k] = b[k - 1] + Sizes[a][i]
  <2>1. PICK d \in Nat : k = p + d
    <3>1. k - p \in Nat /\ p + (k - p) = k
      BY <1>0, <1>1
    <3> QED
      BY <3>1
  <2>2. p + d <= Len(q) + 1
    BY <1>0, <2>1
  <2>3. d \in T
    BY <1>7
  <2> QED
    BY <2>1, <2>2, <2>3
<1> QED
  BY <1>8 DEF t, p, b, c

LEMMA VisitedIs ==
    ASSUME NEW q \in Seq(Nat), NEW i \in Nat
    PROVE  /\ Visited(q, i) \in Seq(Nat) /\ Len(Visited(q, i)) \in Nat
           /\ Len(Visited(q, i)) <= Len(q) /\ Len(Visited(q, i)) + 1 \in Place(q, i) .. Len(q) + 1
           /\ \A k \in 1 .. Len(Visited(q, i)) : Visited(q, i)[k] = q[k]
<1> DEFINE v == IF Place(q, i) <= Len(q) THEN Place(q, i) ELSE Len(q)
<1>1. Len(q) \in Nat /\ Place(q, i) \in 1 .. Len(q) + 1 /\ \A k \in 1 .. Len(q) : q[k] \in Nat
  <2>1. Place(q, i) \in 1 .. Len(q) + 1
    BY PlaceIs
  <2> QED
    BY <2>1, LenProperties
<1>2. v \in 0 .. Len(q) /\ v + 1 \in Place(q, i) .. Len(q) + 1
  BY <1>1
<1>3. Visited(q, i) = SubSeq(q, 1, v)
  BY DEF Visited
<1> HIDE DEF v
<1>4. /\ SubSeq(q, 1, v) \in Seq(Nat) /\ Len(SubSeq(q, 1, v)) = v
      /\ \A k \in 1 .. v : SubSeq(q, 1, v)[k] = q[k]
  <2>1. \A k \in 1 .. v : q[k] \in Nat
    BY <1>1, <1>2
  <2>2. v \in Nat
    BY <1>1, <1>2
  <2> QED
    BY <1>1, <1>2, <2>1, <2>2, SubSeqProperties
<1> QED
  BY <1>1, <1>2, <1>3, <1>4

LEMMA CountedBytes ==
    ASSUME NEW a \in Adus, NEW q \in Seq(Nat), NEW i \in DOMAIN Sizes[a],
           \A k \in 1 .. Len(q) : q[k] \in DOMAIN Sizes[a],
           \A k \in 1 .. Len(Placed(q, i)) : Placed(q, i)[k] \in DOMAIN Sizes[a]
    PROVE  BytesOf(a, Visited(q, i)) + Sizes[a][i]
               = BytesUpTo(a, Placed(q, i))[Len(Visited(q, i)) + 1]
<1>0. i \in Nat
  BY FirstAre
<1>1. PICK v \in Nat : v = Len(Visited(q, i))
  BY <1>0, VisitedIs
<1>2. /\ Visited(q, i) \in Seq(Nat) /\ v <= Len(q) /\ v + 1 \in Place(q, i) .. Len(q) + 1
      /\ \A k \in 1 .. v : Visited(q, i)[k] = q[k]
  BY <1>0, <1>1, VisitedIs
<1>3. Len(q) \in Nat /\ \A k \in 1 .. v : Visited(q, i)[k] \in DOMAIN Sizes[a]
  <2>1. Len(q) \in Nat
    BY LenProperties
  <2> QED
    BY <1>2, <2>1
<1>4. BytesOf(a, Visited(q, i)) = BytesUpTo(a, q)[v]
  <2>1. \A k \in 0 .. v : BytesUpTo(a, Visited(q, i))[k] = BytesUpTo(a, q)[k]
    <3>1. v <= Len(Visited(q, i)) /\ \A k \in 1 .. Len(Visited(q, i)) : Visited(q, i)[k] \in DOMAIN Sizes[a]
      BY <1>1, <1>3
    <3>2. PICK s \in Seq(Nat) : s = Visited(q, i)
      BY <1>2
    <3> QED
      BY <1>2, <3>1, <3>2, SameBytes
  <2>2. v \in 0 .. v
    OBVIOUS
  <2> QED
    BY <1>1, <2>1, <2>2 DEF BytesOf
<1>5. BytesUpTo(a, Placed(q, i))[v + 1] = BytesUpTo(a, q)[(v + 1) - 1] + Sizes[a][i]
  BY <1>2, PlacedBytes
<1>6. (v + 1) - 1 = v
  OBVIOUS
<1> QED
  BY <1>1, <1>4, <1>5, <1>6

(* Sizes that reach the total, of fragments in order, are all sizes. *)
LEMMA CompleteIsAll ==
    ASSUME NEW a \in Adus, NEW q \in Seq(Nat), NEW i \in DOMAIN Sizes[a],
           \A k \in 1 .. Len(q) : q[k] \in DOMAIN Sizes[a],
           \A k \in 1 .. Len(Placed(q, i)) : Placed(q, i)[k] \in DOMAIN Sizes[a],
           Increasing(Placed(q, i)), Exact(a), Complete(a, q, i)
    PROVE  Placed(q, i) = Ordered(a)
<1>0. i \in Nat /\ Len(q) \in Nat /\ Placed(q, i) \in Seq(Nat) /\ Len(Placed(q, i)) = Len(q) + 1
      /\ Len(Sizes[a]) \in Nat /\ DOMAIN Sizes[a] = 1 .. Len(Sizes[a])
  <2>1. i \in Nat /\ Len(Sizes[a]) \in Nat /\ DOMAIN Sizes[a] = 1 .. Len(Sizes[a])
    BY FirstAre
  <2>2. Placed(q, i) \in Seq(Nat) /\ Len(Placed(q, i)) = Len(q) + 1
    BY <2>1, PlacedIs
  <2> QED
    BY <2>1, <2>2, LenProperties
<1>1. PICK k \in Nat : k = Len(Visited(q, i)) + 1
  BY <1>0, VisitedIs
<1>2. k \in Place(q, i) .. Len(q) + 1 /\ Place(q, i) \in 1 .. Len(q) + 1
  BY <1>0, <1>1, VisitedIs, PlaceIs
<1>3. k \in 1 .. Len(Placed(q, i))
  BY <1>0, <1>2
<1>4. BytesUpTo(a, Placed(q, i))[k] >= First(a, Len(Sizes[a]))
  <2>1. BytesOf(a, Ordered(a)) = Total[a]
    BY DEF Exact, Ordered
  <2>2. BytesUpTo(a, Placed(q, i))[k] >= Total[a]
    BY <1>1, CountedBytes DEF Complete
  <2> QED
    BY <2>1, <2>2, FirstAre
<1>5. PICK j \in 1 .. Len(Sizes[a]) : j = Placed(q, i)[k]
  BY <1>0, <1>3
<1>6. BytesUpTo(a, Placed(q, i))[k] - k <= First(a, j) - j
  BY <1>0, <1>3, <1>5, FewBytes
<1>7. First(a, Len(Sizes[a])) - First(a, j) >= Len(Sizes[a]) - j
  <2>1. j \in 0 .. Len(Sizes[a]) /\ Len(Sizes[a]) \in 0 .. Len(Sizes[a]) /\ j <= Len(Sizes[a])
    BY <1>0
  <2> QED
    BY <2>1, FirstGrows
<1>8. k >= Len(Sizes[a])
  <2>1. /\ First(a, Len(Sizes[a])) \in Nat /\ First(a, j) \in Nat
        /\ BytesUpTo(a, Placed(q, i))[k] \in Nat
    <3>1. /\ Len(Sizes[a]) \in 0 .. Len(Sizes[a]) /\ j \in 0 .. Len(Sizes[a])
          /\ k \in 0 .. Len(Placed(q, i))
      BY <1>0, <1>3
    <3>2. BytesUpTo(a, Placed(q, i)) \in [0 .. Len(Placed(q, i)) -> Nat]
      BY <1>0, BytesAre
    <3> QED
      BY <3>1, <3>2, FirstAre
  <2> QED
    BY <1>0, <1>4, <1>6, <1>7, <2>1, SMTT(30)
<1>9. Len(Placed(q, i)) >= Len(Sizes[a])
  BY <1>0, <1>3, <1>8
<1> QED
  BY <1>0, <1>9, AsManyIsAll

(* All fragments, in order and some perhaps more than once, reach the      *)
(* total.                                                                  *)
LEMMA ManyBytes ==
    ASSUME NEW a \in Adus, NEW t \in Seq(Nat), \A k \in 1 .. Len(t) : t[k] \in DOMAIN Sizes[a],
           Sorted(t), ToSet(t) = DOMAIN Sizes[a], NEW k \in 1 .. Len(t)
    PROVE  BytesUpTo(a, t)[k] >= First(a, t[k])
<1> DEFINE b == BytesUpTo(a, t)
<1> DEFINE n == Len(Sizes[a])
<1> DEFINE T == {j \in Nat : j + 1 <= Len(t) => b[j + 1] >= First(a, t[j + 1])}
<1>0. /\ Len(t) \in Nat /\ n \in Nat /\ DOMAIN t = 1 .. Len(t)
      /\ \A j \in 1 .. Len(t) : t[j] \in 1 .. n
      /\ \A j \in 0 .. Len(t) : b[j] \in Nat
      /\ \A j \in 1 .. Len(t) : b[j] = b[j - 1] + Sizes[a][t[j]]
      /\ b[0] = 0
      /\ \A x, y \in 1 .. Len(t) : x < y => t[x] <= t[y]
  <2>1. Len(t) \in Nat /\ n \in Nat /\ DOMAIN Sizes[a] = 1 .. n /\ DOMAIN t = 1 .. Len(t)
    BY FirstAre, LenProperties
  <2>2. /\ b \in [0 .. Len(t) -> Nat]
        /\ \A j \in 1 .. Len(t) : b[j] = b[j - 1] + Sizes[a][t[j]]
        /\ b[0] = 0
    BY BytesAre
  <2> HIDE DEF b, n
  <2> QED
    BY <2>1, <2>2 DEF Sorted
<1>a. /\ \A j \in 0 .. n : First(a, j) \in Nat
      /\ \A j \in 1 .. n : First(a, j) = First(a, j - 1) + Sizes[a][j]
      /\ \A j \in 1 .. n : Sizes[a][j] \in Nat
      /\ First(a, 0) = 0
  BY FirstAre
<1>b. \A x \in 1 .. n : \E j \in 1 .. Len(t) : t[j] = x
  <2>1. {t[j] : j \in DOMAIN t} = 1 .. n
    BY FirstAre DEF ToSet
  <2> QED
    BY <1>0, <2>1
<1> HIDE DEF b, n
<1>1. 0 \in T
  <2> SUFFICES ASSUME 1 <= Len(t) PROVE b[1] >= First(a, t[1])
    OBVIOUS
  <2>1. 1 \in 1 .. Len(t) /\ t[1] \in 1 .. n /\ 1 \in 1 .. n
    BY <1>0
  <2>2. t[1] = 1
    <3>1. PICK j \in 1 .. Len(t) : t[j] = 1
      BY <1>b, <2>1
    <3>2. j = 1 \/ t[1] <= t[j]
      BY <1>0, <2>1
    <3> QED
      BY <1>0, <2>1, <3>1, <3>2
  <2>3. b[1] = b[1 - 1] + Sizes[a][1] /\ First(a, 1) = First(a, 1 - 1) + Sizes[a][1]
    BY <1>0, <1>a, <2>1, <2>2
  <2>4. Sizes[a][1] \in Nat /\ 1 - 1 = 0
    BY <1>a, <2>1
  <2> HIDE DEF T
  <2> QED
    BY <1>0, <1>a, <2>2, <2>3, <2>4, SMTT(30)
<1>2. ASSUME NEW j \in T PROVE j + 1 \in T
  <2> SUFFICES ASSUME (j + 1) + 1 <= Len(t) PROVE b[(j + 1) + 1] >= First(a, t[(j + 1) + 1])
    OBVIOUS
  <2>1. PICK k1 \in Nat : k1 = j + 1
    OBVIOUS
  <2>2. b[k1] >= First(a, t[k1])
    BY <1>0, <2>1
  <2> HIDE DEF T
  <2>3. /\ k1 \in 1 .. Len(t) /\ k1 + 1 \in 1 .. Len(t) /\ (k1 + 1) - 1 = k1
        /\ k1 \in 0 .. Len(t) /\ k1 + 1 \in 0 .. Len(t)
    <3>1. j \in Nat
      BY DEF T
    <3> QED
      BY <1>0, <2>1, <3>1
  <2>4. PICK u \in 1 .. n, x \in 1 .. n : u = t[k1 + 1] /\ x = t[k1]
    BY <1>0, <2>3
  <2>5. x <= u
    BY <1>0, <2>3, <2>4
  <2>6. u <= x + 1
    <3>1. SUFFICES ASSUME u > x + 1 PROVE FALSE
      BY <1>0
    <3>2. x + 1 \in 1 .. n
      BY <1>0, <3>1
    <3>3. PICK m \in 1 .. Len(t) : t[m] = x + 1
      BY <1>b, <3>2
    <3>4. CASE m <= k1
      <4>1. m = k1 \/ t[m] <= t[k1]
        BY <1>0, <2>3, <3>4
      <4> QED
        BY <1>0, <2>4, <3>3, <4>1
    <3>5. CASE m > k1
      <4>1. m = k1 + 1 \/ t[k1 + 1] <= t[m]
        BY <1>0, <2>3, <3>5
      <4> QED
        <5>1. t[m] >= u
          BY <1>0, <2>4, <4>1
        <5> QED
          BY <1>0, <3>1, <3>3, <5>1
    <3> QED
      BY <1>0, <2>1, <3>4, <3>5
  <2>7. b[k1 + 1] = b[k1] + Sizes[a][u] /\ b[k1] \in Nat /\ Sizes[a][u] \in Nat
    BY <1>0, <1>a, <2>3, <2>4
  <2>8. CASE u = x
    <3>1. First(a, u) \in Nat /\ b[k1] >= First(a, u)
      BY <1>0, <1>a, <2>2, <2>4, <2>8, SMTT(30)
    <3> QED
      BY <2>1, <2>4, <2>7, <3>1
  <2>9. CASE u = x + 1
    <3>1. u - 1 = x /\ x \in 0 .. n
      BY <1>0, <2>9
    <3>2. First(a, u) = First(a, x) + Sizes[a][u] /\ First(a, x) \in Nat
      BY <1>a, <3>1
    <3> QED
      BY <2>1, <2>2, <2>4, <2>7, <3>2, SMTT(30)
  <2> QED
    BY <1>0, <2>5, <2>6, <2>8, <2>9
<1>3. T = Nat
  <2>1. T \in SUBSET Nat
    OBVIOUS
  <2> HIDE DEF T
  <2> QED
    BY <1>1, <1>2, <2>1, InductionOnNat
<1>4. PICK j \in Nat : k = j + 1
  <2>1. k - 1 \in Nat /\ k = (k - 1) + 1
    BY <1>0
  <2> QED
    BY <2>1
<1>5. j \in T
  BY <1>3
<1>6. j + 1 <= Len(t)
  BY <1>0, <1>4
<1>7. b[j + 1] >= First(a, t[j + 1])
  BY <1>5, <1>6
<1> QED
  BY <1>4, <1>7 DEF b
-----------------------------------------------------------------------------
(* What a step can do to a queue, an output and what was handed over.      *)

Inserts(w, a, i) ==
    /\ push[w].at = "insert" /\ push[w].frag = <<a, i>>
    /\ queue'[a] = Placed(queue[a], i)
    /\ queue[a] # <<>> =>
          \/ Lacking(a, Append(Visited(queue[a], i), i))
          \/ ~(Complete(a, queue[a], i) /\ Verifies(a, Placed(queue[a], i)))

LEMMA QueueSteps ==
    ASSUME TypeOK, [Next]_vars, NEW a \in Adus
    PROVE  \/ queue'[a] = queue[a]
           \/ queue'[a] = <<>>
           \/ \E w \in Workers : \E i \in DOMAIN Sizes[a] : Inserts(w, a, i)
<1>1. ASSUME NEW w \in Workers, InsertFirst(w) \/ InsertMore(w) \/ InsertFails(w)
      PROVE  queue'[a] = queue[a] \/ \E i \in DOMAIN Sizes[a] : Inserts(w, a, i)
  <2>1. PICK f \in Fragments : f = push[w].frag
    BY <1>1 DEF InsertFirst, InsertMore, InsertFails, TypeOK
  <2>2. f[1] \in Adus /\ f[2] \in DOMAIN Sizes[f[1]] /\ f[2] \in Nat /\ f = <<f[1], f[2]>>
    BY FragmentParts
  <2>3. \/ queue' = queue
        \/ /\ push[w].at = "insert"
           /\ queue' = [queue EXCEPT ![f[1]] = Placed(queue[f[1]], f[2])]
           /\ queue[f[1]] # <<>> =>
                 \/ Lacking(f[1], Append(Visited(queue[f[1]], f[2]), f[2]))
                 \/ ~(Complete(f[1], queue[f[1]], f[2]) /\ Verifies(f[1], Placed(queue[f[1]], f[2])))
    <3>1. CASE InsertFirst(w)
      <4>1. /\ push[w].at = "insert" /\ queue[f[1]] = <<>>
            /\ queue' = [queue EXCEPT ![f[1]] = <<f[2]>>]
        BY <2>1, <3>1 DEF InsertFirst, SetQueue
      <4> QED
        BY <2>2, <4>1, PlacedFirst
    <3>2. CASE InsertMore(w)
      BY <2>1, <3>2 DEF InsertMore, SetQueue
    <3>3. CASE InsertFails(w)
      BY <2>1, <3>3 DEF InsertFails, SetQueue
    <3> QED
      BY <1>1, <3>1, <3>2, <3>3
  <2>4. CASE f[1] = a /\ queue' # queue
    <3>1. queue'[a] = Placed(queue[a], f[2])
      BY <2>2, <2>3, <2>4 DEF TypeOK
    <3>2. Inserts(w, a, f[2])
      BY <2>1, <2>2, <2>3, <2>4, <3>1 DEF Inserts
    <3> QED
      BY <2>2, <2>4, <3>2
  <2>5. CASE f[1] # a \/ queue' = queue
    BY <2>2, <2>3, <2>5 DEF TypeOK
  <2> QED
    BY <2>4, <2>5
<1>2. ASSUME NEW w \in Workers, InsertLast(w)
      PROVE  queue'[a] = queue[a] \/ queue'[a] = <<>>
  BY <1>2 DEF InsertLast, Forget, SetQueue, TypeOK
<1>3. ASSUME NEW w \in Workers,
             \/ \E b \in Whole : PushWhole(w, b)
             \/ \E f \in Fragments : PushFragment(w, f)
             \/ HistoryLock(w) \/ HistoryLookup(w) \/ HistoryTimeout(w)
             \/ DataLock(w) \/ DataTimeout(w) \/ Deliver(w)
      PROVE  queue' = queue
  BY <1>3 DEF PushWhole, PushFragment, HistoryLock, HistoryLookup, HistoryTimeout, DataLock,
              DataTimeout, Deliver
<1>4. CASE Cleanup \/ Clear \/ Tick
  BY <1>4 DEF Cleanup, CleanupLockData, CleanupData, CleanupLockHistory, CleanupHistory,
              CleanupTimeout, Clear, Tick
<1>5. CASE UNCHANGED vars
  BY <1>5 DEF vars
<1> QED
  BY <1>1, <1>2, <1>3, <1>4, <1>5 DEF Next, Push

LEMMA OutSteps ==
    ASSUME TypeOK, [Next]_vars, NEW w \in Workers, push'[w].at = "deliver"
    PROVE  push'[w] = push[w] \/ InsertLast(w)
<1>1. ASSUME NEW v \in Workers,
             \/ \E b \in Whole : PushWhole(v, b)
             \/ \E f \in Fragments : PushFragment(v, f)
      PROVE  push'[w] = push[w]
  <2>1. CASE UNCHANGED push
    BY <2>1
  <2>2. ASSUME NEW f \in Fragments, PushFragment(v, f) PROVE push'[w] = push[w]
    <3>1. push'[v].at = "history" /\ \A u \in Workers \ {v} : push'[u] = push[u]
      BY <2>2 DEF PushFragment, TypeOK
    <3> QED
      BY <3>1
  <2> QED
    BY <1>1, <2>1, <2>2 DEF PushWhole
<1>2. ASSUME NEW v \in Workers, NEW place \in Places \ {"deliver"}, Goes(v, place),
             push[v].at # "free"
      PROVE  push'[w] = push[w]
  <2>1. push'[v] = [push[v] EXCEPT !.at = place] /\ \A u \in Workers \ {v} : push'[u] = push[u]
    BY <1>2, GoesType
  <2>2. push'[v].at = place
    <3>1. push[v] \in [at : Places, frag : Fragments \cup {None}, out : Seq(Nat)]
      BY DEF TypeOK
    <3> QED
      BY <2>1, <3>1
  <2> QED
    BY <2>1, <2>2
<1>3. ASSUME NEW v \in Workers, Returns(v) PROVE push'[w] = push[w]
  BY <1>3, ReturnsType DEF Free
<1>4. ASSUME NEW v \in Workers, HistoryLock(v) \/ HistoryTimeout(v) \/ DataLock(v)
      PROVE  push'[w] = push[w]
  BY <1>2, <1>4 DEF HistoryLock, HistoryTimeout, DataLock, Places
<1>5. ASSUME NEW v \in Workers, HistoryLookup(v) PROVE push'[w] = push[w]
  <2>1. Returns(v) \/ (Goes(v, "data") /\ push[v].at # "free")
    BY <1>5 DEF HistoryLookup
  <2> QED
    BY <1>2, <1>3, <2>1 DEF Places
<1>6. ASSUME NEW v \in Workers,
             DataTimeout(v) \/ InsertFirst(v) \/ InsertMore(v) \/ InsertFails(v) \/ Deliver(v)
      PROVE  push'[w] = push[w]
  BY <1>3, <1>6 DEF DataTimeout, InsertFirst, InsertMore, InsertFails, Deliver
<1>7. ASSUME NEW v \in Workers, v # w, InsertLast(v) PROVE push'[w] = push[w]
  BY <1>7 DEF InsertLast, TypeOK
<1>8. CASE Cleanup \/ Clear \/ Tick
  BY <1>8 DEF Cleanup, CleanupLockData, CleanupData, CleanupLockHistory, CleanupHistory,
              CleanupTimeout, Clear, Tick
<1>9. CASE UNCHANGED vars
  BY <1>9 DEF vars
<1> QED
  BY <1>1, <1>4, <1>5, <1>6, <1>7, <1>8, <1>9 DEF Next, Push

LEMMA DeliveredSteps ==
    ASSUME TypeOK, [Next]_vars, NEW a \in Adus
    PROVE  \/ delivered'[a] = delivered[a]
           \/ \E w \in Workers : /\ push[w].at = "deliver" /\ push[w].frag[1] = a
                                 /\ delivered'[a] = Append(delivered[a], push[w].out)
           \/ /\ a \in Whole /\ quality[<<a, 1>>] = "good"
              /\ delivered'[a] = Append(delivered[a], <<1>>)
<1>1. ASSUME NEW w \in Workers, NEW b \in Whole, PushWhole(w, b)
      PROVE  \/ delivered'[a] = delivered[a]
             \/ /\ a \in Whole /\ quality[<<a, 1>>] = "good"
                /\ delivered'[a] = Append(delivered[a], <<1>>)
  BY <1>1 DEF PushWhole, HandsOver, TypeOK
<1>2. ASSUME NEW w \in Workers, Deliver(w)
      PROVE  \/ delivered'[a] = delivered[a]
             \/ /\ push[w].at = "deliver" /\ push[w].frag[1] = a
                /\ delivered'[a] = Append(delivered[a], push[w].out)
  BY <1>2 DEF Deliver, HandsOver, TypeOK
<1>3. ASSUME NEW w \in Workers,
             \/ \E f \in Fragments : PushFragment(w, f)
             \/ HistoryLock(w) \/ HistoryLookup(w) \/ HistoryTimeout(w)
             \/ DataLock(w) \/ DataTimeout(w)
             \/ InsertFirst(w) \/ InsertMore(w) \/ InsertLast(w) \/ InsertFails(w)
      PROVE  delivered' = delivered
  BY <1>3 DEF PushFragment, HistoryLock, HistoryLookup, HistoryTimeout, DataLock, DataTimeout,
              InsertFirst, InsertMore, InsertLast, InsertFails
<1>4. CASE Cleanup \/ Clear \/ Tick
  BY <1>4 DEF Cleanup, CleanupLockData, CleanupData, CleanupLockHistory, CleanupHistory,
              CleanupTimeout, Clear, Tick
<1>5. CASE UNCHANGED vars
  BY <1>5 DEF vars
<1> QED
  BY <1>1, <1>2, <1>3, <1>4, <1>5 DEF Next, Push

LEMMA QualityStays == [Next]_vars => quality' = quality
BY DEF Next, Push, Cleanup, PushWhole, PushFragment, HistoryLock, HistoryLookup,
       HistoryTimeout, DataLock, DataTimeout, InsertFirst, InsertMore, InsertLast,
       InsertFails, Deliver, CleanupLockData, CleanupData, CleanupLockHistory,
       CleanupHistory, CleanupTimeout, Clear, Tick, vars
-----------------------------------------------------------------------------
(* The queues are in the sender's order.                                   *)

InOrder == \A a \in Adus : Sorted(queue[a])

LEMMA InitOrder == Init => InOrder
<1> SUFFICES ASSUME Init, NEW a \in Adus PROVE Sorted(queue[a])
  BY DEF InOrder
<1>1. queue[a] = <<>> /\ DOMAIN <<>> = {}
  BY DEF Init
<1> QED
  BY <1>1 DEF Sorted

LEMMA OrderNext == TypeOK /\ InOrder /\ [Next]_vars => InOrder'
<1> SUFFICES ASSUME TypeOK, InOrder, [Next]_vars, NEW a \in Adus PROVE Sorted(queue'[a])
  BY DEF InOrder
<1>1. queue[a] \in Seq(Nat) /\ Sorted(queue[a])
  BY DEF TypeOK, InOrder
<1>2. CASE queue'[a] = <<>>
  <2>1. DOMAIN <<>> = {}
    OBVIOUS
  <2> QED
    BY <1>2, <2>1 DEF Sorted
<1>3. ASSUME NEW w \in Workers, NEW i \in DOMAIN Sizes[a], Inserts(w, a, i)
      PROVE  Sorted(queue'[a])
  <2>1. i \in Nat /\ queue'[a] = Placed(queue[a], i)
    BY <1>3, FirstAre DEF Inserts
  <2> QED
    BY <1>1, <2>1, PlacedInOrder
<1> QED
  BY <1>1, <1>2, <1>3, QueueSteps

LEMMA OrderCorrect == Spec => []InOrder
<1> QED
  BY InitOrder, OrderNext, TypeCorrect, PTL DEF Spec

(* A fragment that comes after all the others of its ADU completes it.     *)
LEMMA LastIsComplete ==
    ASSUME TypeOK, InOrder, NEW a \in Adus, Exact(a), NEW i \in DOMAIN Sizes[a],
           ToSet(queue[a]) # DOMAIN Sizes[a],
           ToSet(Placed(queue[a], i)) = DOMAIN Sizes[a],
           IsPrefix(queue[a], Placed(queue[a], i))
    PROVE  Complete(a, queue[a], i)
<1> DEFINE q == queue[a]
<1> DEFINE t == Placed(q, i)
<1> DEFINE n == Len(Sizes[a])
<1>0. /\ q \in Seq(Nat) /\ i \in Nat /\ Len(q) \in Nat /\ DOMAIN q = 1 .. Len(q)
      /\ \A k \in 1 .. Len(q) : q[k] \in DOMAIN Sizes[a]
      /\ n \in Nat /\ DOMAIN Sizes[a] = 1 .. n /\ i \in 1 .. n
      /\ \A k \in 1 .. Len(q) : q[k] \in Nat
  <2>1. q \in Seq(Nat) /\ \A k \in 1 .. Len(q) : q[k] \in DOMAIN Sizes[a]
    BY DEF TypeOK
  <2>2. n \in Nat /\ DOMAIN Sizes[a] = 1 .. n
    BY FirstAre
  <2> HIDE DEF q, n
  <2>3. Len(q) \in Nat /\ DOMAIN q = 1 .. Len(q) /\ \A k \in 1 .. Len(q) : q[k] \in Nat
    BY <2>1, LenProperties
  <2> QED
    BY <2>1, <2>2, <2>3
<1>1. /\ t \in Seq(Nat) /\ Len(t) = Len(q) + 1 /\ DOMAIN t = 1 .. Len(q) + 1
      /\ Place(q, i) \in 1 .. Len(q) + 1 /\ t[Place(q, i)] = i
      /\ \A k \in 1 .. Len(q) + 1 : t[k] = IF k < Place(q, i) THEN q[k]
                                          ELSE IF k = Place(q, i) THEN i ELSE q[k - 1]
  <2>1. /\ t \in Seq(Nat) /\ Len(t) = Len(q) + 1 /\ t[Place(q, i)] = i
        /\ \A k \in 1 .. Len(q) + 1 : t[k] = IF k < Place(q, i) THEN q[k]
                                            ELSE IF k = Place(q, i) THEN i ELSE q[k - 1]
    BY <1>0, PlacedIs
  <2>2. Place(q, i) \in 1 .. Len(q) + 1
    BY <1>0, PlaceIs
  <2> QED
    BY <2>1, <2>2, LenProperties
<1>2. \A k \in 1 .. Len(t) : t[k] \in DOMAIN Sizes[a]
  BY <1>1 DEF ToSet
<1>3. Sorted(t)
  BY <1>0, PlacedInOrder DEF InOrder
<1>4. \A k \in 1 .. Len(q) : t[k] = q[k]
  <2>1. SubSeq(q, 1, Len(q)) = SubSeq(t, 1, Len(q))
    BY DEF IsPrefix
  <2> HIDE DEF q, t
  <2>2. \A k \in 1 .. Len(q) : SubSeq(q, 1, Len(q))[k] = q[k]
    BY <1>0, SubSeqProperties
  <2>3. \A k \in 1 .. Len(q) : SubSeq(t, 1, Len(q))[k] = t[k]
    <3>1. \A k \in 1 .. Len(q) : t[k] \in Nat
      BY <1>0, <1>1, <1>2
    <3> QED
      BY <1>0, <3>1, SubSeqProperties
  <2> QED
    BY <2>1, <2>2, <2>3
<1> HIDE DEF t
<1>5. Place(q, i) = Len(q) + 1
  <2>1. SUFFICES ASSUME Place(q, i) <= Len(q) PROVE FALSE
    BY <1>0, <1>1
  <2>2. Place(q, i) \in 1 .. Len(q) /\ q[Place(q, i)] = i
    BY <1>0, <1>1, <1>4, <2>1
  <2>3. \A k \in 1 .. Len(q) + 1 : t[k] \in {q[j] : j \in 1 .. Len(q)}
    <3> SUFFICES ASSUME NEW k \in 1 .. Len(q) + 1 PROVE t[k] \in {q[j] : j \in 1 .. Len(q)}
      OBVIOUS
    <3>1. CASE k <= Len(q)
      BY <1>0, <1>4, <3>1
    <3>2. CASE k = Len(q) + 1
      <4>1. k > Place(q, i) /\ k - 1 \in 1 .. Len(q)
        BY <1>0, <2>1, <2>2, <3>2
      <4>2. t[k] = q[k - 1]
        BY <1>0, <1>1, <2>2, <4>1
      <4> QED
        BY <4>1, <4>2
    <3> QED
      BY <1>0, <3>1, <3>2
  <2>4. ToSet(t) \subseteq ToSet(q)
    BY <1>0, <1>1, <2>3 DEF ToSet
  <2>5. ToSet(q) \subseteq DOMAIN Sizes[a]
    BY <1>0 DEF ToSet
  <2> QED
    BY <2>4, <2>5 DEF t
<1>6. PICK k \in 1 .. Len(t) : k = Len(q) + 1
  BY <1>0, <1>1
<1>7. Len(Visited(q, i)) + 1 = k
  <2>1. Len(Visited(q, i)) \in Nat /\ Len(Visited(q, i)) + 1 \in Place(q, i) .. Len(q) + 1
    BY <1>0, VisitedIs
  <2> QED
    BY <1>0, <1>5, <1>6, <2>1
<1>8. t[k] = n
  <2>1. CASE n \in ToSet(t)
    <3>1. PICK m \in 1 .. Len(t) : t[m] = n
      BY <1>1, <2>1 DEF ToSet
    <3>2. m = k \/ t[m] <= t[k]
      <4>1. m \in DOMAIN t /\ k \in DOMAIN t /\ (m = k \/ m < k)
        BY <1>0, <1>1, <1>6
      <4> QED
        BY <1>3, <4>1 DEF Sorted
    <3>3. t[k] \in 1 .. n
      BY <1>0, <1>2
    <3> QED
      BY <1>0, <3>1, <3>2, <3>3
  <2>2. n \in ToSet(t)
    BY <1>0 DEF t
  <2> QED
    BY <2>1, <2>2
<1>9. BytesUpTo(a, t)[k] >= First(a, n)
  BY <1>1, <1>2, <1>3, <1>8, ManyBytes DEF t
<1>10. First(a, n) = Total[a]
  BY FirstAre DEF Exact, Ordered
<1>11. BytesOf(a, Visited(q, i)) + Sizes[a][i] = BytesUpTo(a, t)[k]
  BY <1>0, <1>2, <1>7, CountedBytes DEF t
<1> QED
  BY <1>9, <1>10, <1>11 DEF Complete

(* The fragment that comes last in the sender's order completes its ADU    *)
(* in that step.                                                           *)
THEOREM LastFragmentCompletes == Spec => LastCompletes
<1>1. TypeOK /\ InOrder /\ [Next]_vars =>
          \A a \in Adus :
              (/\ queue[a] # <<>>
               /\ ~Held(a)
               /\ Exact(a)
               /\ \A f \in Fragments : f[1] = a => quality[f] = "good")
                  => ~(Held(a)' /\ IsPrefix(queue[a], queue'[a]))
  <2> SUFFICES ASSUME TypeOK, InOrder, [Next]_vars, NEW a \in Adus,
                      queue[a] # <<>>, ~Held(a), Exact(a),
                      \A f \in Fragments : f[1] = a => quality[f] = "good",
                      Held(a)', IsPrefix(queue[a], queue'[a])
               PROVE  FALSE
    OBVIOUS
  <2>1. CASE queue'[a] = queue[a]
    BY <2>1 DEF Held
  <2>2. CASE queue'[a] = <<>>
    <3>1. Len(queue[a]) <= 0 /\ queue[a] \in Seq(Nat)
      BY <2>2 DEF IsPrefix, TypeOK
    <3> QED
      BY <3>1, EmptySeq, LenProperties
  <2>3. ASSUME NEW w \in Workers, NEW i \in DOMAIN Sizes[a], Inserts(w, a, i) PROVE FALSE
    <3>1. queue'[a] = Placed(queue[a], i)
      BY <2>3 DEF Inserts
    <3>2. Complete(a, queue[a], i)
      BY <3>1, LastIsComplete DEF Held
    <3>3. \A j \in DOMAIN Sizes[a] : quality[<<a, j>>] = "good"
      BY FragmentOf
    <3>4. Verifies(a, Placed(queue[a], i))
      BY <3>1, <3>3 DEF Verifies, Held
    <3>5. ~Lacking(a, Append(Visited(queue[a], i), i))
      <4>1. /\ queue[a] \in Seq(Nat) /\ i \in Nat
            /\ \A k \in 1 .. Len(queue[a]) : queue[a][k] \in DOMAIN Sizes[a]
        <5>1. /\ queue[a] \in Seq(Nat)
              /\ \A k \in 1 .. Len(queue[a]) : queue[a][k] \in DOMAIN Sizes[a]
          BY DEF TypeOK
        <5>2. i \in Nat
          BY FirstAre
        <5> QED
          BY <5>1, <5>2
      <4>2. PICK v \in Seq(Nat) : v = Visited(queue[a], i)
        BY <4>1, VisitedIs
      <4>3. \A k \in 1 .. Len(v) : v[k] \in DOMAIN Sizes[a]
        <5>1. Len(v) <= Len(queue[a]) /\ \A k \in 1 .. Len(v) : v[k] = queue[a][k]
          BY <4>1, <4>2, VisitedIs
        <5> QED
          BY <4>1, <4>2, <5>1, LenProperties
      <4>4. \A j \in ToSet(Append(v, i)) : j \in DOMAIN Sizes[a]
        BY <4>1, <4>3, AppendProperties, LenProperties DEF ToSet
      <4> QED
        BY <3>3, <4>2, <4>4 DEF Lacking
    <3> QED
      BY <2>3, <3>2, <3>4, <3>5 DEF Inserts
  <2> QED
    BY <2>1, <2>2, <2>3, QueueSteps
<1> QED
  BY <1>1, TypeCorrect, OrderCorrect, PTL DEF Spec, LastCompletes
-----------------------------------------------------------------------------
(* What is handed over.                                                    *)

OutsOf(a) == {w \in Workers : push[w].at = "deliver" /\ push[w].frag[1] = a}

AllGuarded(a) == \A f \in unguarded : f[1] # a

WholeOnce ==
    \A a \in Adus \ Whole : AllGuarded(a) =>
        /\ Increasing(queue[a])
        /\ Exact(a) => /\ \A w \in OutsOf(a) : push[w].out = Ordered(a)
                       /\ \A n \in DOMAIN delivered[a] : delivered[a][n] = Ordered(a)

Verified ==
    /\ \A a \in Adus : \A w \in OutsOf(a) : Verifies(a, push[w].out)
    /\ \A a \in Adus : \A n \in DOMAIN delivered[a] : Verifies(a, delivered[a][n])

LEMMA InitWhole == Init => WholeOnce /\ Verified
<1> SUFFICES ASSUME Init PROVE WholeOnce /\ Verified
  OBVIOUS
<1>1. \A a \in Adus : DOMAIN queue[a] = {} /\ DOMAIN delivered[a] = {}
  <2>1. DOMAIN <<>> = {}
    OBVIOUS
  <2> QED
    BY <2>1 DEF Init
<1>2. \A a \in Adus : OutsOf(a) = {}
  BY DEF Init, Free, OutsOf
<1>3. \A a \in Adus : Increasing(queue[a])
  BY <1>1 DEF Increasing
<1> QED
  BY <1>1, <1>2, <1>3 DEF WholeOnce, Verified

(* A guarded fragment that is being inserted is not in the queue.          *)
LEMMA NotQueuedYet ==
    ASSUME TypeOK, Once, NEW a \in Adus \ Whole, AllGuarded(a), NEW i \in DOMAIN Sizes[a],
           NEW w \in Workers, push[w].at = "insert", push[w].frag = <<a, i>>
    PROVE  i \notin ToSet(queue[a])
<1>1. PICK f \in Fragments : f = <<a, i>>
  BY FragmentOf
<1>2. f[1] = a /\ f[2] = i
  BY <1>1
<1>3. UsedOnce(f) /\ w \in Calls(f)
  BY <1>1, <1>2 DEF Once, Guarded, AllGuarded, Calls
<1>4. PositionsOf(queue[a], i) = {}
  BY <1>2, <1>3 DEF UsedOnce, Queued
<1> QED
  BY <1>4, PositionsAndSet

LEMMA OutsNext ==
    ASSUME TypeOK, Once, WholeOnce, [Next]_vars,
           NEW a \in Adus \ Whole, AllGuarded(a), Exact(a), NEW w \in OutsOf(a)'
    PROVE  push'[w].out = Ordered(a)
<1>1. w \in Workers /\ push'[w].at = "deliver" /\ push'[w].frag[1] = a
  BY DEF OutsOf
<1>2. CASE push'[w] = push[w]
  BY <1>1, <1>2 DEF WholeOnce, OutsOf
<1>3. CASE InsertLast(w)
  <2>1. PICK f \in Fragments : f = push[w].frag
    BY <1>1, <1>3 DEF InsertLast, TypeOK
  <2>2. push'[w].frag = f /\ push'[w].out = Placed(queue[f[1]], f[2])
    <3>1. push' = [push EXCEPT ![w] = [push[w] EXCEPT !.at = "deliver",
                                                      !.out = Placed(queue[f[1]], f[2])]]
      BY <1>3, <2>1 DEF InsertLast
    <3>2. push \in [Workers -> [at : Places, frag : Fragments \cup {None}, out : Seq(Nat)]]
      BY DEF TypeOK
    <3> QED
      BY <1>1, <2>1, <3>1, <3>2
  <2>3. PICK i \in DOMAIN Sizes[a] : f = <<a, i>>
    BY <1>1, <2>2, FragmentParts
  <2>4. i \in Nat /\ queue[a] \in Seq(Nat) /\ \A k \in 1 .. Len(queue[a]) : queue[a][k] \in DOMAIN Sizes[a]
    <3>1. i \in Nat
      BY FirstAre
    <3> QED
      BY <3>1 DEF TypeOK
  <2>5. push[w].at = "insert" /\ Complete(a, queue[a], i)
    BY <1>3, <2>1, <2>3 DEF InsertLast
  <2>6. i \notin ToSet(queue[a])
    BY <1>1, <2>1, <2>3, <2>5, NotQueuedYet
  <2>7. Increasing(Placed(queue[a], i))
    BY <2>4, <2>6, PlacedInOrder DEF WholeOnce
  <2>8. \A k \in 1 .. Len(Placed(queue[a], i)) : Placed(queue[a], i)[k] \in DOMAIN Sizes[a]
    BY <2>3, PlacedType
  <2>9. Placed(queue[a], i) = Ordered(a)
    BY <2>4, <2>5, <2>7, <2>8, CompleteIsAll
  <2> QED
    BY <2>2, <2>3, <2>9
<1> QED
  BY <1>1, <1>2, <1>3, OutSteps

LEMMA WholeNext == TypeOK /\ Once /\ WholeOnce /\ [Next]_vars => WholeOnce'
<1> SUFFICES ASSUME TypeOK, Once, WholeOnce, [Next]_vars, NEW a \in Adus \ Whole, AllGuarded(a)'
             PROVE  /\ Increasing(queue'[a])
                    /\ Exact(a) => /\ \A w \in OutsOf(a)' : push'[w].out = Ordered(a)
                                   /\ \A n \in DOMAIN delivered'[a] : delivered'[a][n] = Ordered(a)
  BY DEF WholeOnce, Exact
<1>1. AllGuarded(a)
  BY GuardedShrinks DEF AllGuarded
<1>2. Increasing(queue'[a])
  <2>1. Increasing(queue[a]) /\ queue[a] \in Seq(Nat)
    BY <1>1 DEF WholeOnce, TypeOK
  <2>2. CASE queue'[a] = <<>>
    <3>1. DOMAIN <<>> = {}
      OBVIOUS
    <3> QED
      BY <2>2, <3>1 DEF Increasing
  <2>3. ASSUME NEW w \in Workers, NEW i \in DOMAIN Sizes[a], Inserts(w, a, i)
        PROVE  Increasing(queue'[a])
    <3>1. queue'[a] = Placed(queue[a], i) /\ push[w].at = "insert" /\ push[w].frag = <<a, i>>
      BY <2>3 DEF Inserts
    <3>2. i \in Nat /\ i \notin ToSet(queue[a])
      BY <1>1, <3>1, FirstAre, NotQueuedYet
    <3> QED
      BY <2>1, <3>1, <3>2, PlacedInOrder
  <2> QED
    BY <2>1, <2>2, <2>3, QueueSteps
<1>3. ASSUME Exact(a), NEW n \in DOMAIN delivered'[a] PROVE delivered'[a][n] = Ordered(a)
  <2>1. \A m \in DOMAIN delivered[a] : delivered[a][m] = Ordered(a)
    BY <1>1, <1>3 DEF WholeOnce
  <2>2. CASE delivered'[a] = delivered[a]
    BY <1>3, <2>1, <2>2
  <2>3. ASSUME NEW w \in Workers, push[w].at = "deliver", push[w].frag[1] = a,
               delivered'[a] = Append(delivered[a], push[w].out)
        PROVE  delivered'[a][n] = Ordered(a)
    <3>1. push[w].out = Ordered(a)
      BY <1>1, <1>3, <2>3 DEF WholeOnce, OutsOf
    <3>2. PICK d \in Seq(Seq(Nat)), out \in Seq(Nat) : d = delivered[a] /\ out = push[w].out
      BY DEF TypeOK
    <3>3. n \in 1 .. Len(d) + 1
      BY <1>3, <2>3, <3>2, AppendProperties, LenProperties
    <3>4. (n \in 1 .. Len(d) /\ n \in DOMAIN d) \/ n = Len(d) + 1
      BY <3>3, LenProperties
    <3> QED
      BY <2>1, <2>3, <3>1, <3>2, <3>3, <3>4, AppendProperties
  <2> QED
    BY <2>2, <2>3, DeliveredSteps
<1> QED
  BY <1>1, <1>2, <1>3, OutsNext

LEMMA VerifiedNext == TypeOK /\ Verified /\ [Next]_vars => Verified'
<1> SUFFICES ASSUME TypeOK, Verified, [Next]_vars PROVE Verified'
  OBVIOUS
<1>1. quality' = quality
  BY QualityStays
<1>2. ASSUME NEW a \in Adus, NEW w \in OutsOf(a)' PROVE Verifies(a, push'[w].out)
  <2>1. w \in Workers /\ push'[w].at = "deliver" /\ push'[w].frag[1] = a
    BY DEF OutsOf
  <2>2. CASE push'[w] = push[w]
    <3>1. w \in OutsOf(a) /\ push'[w].out = push[w].out
      BY <2>1, <2>2 DEF OutsOf
    <3>2. Verifies(a, push[w].out)
      BY <3>1 DEF Verified
    <3> QED
      BY <3>1, <3>2
  <2>3. CASE InsertLast(w)
    <3>1. /\ push' = [push EXCEPT ![w] = [push[w] EXCEPT !.at = "deliver",
                          !.out = Placed(queue[push[w].frag[1]], push[w].frag[2])]]
          /\ Verifies(push[w].frag[1], Placed(queue[push[w].frag[1]], push[w].frag[2]))
      BY <2>3 DEF InsertLast
    <3>2. push \in [Workers -> [at : Places, frag : Fragments \cup {None}, out : Seq(Nat)]]
      BY DEF TypeOK
    <3>3. /\ push'[w].frag = push[w].frag
          /\ push'[w].out = Placed(queue[push[w].frag[1]], push[w].frag[2])
      BY <2>1, <3>1, <3>2
    <3> QED
      BY <2>1, <3>1, <3>3
  <2> QED
    BY <2>1, <2>2, <2>3, OutSteps
<1>3. ASSUME NEW a \in Adus, NEW n \in DOMAIN delivered'[a] PROVE Verifies(a, delivered'[a][n])
  <2>2. \A m \in DOMAIN delivered[a] : Verifies(a, delivered[a][m])
    BY DEF Verified
  <2>3. PICK d \in Seq(Seq(Nat)) : d = delivered[a]
    BY DEF TypeOK
  <2>4. ASSUME NEW out \in Seq(Nat), delivered'[a] = Append(delivered[a], out), Verifies(a, out)
        PROVE  Verifies(a, delivered'[a][n])
    <3>1. n \in 1 .. Len(d) + 1
      BY <1>3, <2>3, <2>4, AppendProperties, LenProperties
    <3>2. (n \in 1 .. Len(d) /\ n \in DOMAIN d) \/ n = Len(d) + 1
      BY <3>1, LenProperties
    <3>3. delivered'[a][n] = d[n] \/ delivered'[a][n] = out
      BY <2>3, <2>4, <3>1, <3>2, AppendProperties
    <3>4. n \in 1 .. Len(d) => delivered'[a][n] = d[n]
      BY <2>3, <2>4, AppendProperties
    <3>5. n = Len(d) + 1 => delivered'[a][n] = out
      BY <2>3, <2>4, AppendProperties
    <3> HIDE DEF Verifies
    <3> QED
      BY <2>2, <2>3, <2>4, <3>2, <3>4, <3>5
  <2>5. CASE delivered'[a] = delivered[a]
    BY <1>3, <2>2, <2>5
  <2>6. ASSUME NEW w \in Workers, push[w].at = "deliver", push[w].frag[1] = a,
               delivered'[a] = Append(delivered[a], push[w].out)
        PROVE  Verifies(a, delivered'[a][n])
    <3>1. Verifies(a, push[w].out) /\ push[w].out \in Seq(Nat)
      BY <2>6 DEF Verified, OutsOf, TypeOK
    <3> QED
      BY <2>4, <2>6, <3>1
  <2>7. CASE a \in Whole /\ quality[<<a, 1>>] = "good" /\ delivered'[a] = Append(delivered[a], <<1>>)
    <3>1. PICK out \in Seq(Nat) : out = <<1>>
      <4>1. <<1>> \in Seq(Nat)
        OBVIOUS
      <4> QED
        BY <4>1
    <3>2. \A i \in ToSet(out) : i = 1
      BY <3>1 DEF ToSet
    <3>3. Verifies(a, out)
      BY <2>7, <3>2 DEF Verifies
    <3> QED
      BY <2>4, <2>7, <3>1, <3>3
  <2> QED
    BY <2>5, <2>6, <2>7, DeliveredSteps
<1>4. /\ \A a \in Adus : \A w \in OutsOf(a)' : \A i \in ToSet(push'[w].out) :
             quality'[<<a, i>>] # "unverifiable"
      /\ \A a \in Adus : \A n \in DOMAIN delivered'[a] : \A i \in ToSet(delivered'[a][n]) :
             quality'[<<a, i>>] # "unverifiable"
  BY <1>1, <1>2, <1>3 DEF Verifies
<1> QED
  BY <1>4 DEF Verified, Verifies

(* An ADU handed over is all its fragments in the sender's order, when its *)
(* sizes add up and the history missed no duplicate, and none of its       *)
(* fragments' security blocks failed to verify.                            *)
THEOREM DeliveredCorrect == Spec => []DeliveredComplete
<1>1. WholeOnce /\ Verified => DeliveredComplete
  <2> SUFFICES ASSUME WholeOnce, Verified PROVE DeliveredComplete
    OBVIOUS
  <2>1. ASSUME NEW a \in Adus \ Whole, Exact(a), \A f \in unguarded : f[1] # a,
               NEW n \in DOMAIN delivered[a]
        PROVE  delivered[a][n] = [i \in DOMAIN Sizes[a] |-> i]
    BY <2>1 DEF WholeOnce, AllGuarded, Ordered
  <2>2. ASSUME NEW a \in Adus, NEW n \in DOMAIN delivered[a], NEW i \in ToSet(delivered[a][n])
        PROVE  quality[<<a, i>>] # "unverifiable"
    BY DEF Verified, Verifies
  <2> QED
    BY <2>1, <2>2 DEF DeliveredComplete
<1> QED
  BY <1>1, InitWhole, InitOnce, OnceNext, WholeNext, VerifiedNext, TypeCorrect, PTL DEF Spec
=============================================================================
