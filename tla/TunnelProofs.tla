---------------------------- MODULE TunnelProofs ----------------------------
(***************************************************************************)
(* Proofs about Tunnel for any workers, any datagrams of any size, any     *)
(* size of a chunk and any number of duplicates, and about FileNode for    *)
(* any routes and goals: its steps are steps of Tunnel, but that bundles   *)
(* are sent one by one.                                                    *)
(***************************************************************************)
EXTENDS FileNode, Foundations, SequenceTheorems

Bundles == [stamp : 0 .. MaxTime, number : Nat, whole : BOOLEAN, total : Nat,
            datagram : Datagrams, from : Nat, bytes : Nat]

-----------------------------------------------------------------------------
(* The queue of an entry.                                                  *)

(* Numbers increase along the queue. *)
Sorted(q) == \A j, k \in 1 .. Len(q) : j < k => q[j].number < q[k].number

(* There is a place for a fragment in every queue, before the first that   *)
(* has no smaller number.                                                  *)
LEMMA PlaceIs ==
    ASSUME NEW q \in Seq(Bundles), NEW b \in Bundles
    PROVE  /\ Place(q, b) \in 1 .. Len(q) + 1
           /\ Place(q, b) <= Len(q) => q[Place(q, b)].number >= b.number
           /\ \A p1 \in 1 .. Place(q, b) - 1 : q[p1].number < b.number
<1> DEFINE T == {p \in 1 .. Len(q) + 1 : p <= Len(q) => q[p].number >= b.number}
<1>0. Len(q) \in Nat /\ b.number \in Nat /\ \A k \in 1 .. Len(q) : q[k].number \in Nat
  <2>1. Len(q) \in Nat /\ \A k \in 1 .. Len(q) : q[k] \in Bundles
    BY LenProperties, ElementOfSeq
  <2> QED
    BY <2>1 DEF Bundles
<1>1. T \in SUBSET Nat /\ Len(q) + 1 \in T
  BY <1>0
<1>2. PICK p \in T : \A k \in T : p <= k
  BY <1>1, LeastElement
<1>3. ASSUME NEW p1 \in 1 .. p - 1 PROVE q[p1].number < b.number
  <2>1. p1 \in 1 .. Len(q) /\ p1 \in Nat /\ p1 < p
    BY <1>0
  <2>2. p1 \notin T
    BY <1>2, <2>1
  <2> QED
    BY <1>0, <2>1, <2>2
<1> QED
  BY <1>0, <1>2, <1>3 DEF Place

(* The queue with the fragment in its place. *)
LEMMA InsertIs ==
    ASSUME NEW q \in Seq(Bundles), NEW b \in Bundles
    PROVE  /\ Insert(q, b) \in Seq(Bundles)
           /\ Len(Insert(q, b)) = Len(q) + 1
           /\ Insert(q, b)[Place(q, b)] = b
           /\ \A k \in 1 .. Len(q) + 1 :
                 Insert(q, b)[k] = IF k < Place(q, b) THEN q[k]
                                   ELSE IF k = Place(q, b) THEN b ELSE q[k - 1]
<1> DEFINE p == Place(q, b)
<1> DEFINE before == SubSeq(q, 1, p - 1)
<1> DEFINE after == SubSeq(q, p, Len(q))
<1>1. p \in 1 .. Len(q) + 1 /\ Len(q) \in Nat /\ \A k \in 1 .. Len(q) : q[k] \in Bundles
  BY PlaceIs, LenProperties, ElementOfSeq
<1>2. Insert(q, b) = before \o <<b>> \o after
  BY DEF Insert, InsertAt
<1> HIDE DEF p
<1>3. /\ before \in Seq(Bundles) /\ Len(before) = p - 1
      /\ \A k \in 1 .. p - 1 : before[k] = q[k]
  <2>1. \A k \in 1 .. p - 1 : q[k] \in Bundles
    BY <1>1
  <2> QED
    BY <1>1, <2>1, SubSeqProperties
<1>4. /\ after \in Seq(Bundles) /\ Len(after) = Len(q) - p + 1
      /\ \A k \in 1 .. Len(q) - p + 1 : after[k] = q[p + k - 1]
  <2>1. \A k \in p .. Len(q) : q[k] \in Bundles
    BY <1>1
  <2> QED
    BY <1>1, <2>1, SubSeqProperties
<1> HIDE DEF before, after
<1> DEFINE left == before \o <<b>>
<1>5. /\ left \in Seq(Bundles) /\ Len(left) = p
      /\ \A k \in 1 .. p - 1 : left[k] = q[k]
      /\ left[p] = b
  <2>1. /\ <<b>> \in Seq(Bundles) /\ Len(<<b>>) = 1 /\ <<b>>[1] = b
        /\ p \in Nat \ {0}
    BY <1>1
  <2>2. /\ left \in Seq(Bundles) /\ Len(left) = Len(before) + 1
        /\ \A k \in 1 .. Len(before) + 1 :
              left[k] = IF k <= Len(before) THEN before[k] ELSE <<b>>[k - Len(before)]
    BY <1>3, <2>1, ConcatProperties
  <2> HIDE DEF left
  <2>3. ASSUME NEW k \in 1 .. p - 1 PROVE left[k] = q[k]
    <3>1. k \in 1 .. Len(before) + 1 /\ k <= Len(before)
      BY <1>3, <2>1
    <3> QED
      BY <1>3, <2>2, <3>1
  <2>4. left[p] = b
    <3>1. p \in 1 .. Len(before) + 1 /\ ~(p <= Len(before)) /\ p - Len(before) = 1
      BY <1>3, <2>1
    <3> QED
      BY <2>1, <2>2, <3>1
  <2> QED
    BY <1>3, <2>1, <2>2, <2>3, <2>4
<1> HIDE DEF left
<1>6. /\ left \o after \in Seq(Bundles)
      /\ Len(left \o after) = Len(q) + 1
      /\ \A k \in 1 .. Len(q) + 1 :
            (left \o after)[k] = IF k <= p THEN left[k] ELSE after[k - p]
  <2>1. Len(left) + Len(after) = Len(q) + 1
    BY <1>1, <1>4, <1>5
  <2>2. /\ left \o after \in Seq(Bundles)
        /\ Len(left \o after) = Len(left) + Len(after)
        /\ \A k \in 1 .. Len(left) + Len(after) :
              (left \o after)[k] = IF k <= Len(left) THEN left[k] ELSE after[k - Len(left)]
    BY <1>4, <1>5, ConcatProperties
  <2> QED
    BY <1>5, <2>1, <2>2
<1>7. \A k \in 1 .. Len(q) + 1 : k > p => after[k - p] = q[k - 1]
  BY <1>1, <1>4
<1>8. ASSUME NEW k \in 1 .. Len(q) + 1
      PROVE  (left \o after)[k] = IF k < p THEN q[k] ELSE IF k = p THEN b ELSE q[k - 1]
  <2>1. CASE k < p
    <3>1. k \in 1 .. p - 1 /\ k <= p
      BY <1>1, <2>1
    <3>2. (left \o after)[k] = left[k] /\ left[k] = q[k]
      BY <3>1, <1>5, <1>6
    <3> QED
      BY <3>2, <2>1
  <2>2. CASE k = p
    BY <1>1, <1>5, <1>6, <2>2
  <2>3. CASE k > p
    BY <1>1, <1>6, <1>7, <2>3
  <2>4. k < p \/ k = p \/ k > p
    BY <1>1
  <2> QED
    BY <1>1, <2>1, <2>2, <2>3, <2>4
<1>9. Insert(q, b) = left \o after
  BY <1>2 DEF left
<1>10. /\ Insert(q, b) \in Seq(Bundles)
       /\ Len(Insert(q, b)) = Len(q) + 1
       /\ Insert(q, b)[p] = b
       /\ \A k \in 1 .. Len(q) + 1 :
             Insert(q, b)[k] = IF k < p THEN q[k] ELSE IF k = p THEN b ELSE q[k - 1]
  BY <1>1, <1>6, <1>8, <1>9
<1> QED
  BY <1>10 DEF p

LEMMA InsertSet ==
    ASSUME NEW q \in Seq(Bundles), NEW b \in Bundles
    PROVE  ToSet(Insert(q, b)) = ToSet(q) \cup {b}
<1> DEFINE f == Insert(q, b)
<1> DEFINE p == Place(q, b)
<1>1. /\ Len(q) \in Nat /\ DOMAIN q = 1 .. Len(q) /\ p \in 1 .. Len(q) + 1
      /\ DOMAIN f = 1 .. Len(q) + 1
      /\ \A k \in 1 .. Len(q) + 1 : f[k] = IF k < p THEN q[k] ELSE IF k = p THEN b ELSE q[k - 1]
  BY PlaceIs, InsertIs, LenProperties
<1> HIDE DEF f, p
<1>2. ASSUME NEW k \in 1 .. Len(q) + 1 PROVE f[k] \in ToSet(q) \cup {b}
  <2>1. k = p \/ (k < p /\ k \in 1 .. Len(q)) \/ (k > p /\ k - 1 \in 1 .. Len(q))
    BY <1>1
  <2> QED
    BY <1>1, <2>1 DEF ToSet
<1>3. ASSUME NEW k \in 1 .. Len(q) PROVE q[k] \in ToSet(f)
  <2>1. CASE k < p
    <3>1. k \in 1 .. Len(q) + 1 /\ f[k] = q[k]
      BY <1>1, <2>1
    <3> QED
      BY <3>1, <1>1 DEF ToSet
  <2>2. CASE ~(k < p)
    <3>1. k + 1 \in 1 .. Len(q) + 1 /\ ~(k + 1 < p) /\ k + 1 # p /\ (k + 1) - 1 = k
      BY <1>1, <2>2
    <3>2. f[k + 1] = q[k]
      BY <1>1, <3>1
    <3> QED
      BY <3>1, <3>2, <1>1 DEF ToSet
  <2> QED
    BY <2>1, <2>2
<1>4. b \in ToSet(f)
  <2>1. p \in DOMAIN f /\ f[p] = b
    BY <1>1
  <2> QED
    BY <2>1 DEF ToSet
<1> QED
  BY <1>1, <1>2, <1>3, <1>4 DEF ToSet, f

(* A fragment whose number is new keeps the queue sorted. *)
LEMMA InsertSorted ==
    ASSUME NEW q \in Seq(Bundles), NEW b \in Bundles, Sorted(q),
           \A k \in 1 .. Len(q) : q[k].number # b.number
    PROVE  Sorted(Insert(q, b))
<1> DEFINE f == Insert(q, b)
<1> DEFINE p == Place(q, b)
<1>1. /\ Len(q) \in Nat /\ p \in 1 .. Len(q) + 1
      /\ p <= Len(q) => q[p].number >= b.number
      /\ \A k \in 1 .. p - 1 : q[k].number < b.number
      /\ \A k \in 1 .. Len(q) : q[k].number \in Nat
      /\ b.number \in Nat
  <2>1. Len(q) \in Nat /\ \A k \in 1 .. Len(q) : q[k] \in Bundles
    BY LenProperties, ElementOfSeq
  <2>2. b.number \in Nat /\ \A k \in 1 .. Len(q) : q[k].number \in Nat
    BY <2>1 DEF Bundles
  <2> QED
    BY <2>1, <2>2, PlaceIs
<1>2. /\ Len(f) = Len(q) + 1
      /\ \A k \in 1 .. Len(q) + 1 : f[k] = IF k < p THEN q[k] ELSE IF k = p THEN b ELSE q[k - 1]
  BY InsertIs
<1> HIDE DEF f, p
<1>3. \A k \in 1 .. Len(q) + 1 : k > p => k - 1 \in 1 .. Len(q) /\ k - 1 >= p /\ f[k] = q[k - 1]
  BY <1>1, <1>2
<1>4. \A k \in 1 .. Len(q) + 1 : k < p => k \in 1 .. Len(q) /\ f[k] = q[k] /\ q[k].number < b.number
  BY <1>1, <1>2
<1>5. f[p] = b
  BY <1>1, <1>2
<1>6. \A j, k \in 1 .. Len(q) : j < k => q[j].number < q[k].number
  BY DEF Sorted
<1>7. \A k \in 1 .. Len(q) : k >= p => q[k].number > b.number
  <2> SUFFICES ASSUME NEW k \in 1 .. Len(q), k >= p PROVE q[k].number > b.number
    OBVIOUS
  <2>1. p \in 1 .. Len(q) /\ q[p].number >= b.number /\ q[p].number # b.number
    BY <1>1
  <2>2. q[p].number > b.number
    BY <2>1, <1>1
  <2>3. k = p \/ p < k
    BY <1>1
  <2>4. CASE k = p
    BY <2>2, <2>4
  <2>5. CASE p < k
    <3>1. q[p].number < q[k].number
      BY <1>6, <2>1, <2>5
    <3> QED
      BY <3>1, <2>1, <2>2, <1>1
  <2> QED
    BY <2>3, <2>4, <2>5
<1>8. ASSUME NEW j \in 1 .. Len(q) + 1, NEW k \in 1 .. Len(q) + 1, j < k
      PROVE  f[j].number < f[k].number
  <2>1. CASE k < p
    <3>1. j < p
      BY <1>1, <1>8, <2>1
    <3> QED
      BY <1>4, <1>6, <1>8, <2>1, <3>1
  <2>2. CASE k = p
    <3>1. j < p
      BY <1>8, <2>2
    <3> QED
      BY <1>4, <1>5, <2>2, <3>1
  <2>3. CASE k > p
    <3>1. k - 1 \in 1 .. Len(q) /\ k - 1 >= p /\ f[k] = q[k - 1]
      BY <1>3, <2>3
    <3>2. CASE j < p
      <4>1. j \in 1 .. Len(q) /\ f[j] = q[j] /\ j < k - 1
        BY <1>1, <1>4, <3>1, <3>2
      <4> QED
        BY <1>6, <3>1, <4>1
    <3>3. CASE j = p
      <4>1. q[k - 1].number > b.number
        BY <1>7, <3>1
      <4> QED
        BY <1>1, <1>5, <3>1, <3>3, <4>1
    <3>4. CASE j > p
      <4>1. j - 1 \in 1 .. Len(q) /\ f[j] = q[j - 1] /\ j - 1 < k - 1
        BY <1>3, <1>8, <3>4
      <4> QED
        BY <1>6, <3>1, <4>1
    <3> QED
      BY <1>1, <3>2, <3>3, <3>4
  <2> QED
    BY <1>1, <2>1, <2>2, <2>3
<1> QED
  BY <1>2, <1>8 DEF Sorted, f
-----------------------------------------------------------------------------
(* The sums of payload sizes.                                              *)

LEMMA BytesAre ==
    ASSUME NEW q \in Seq(Bundles)
    PROVE  /\ BytesUpTo(q) \in [0 .. Len(q) -> Nat]
           /\ BytesUpTo(q)[0] = 0
           /\ \A k \in 1 .. Len(q) : BytesUpTo(q)[k] = BytesUpTo(q)[k - 1] + q[k].bytes
<1> DEFINE n == Len(q)
<1> DEFINE c == [k \in 1 .. n |-> q[k].bytes]
<1> DEFINE Count(g) == g = [k \in 0 .. n |-> IF k = 0 THEN 0 ELSE g[k - 1] + q[k].bytes]
<1>0. n \in Nat /\ \A k \in 1 .. n : q[k] \in Bundles
  BY LenProperties, ElementOfSeq
<1>1. c \in [1 .. n -> Nat]
  BY <1>0 DEF Bundles
<1>2. PICK g \in [0 .. n -> Nat] :
          g = [k \in 0 .. n |-> IF k = 0 THEN 0 ELSE g[k - 1] + c[k]]
  <2> HIDE DEF c
  <2> QED
    BY <1>0, <1>1, RunningTotal
<1>3. Count(g)
  <2>1. \A k \in 0 .. n : k # 0 => c[k] = q[k].bytes
    BY <1>0
  <2> HIDE DEF c
  <2> QED
    BY <1>2, <2>1
<1>4. Count(BytesUpTo(q))
  <2>1. BytesUpTo(q) = CHOOSE s : Count(s)
    BY DEF BytesUpTo
  <2> HIDE DEF Count
  <2> QED
    BY <1>3, <2>1
<1>5. ASSUME NEW h, Count(h) PROVE h \in [0 .. n -> Nat]
  <2> DEFINE T == {k \in Nat : k <= n => h[k] \in Nat}
  <2>1. 0 \in T
    BY <1>0, <1>5
  <2>2. ASSUME NEW k \in T PROVE k + 1 \in T
    <3> SUFFICES ASSUME k + 1 <= n PROVE h[k + 1] \in Nat
      OBVIOUS
    <3>1. k \in Nat /\ h[k] \in Nat /\ k + 1 \in 1 .. n /\ k + 1 \in 0 .. n
      BY <1>0
    <3>2. h[k + 1] = h[k] + q[k + 1].bytes
      BY <1>5, <3>1
    <3>3. q[k + 1].bytes \in Nat
      BY <1>1, <3>1
    <3> QED
      BY <3>1, <3>2, <3>3
  <2>3. T = Nat
    <3>1. T \in SUBSET Nat
      OBVIOUS
    <3> HIDE DEF T
    <3> QED
      BY <2>1, <2>2, <3>1, InductionOnNat
  <2>4. \A k \in 0 .. n : h[k] \in Nat
    BY <1>0, <2>3
  <2>5. h = [k \in 0 .. n |-> h[k]]
    BY <1>5
  <2> QED
    BY <2>4, <2>5
<1> DEFINE b == BytesUpTo(q)
<1>6. b \in [0 .. n -> Nat] /\ b = [k \in 0 .. n |-> IF k = 0 THEN 0 ELSE b[k - 1] + q[k].bytes]
  BY <1>4, <1>5
<1> HIDE DEF b
<1>7. b[0] = 0
  BY <1>0, <1>6
<1>8. \A k \in 1 .. n : b[k] = b[k - 1] + q[k].bytes
  BY <1>0, <1>6
<1> QED
  BY <1>6, <1>7, <1>8 DEF b

(* Queues that begin alike have the same sums there. *)
LEMMA SameBytes ==
    ASSUME NEW q \in Seq(Bundles), NEW r \in Seq(Bundles), NEW v \in Nat,
           v <= Len(q), v <= Len(r), \A k \in 1 .. v : q[k] = r[k]
    PROVE  \A k \in 0 .. v : BytesUpTo(q)[k] = BytesUpTo(r)[k]
<1> DEFINE b == BytesUpTo(q)
<1> DEFINE c == BytesUpTo(r)
<1> DEFINE T == {k \in Nat : k <= v => b[k] = c[k]}
<1>0. Len(q) \in Nat /\ Len(r) \in Nat
  BY LenProperties
<1>1. /\ b[0] = 0 /\ c[0] = 0
      /\ \A k \in 1 .. Len(q) : b[k] = b[k - 1] + q[k].bytes
      /\ \A k \in 1 .. Len(r) : c[k] = c[k - 1] + r[k].bytes
  BY BytesAre
<1> HIDE DEF b, c
<1>2. 0 \in T
  BY <1>1
<1>3. ASSUME NEW k \in T PROVE k + 1 \in T
  <2> SUFFICES ASSUME k + 1 <= v PROVE b[k + 1] = c[k + 1]
    OBVIOUS
  <2>1. /\ k \in Nat /\ b[k] = c[k] /\ (k + 1) - 1 = k
        /\ k + 1 \in 1 .. v /\ k + 1 \in 1 .. Len(q) /\ k + 1 \in 1 .. Len(r)
    BY <1>0
  <2> QED
    BY <1>1, <2>1
<1>4. T = Nat
  <2>1. T \in SUBSET Nat
    OBVIOUS
  <2> HIDE DEF T
  <2> QED
    BY <1>2, <1>3, <2>1, InductionOnNat
<1> QED
  BY <1>4 DEF b, c

(* The bytes counted when a fragment comes are those of the first so many  *)
(* fragments of the queue it is put into.                                  *)
LEMMA InsertBytes ==
    ASSUME NEW q \in Seq(Bundles), NEW b \in Bundles
    PROVE  \A k \in Place(q, b) .. Len(q) + 1 :
               BytesUpTo(Insert(q, b))[k] = BytesUpTo(q)[k - 1] + b.bytes
<1> DEFINE f == Insert(q, b)
<1> DEFINE p == Place(q, b)
<1> DEFINE s == BytesUpTo(q)
<1> DEFINE c == BytesUpTo(f)
<1> DEFINE T == {d \in Nat : p + d <= Len(q) + 1 => c[p + d] = s[(p + d) - 1] + b.bytes}
<1>0. Len(q) \in Nat /\ b.bytes \in Nat /\ \A k \in 1 .. Len(q) : q[k].bytes \in Nat
  <2>1. Len(q) \in Nat /\ \A k \in 1 .. Len(q) : q[k] \in Bundles
    BY LenProperties, ElementOfSeq
  <2> QED
    BY <2>1 DEF Bundles
<1>1. /\ p \in 1 .. Len(q) + 1
      /\ f \in Seq(Bundles) /\ Len(f) = Len(q) + 1
      /\ \A k \in 1 .. Len(q) + 1 : f[k] = IF k < p THEN q[k] ELSE IF k = p THEN b ELSE q[k - 1]
  BY PlaceIs, InsertIs
<1>2. /\ s \in [0 .. Len(q) -> Nat]
      /\ \A k \in 1 .. Len(q) : s[k] = s[k - 1] + q[k].bytes
  BY BytesAre
<1>3. \A k \in 1 .. Len(q) + 1 : c[k] = c[k - 1] + f[k].bytes
  <2>1. \A k \in 1 .. Len(f) : c[k] = c[k - 1] + f[k].bytes
    BY <1>1, BytesAre
  <2> QED
    BY <1>1, <2>1
<1>4. c[p - 1] = s[p - 1]
  <2>1. PICK v \in Nat : v = p - 1
    BY <1>0, <1>1
  <2>2. v <= Len(q) /\ v <= Len(f) /\ \A k \in 1 .. v : q[k] = f[k]
    BY <1>0, <1>1, <2>1
  <2>3. v \in 0 .. v
    BY <2>1
  <2>4. \A k \in 0 .. v : s[k] = c[k]
    BY <1>1, <2>2, SameBytes
  <2> QED
    BY <2>1, <2>3, <2>4
<1> HIDE DEF f, p, s, c
<1>5. 0 \in T
  <2>1. f[p] = b /\ p + 0 = p /\ p \in 1 .. Len(q) + 1
    BY <1>0, <1>1
  <2> QED
    BY <1>3, <1>4, <2>1
<1>6. ASSUME NEW d \in T PROVE d + 1 \in T
  <2> SUFFICES ASSUME p + (d + 1) <= Len(q) + 1
               PROVE  c[p + (d + 1)] = s[(p + (d + 1)) - 1] + b.bytes
    OBVIOUS
  <2>1. PICK k \in 1 .. Len(q) : k = p + d
    BY <1>0, <1>1
  <2>0. d \in Nat /\ p \in Nat /\ k \in Nat
    <3>1. d \in Nat
      BY DEF T
    <3> HIDE DEF T
    <3> QED
      BY <1>0, <1>1, <3>1
  <2>2. /\ p + (d + 1) = k + 1 /\ (p + (d + 1)) - 1 = k /\ k + 1 \in 1 .. Len(q) + 1
        /\ (k + 1) - 1 = k /\ k - 1 \in 0 .. Len(q) /\ k \in 0 .. Len(q) /\ k + 1 > p
    <3> HIDE DEF T
    <3> QED
      BY <1>0, <2>0, <2>1
  <2>3. c[k] = s[k - 1] + b.bytes
    BY <1>0, <2>1
  <2>4. f[k + 1] = q[k]
    <3>1. ~(k + 1 < p) /\ k + 1 # p
      BY <2>0, <2>2
    <3> QED
      BY <1>1, <2>2, <3>1
  <2>5. c[k + 1] = c[k] + q[k].bytes /\ s[k] = s[k - 1] + q[k].bytes
    BY <1>2, <1>3, <2>2, <2>4
  <2>6. s[k - 1] \in Nat /\ s[k] \in Nat /\ q[k].bytes \in Nat
    BY <1>0, <1>2, <2>2
  <2> HIDE DEF T
  <2> QED
    BY <1>0, <2>2, <2>3, <2>5, <2>6
<1>7. T = Nat
  <2>1. T \in SUBSET Nat
    OBVIOUS
  <2> HIDE DEF T
  <2> QED
    BY <1>5, <1>6, <2>1, InductionOnNat
<1>8. ASSUME NEW k \in p .. Len(q) + 1 PROVE c[k] = s[k - 1] + b.bytes
  <2>1. PICK d \in Nat : k = p + d
    <3>1. k - p \in Nat /\ p + (k - p) = k
      BY <1>0, <1>1
    <3> QED
      BY <3>1
  <2>2. p + d <= Len(q) + 1
    BY <1>0, <2>1
  <2>3. d \in T
    BY <1>7
  <2> QED
    BY <2>1, <2>2, <2>3
<1> QED
  BY <1>8 DEF f, p, s, c

LEMMA BytesNeverFall ==
    ASSUME NEW q \in Seq(Bundles), NEW j \in 0 .. Len(q)
    PROVE  BytesUpTo(q)[j] \in Nat /\ Bytes(q) \in Nat /\ BytesUpTo(q)[j] <= Bytes(q)
<1>0. Len(q) \in Nat /\ \A k \in 1 .. Len(q) : q[k].bytes \in Nat
  <2>1. Len(q) \in Nat /\ \A k \in 1 .. Len(q) : q[k] \in Bundles
    BY LenProperties, ElementOfSeq
  <2> QED
    BY <2>1 DEF Bundles
<1> DEFINE s == BytesUpTo(q)
<1>1. /\ s \in [0 .. Len(q) -> Nat]
      /\ \A k \in 1 .. Len(q) : s[k] = s[k - 1] + q[k].bytes
  BY BytesAre
<1> HIDE DEF s
<1>2. ASSUME NEW k \in 1 .. Len(q) PROVE s[k - 1] <= s[k]
  <2>1. s[k - 1] \in Nat /\ q[k].bytes \in Nat
    BY <1>0, <1>1, SMTT(30)
  <2> QED
    BY <1>1, <2>1
<1>3. s[j] <= s[Len(q)] /\ s[j] \in Nat /\ s[Len(q)] \in Nat
  <2>1. Len(q) \in j .. Len(q) /\ Len(q) \in 0 .. Len(q)
    BY <1>0
  <2>2. \A k \in j .. Len(q) : s[j] <= s[k]
    BY <1>0, <1>1, <1>2, NeverFalls
  <2> QED
    BY <1>1, <2>1, <2>2
<1> QED
  BY <1>3 DEF s, Bytes

(* What counts as complete has as many bytes as it declares. *)
LEMMA CompleteBytes ==
    ASSUME NEW q \in Seq(Bundles), NEW b \in Bundles, Complete(q, b)
    PROVE  Bytes(Insert(q, b)) >= b.total
<1> DEFINE p == Place(q, b)
<1> DEFINE f == Insert(q, b)
<1>1. PICK v \in Nat : v = IF p <= Len(q) THEN p ELSE Len(q)
  BY PlaceIs, LenProperties
<1>2. /\ Len(q) \in Nat /\ p \in 1 .. Len(q) + 1 /\ v \in 0 .. Len(q)
      /\ v + 1 \in p .. Len(q) + 1 /\ (v + 1) - 1 = v
  <2>1. Len(q) \in Nat /\ p \in 1 .. Len(q) + 1
    BY PlaceIs, LenProperties
  <2> HIDE DEF p
  <2> QED
    BY <2>1, <1>1
<1>3. PICK r \in Seq(Bundles) : r = Counted(q, b) /\ Len(r) = v /\ \A k \in 1 .. v : r[k] = q[k]
  <2>1. \A k \in 1 .. v : q[k] \in Bundles
    BY <1>2, ElementOfSeq
  <2>2. /\ SubSeq(q, 1, v) \in Seq(Bundles) /\ Len(SubSeq(q, 1, v)) = v
        /\ \A k \in 1 .. v : SubSeq(q, 1, v)[k] = q[k]
    BY <1>2, <2>1, SubSeqProperties
  <2>3. Counted(q, b) = SubSeq(q, 1, v)
    BY <1>1 DEF Counted
  <2> QED
    BY <2>2, <2>3
<1>4. Bytes(r) = BytesUpTo(q)[v]
  <2>1. \A k \in 0 .. v : BytesUpTo(r)[k] = BytesUpTo(q)[k]
    BY <1>2, <1>3, SameBytes
  <2>2. v \in 0 .. v
    BY <1>2
  <2> QED
    BY <1>3, <2>1, <2>2 DEF Bytes
<1>5. BytesUpTo(f)[v + 1] = BytesUpTo(q)[v] + b.bytes
  BY <1>2, InsertBytes
<1>6. f \in Seq(Bundles) /\ v + 1 \in 0 .. Len(f)
  BY <1>2, InsertIs
<1>7. BytesUpTo(f)[v + 1] \in Nat /\ Bytes(f) \in Nat /\ BytesUpTo(f)[v + 1] <= Bytes(f)
  BY <1>6, BytesNeverFall
<1>8. BytesUpTo(f)[v + 1] >= b.total /\ b.total \in Nat
  BY <1>3, <1>4, <1>5 DEF Complete, Bundles
<1> HIDE DEF f
<1> QED
  BY <1>7, <1>8 DEF f

(* Fragments in the order of their bytes, none of them after the end of    *)
(* the datagram, that have as many bytes as it are the datagram.           *)
LEMMA EnoughIsAll ==
    ASSUME NEW f \in Seq(Bundles), f # <<>>, NEW size \in Nat, Bytes(f) >= size,
           \A j, k \in 1 .. Len(f) : j < k => f[j].from + f[j].bytes <= f[k].from,
           \A k \in 1 .. Len(f) : f[k].from + f[k].bytes <= size
    PROVE  Contiguous(f) /\ Bytes(f) = size
<1> DEFINE n == Len(f)
<1> DEFINE s == BytesUpTo(f)
<1>0. /\ n \in Nat \ {0}
      /\ \A k \in 1 .. n : f[k].from \in Nat /\ f[k].bytes \in Nat
  <2>1. n \in Nat /\ n # 0 /\ \A k \in 1 .. n : f[k] \in Bundles
    BY LenProperties, ElementOfSeq, EmptySeq
  <2> QED
    BY <2>1 DEF Bundles
<1>1. /\ s \in [0 .. n -> Nat] /\ s[0] = 0 /\ s[n] >= size
      /\ \A k \in 1 .. n : s[k] = s[k - 1] + f[k].bytes
  BY BytesAre DEF Bytes
<1>2. /\ \A k \in 1 .. n - 1 : f[k].from + f[k].bytes <= f[k + 1].from
      /\ f[n].from + f[n].bytes <= size
  <2>1. \A k \in 1 .. n - 1 : k \in 1 .. n /\ k + 1 \in 1 .. n /\ k < k + 1
    BY <1>0
  <2>2. n \in 1 .. n
    BY <1>0
  <2> QED
    BY <2>1, <2>2
<1> HIDE DEF s, n
<1>3. \A k \in 1 .. n : s[k - 1] <= f[k].from
  <2> DEFINE T == {k \in Nat : k + 1 <= n => s[k] <= f[k + 1].from}
  <2>1. 0 \in T
    <3>1. 1 \in 1 .. n /\ 0 + 1 = 1
      BY <1>0
    <3>2. s[0] <= f[1].from
      BY <3>1, <1>0, <1>1
    <3> QED
      BY <3>1, <3>2
  <2>2. ASSUME NEW k \in T PROVE k + 1 \in T
    <3> SUFFICES ASSUME (k + 1) + 1 <= n PROVE s[k + 1] <= f[(k + 1) + 1].from
      OBVIOUS
    <3>1. /\ k \in Nat /\ s[k] <= f[k + 1].from /\ k + 1 \in 1 .. n /\ k + 1 \in 1 .. n - 1
          /\ (k + 1) - 1 = k /\ (k + 1) + 1 \in 1 .. n /\ k \in 0 .. n /\ k + 1 \in 0 .. n
      BY <1>0
    <3>2. s[k + 1] = s[k] + f[k + 1].bytes /\ f[k + 1].from + f[k + 1].bytes <= f[(k + 1) + 1].from
      BY <1>1, <1>2, <3>1
    <3>3. /\ s[k] \in Nat /\ s[k + 1] \in Nat
          /\ f[k + 1].from \in Nat /\ f[k + 1].bytes \in Nat /\ f[(k + 1) + 1].from \in Nat
      BY <1>0, <1>1, <3>1
    <3> HIDE DEF T
    <3> QED
      BY <3>1, <3>2, <3>3, SMTT(30)
  <2>3. T = Nat
    <3>1. T \in SUBSET Nat
      OBVIOUS
    <3> HIDE DEF T
    <3> QED
      BY <2>1, <2>2, <3>1, InductionOnNat
  <2> SUFFICES ASSUME NEW k \in 1 .. n PROVE s[k - 1] <= f[k].from
    OBVIOUS
  <2>4. k - 1 \in Nat /\ (k - 1) + 1 = k /\ (k - 1) + 1 <= n
    BY <1>0
  <2>5. k - 1 \in T
    BY <2>3, <2>4
  <2> QED
    BY <2>4, <2>5
<1>4. \A k \in 1 .. n : f[k].from <= s[k - 1]
  <2> DEFINE T == {d \in Nat : n - d >= 1 => f[n - d].from <= s[(n - d) - 1]}
  <2>1. 0 \in T
    <3>1. n \in 1 .. n /\ n - 1 \in 0 .. n /\ n \in 0 .. n /\ n - 0 = n
      BY <1>0
    <3>2. s[n] = s[n - 1] + f[n].bytes /\ s[n - 1] \in Nat /\ s[n] \in Nat
      BY <1>1, <3>1
    <3>3. f[n].from \in Nat /\ f[n].bytes \in Nat
      BY <1>0, <3>1
    <3>4. f[n].from <= s[n - 1]
      BY <1>1, <1>2, <3>2, <3>3
    <3> QED
      BY <3>1, <3>4
  <2>2. ASSUME NEW d \in T PROVE d + 1 \in T
    <3> SUFFICES ASSUME n - (d + 1) >= 1
                 PROVE  f[n - (d + 1)].from <= s[(n - (d + 1)) - 1]
      OBVIOUS
    <3>1. PICK k \in 1 .. n - 1 : k = n - (d + 1)
      <4>1. d \in Nat
        OBVIOUS
      <4> HIDE DEF T
      <4> QED
        BY <1>0, <4>1
    <3>2. /\ d \in Nat /\ n - d = k + 1 /\ (k + 1) - 1 = k /\ n - d >= 1
          /\ k \in 1 .. n /\ k + 1 \in 1 .. n /\ k \in 0 .. n /\ k - 1 \in 0 .. n
      <4>1. d \in Nat
        OBVIOUS
      <4> HIDE DEF T
      <4> QED
        BY <1>0, <3>1, <4>1
    <3>3. f[k + 1].from <= s[k]
      <4>1. f[n - d].from <= s[(n - d) - 1]
        BY <3>2
      <4> HIDE DEF T
      <4> QED
        BY <4>1, <3>2
    <3>4. s[k] = s[k - 1] + f[k].bytes /\ f[k].from + f[k].bytes <= f[k + 1].from
      BY <1>1, <1>2, <3>1, <3>2
    <3>5. /\ s[k] \in Nat /\ s[k - 1] \in Nat
          /\ f[k].from \in Nat /\ f[k].bytes \in Nat /\ f[k + 1].from \in Nat
      BY <1>0, <1>1, <3>2
    <3> HIDE DEF T
    <3>6. f[k].from <= s[k - 1]
      <4>1. \A a, b, c, x, y \in Nat : (a <= b /\ b = c + x /\ y + x <= a) => y <= c
        OBVIOUS
      <4> QED
        <5>1. (f[k + 1].from <= s[k] /\ s[k] = s[k - 1] + f[k].bytes
               /\ f[k].from + f[k].bytes <= f[k + 1].from) => f[k].from <= s[k - 1]
          BY ONLY <4>1, <3>5, Zenon
        <5> QED
          BY ONLY <5>1, <3>3, <3>4, Zenon
    <3> QED
      BY <3>1, <3>6
  <2>3. T = Nat
    <3>1. T \in SUBSET Nat
      OBVIOUS
    <3> HIDE DEF T
    <3> QED
      BY <2>1, <2>2, <3>1, InductionOnNat
  <2> SUFFICES ASSUME NEW k \in 1 .. n PROVE f[k].from <= s[k - 1]
    OBVIOUS
  <2>4. n - k \in Nat /\ n - (n - k) = k /\ n - (n - k) >= 1
    BY <1>0
  <2>5. n - k \in T
    BY <2>3, <2>4
  <2> QED
    BY <2>4, <2>5
<1>5. \A k \in 1 .. n : f[k].from = s[k - 1]
  <2> SUFFICES ASSUME NEW k \in 1 .. n PROVE f[k].from = s[k - 1]
    OBVIOUS
  <2>1. f[k].from \in Nat /\ s[k - 1] \in Nat
    BY <1>0, <1>1
  <2> QED
    BY <2>1, <1>3, <1>4
<1>6. Contiguous(f)
  <2>1. f[1].from = 0
    <3>1. 1 \in 1 .. n /\ 1 - 1 = 0
      BY <1>0
    <3> QED
      BY <3>1, <1>1, <1>5
  <2>2. ASSUME NEW k \in 2 .. n PROVE f[k].from = f[k - 1].from + f[k - 1].bytes
    <3>1. k \in 1 .. n /\ k - 1 \in 1 .. n
      BY <1>0
    <3>2. f[k].from = s[k - 1] /\ f[k - 1].from = s[(k - 1) - 1]
      BY <3>1, <1>5
    <3>3. s[k - 1] = s[(k - 1) - 1] + f[k - 1].bytes
      BY <3>1, <1>1
    <3> QED
      BY <3>2, <3>3
  <2> QED
    BY <2>1, <2>2 DEF Contiguous, n
<1>7. Bytes(f) = size
  <2>1. n \in 1 .. n /\ n - 1 \in 0 .. n /\ n \in 0 .. n
    BY <1>0
  <2>2. s[n] = f[n].from + f[n].bytes /\ s[n] \in Nat
    BY <2>1, <1>1, <1>5
  <2>3. s[n] = size
    BY <2>2, <1>0, <1>1, <1>2, <2>1
  <2> QED
    BY <2>3 DEF Bytes, s, n
<1> QED
  BY <1>6, <1>7

Multiple(n) == \E i \in Nat : n = i * Chunk

(* So many fragments of at most a chunk have at most so many chunks. *)
LEMMA ChunksAtMost ==
    ASSUME NEW f \in Seq(Bundles), \A k \in 1 .. Len(f) : f[k].bytes <= Chunk
    PROVE  Bytes(f) <= Len(f) * Chunk
<1> DEFINE n == Len(f)
<1> DEFINE s == BytesUpTo(f)
<1> DEFINE T == {k \in Nat : k <= n => s[k] <= k * Chunk}
<1>0. n \in Nat /\ Chunk \in Nat /\ \A k \in 1 .. n : f[k].bytes \in Nat
  <2>1. n \in Nat /\ \A k \in 1 .. n : f[k] \in Bundles
    BY LenProperties, ElementOfSeq
  <2> QED
    BY <2>1, TunnelAssumption DEF Bundles
<1>1. /\ s \in [0 .. n -> Nat] /\ s[0] = 0
      /\ \A k \in 1 .. n : s[k] = s[k - 1] + f[k].bytes
  BY BytesAre
<1>9. \A k \in 1 .. n : f[k].bytes <= Chunk
  OBVIOUS
<1> HIDE DEF s, n
<1>2. 0 \in T
  BY <1>0, <1>1
<1>3. ASSUME NEW k \in T PROVE k + 1 \in T
  <2> SUFFICES ASSUME k + 1 <= n PROVE s[k + 1] <= (k + 1) * Chunk
    OBVIOUS
  <2>1. k \in Nat /\ k + 1 \in 1 .. n /\ k \in 0 .. n /\ (k + 1) - 1 = k /\ s[k] <= k * Chunk
    BY <1>0
  <2>2. s[k + 1] = s[k] + f[k + 1].bytes /\ f[k + 1].bytes <= Chunk
    BY <1>1, <1>9, <2>1
  <2>3. (k + 1) * Chunk = k * Chunk + Chunk /\ k * Chunk \in Nat
    BY <1>0, <2>1
  <2>4. s[k] \in Nat /\ f[k + 1].bytes \in Nat
    BY <1>0, <1>1, <2>1
  <2> HIDE DEF T
  <2> QED
    BY <1>0, <2>1, <2>2, <2>3, <2>4, SMTT(30)
<1>4. T = Nat
  <2>1. T \in SUBSET Nat
    OBVIOUS
  <2> HIDE DEF T
  <2> QED
    BY <1>2, <1>3, <2>1, InductionOnNat
<1>5. s[n] <= n * Chunk
  BY <1>0, <1>4
<1> QED
  BY <1>5 DEF s, n, Bytes

(* The number of the chunk that a fragment begins with. *)
ChunkOf(b) == CHOOSE i \in Nat : b.from = i * Chunk
ChunksOf(f) == {ChunkOf(f[k]) : k \in 1 .. Len(f)}

LEMMA ChunkOfIs ==
    ASSUME NEW b \in Bundles, Multiple(b.from)
    PROVE  ChunkOf(b) \in Nat /\ b.from = ChunkOf(b) * Chunk
  BY DEF ChunkOf, Multiple

LEMMA ChunksAreCounted ==
    ASSUME NEW f \in Seq(Bundles),
           \A k \in 1 .. Len(f) : Multiple(f[k].from),
           \A j, k \in 1 .. Len(f) : j < k => f[j].from < f[k].from
    PROVE  /\ ChunksOf(f) \in SUBSET Nat
           /\ IsFiniteSet(ChunksOf(f)) /\ Cardinality(ChunksOf(f)) = Len(f)
<1> DEFINE n == Len(f)
<1> DEFINE g == [k \in 1 .. n |-> ChunkOf(f[k])]
<1>0. n \in Nat /\ \A k \in 1 .. n : f[k] \in Bundles /\ f[k].from \in Nat
  <2>1. n \in Nat /\ \A k \in 1 .. n : f[k] \in Bundles
    BY LenProperties, ElementOfSeq
  <2> QED
    BY <2>1 DEF Bundles
<1>1. \A k \in 1 .. n : g[k] \in Nat /\ f[k].from = g[k] * Chunk
  BY <1>0, ChunkOfIs
<1>2. \A j, k \in 1 .. n : g[j] = g[k] => j = k
  <2> SUFFICES ASSUME NEW j \in 1 .. n, NEW k \in 1 .. n, g[j] = g[k] PROVE j = k
    OBVIOUS
  <2>1. f[j].from = f[k].from /\ f[j].from \in Nat /\ f[k].from \in Nat
    BY <1>0, <1>1
  <2>2. ~(j < k) /\ ~(k < j)
    BY <2>1
  <2> QED
    BY <1>0, <2>2
<1>3. g \in Bijection(1 .. n, ChunksOf(f))
  <2>1. g \in [1 .. n -> ChunksOf(f)]
    BY DEF ChunksOf
  <2>2. \A x \in ChunksOf(f) : \E k \in 1 .. n : g[k] = x
    BY DEF ChunksOf
  <2> HIDE DEF g
  <2> QED
    BY <1>2, <2>1, <2>2 DEF Bijection, Injection, Surjection, IsInjective
<1>4. IsFiniteSet(ChunksOf(f)) /\ Cardinality(ChunksOf(f)) = n
  <2>1. ExistsBijection(1 .. n, ChunksOf(f))
    BY <1>3 DEF ExistsBijection
  <2>2. IsFiniteSet(1 .. n)
    BY <1>0, FS_Interval
  <2> QED
    BY <1>0, <2>1, <2>2, FS_CountingElements, FS_Bijection
<1> QED
  BY <1>1, <1>4 DEF ChunksOf

(* Two sequences of fragments with nothing in common cannot both have as   *)
(* many bytes as the datagram, if there is more than one of them: only one *)
(* more chunk is made of it than it needs.                                 *)
LEMMA NotTwice ==
    ASSUME NEW size \in Nat, size >= 1,
           NEW f \in Seq(Bundles), NEW g \in Seq(Bundles),
           Bytes(f) >= size, Bytes(g) >= size, Len(f) >= 2,
           \A h \in {f, g} : \A k \in 1 .. Len(h) :
               /\ h[k].bytes <= Chunk
               /\ Multiple(h[k].from) /\ h[k].from < size + Chunk,
           \A h \in {f, g} : \A j, k \in 1 .. Len(h) : j < k => h[j].from < h[k].from
    PROVE  \E j \in 1 .. Len(f), k \in 1 .. Len(g) : f[j].from = g[k].from
<1> DEFINE F == ChunksOf(f)
<1> DEFINE G == ChunksOf(g)
<1> SUFFICES ASSUME \A j \in 1 .. Len(f), k \in 1 .. Len(g) : f[j].from # g[k].from
             PROVE  FALSE
  OBVIOUS
<1>0. Chunk \in Nat \ {0}
  BY TunnelAssumption
<1>1. PICK n \in Nat : n = Len(f)
  BY LenProperties
<1>2. PICK m \in Nat : m = Len(g)
  BY LenProperties
<1>3. n * Chunk >= size /\ m * Chunk >= size
  <2>1. Bytes(f) <= n * Chunk /\ Bytes(g) <= m * Chunk
    BY <1>1, <1>2, ChunksAtMost
  <2>2. Bytes(f) \in Nat /\ Bytes(g) \in Nat /\ n * Chunk \in Nat /\ m * Chunk \in Nat
    <3>1. 0 \in 0 .. Len(f) /\ 0 \in 0 .. Len(g)
      BY <1>1, <1>2
    <3> QED
      BY <3>1, <1>0, BytesNeverFall
  <2> QED
    BY <2>1, <2>2
<1>4. n >= 1 /\ m >= 1
  BY <1>0, <1>3
<1>5. /\ F \in SUBSET Nat /\ IsFiniteSet(F) /\ Cardinality(F) = n
      /\ G \in SUBSET Nat /\ IsFiniteSet(G) /\ Cardinality(G) = m
  BY <1>1, <1>2, ChunksAreCounted
<1>6. ASSUME NEW h \in {f, g}, NEW x \in ChunksOf(h)
      PROVE  \E k \in 1 .. Len(h) : x \in Nat /\ h[k].from = x * Chunk
  <2>1. PICK k \in 1 .. Len(h) : x = ChunkOf(h[k])
    BY DEF ChunksOf
  <2>2. h[k] \in Bundles /\ Multiple(h[k].from)
    BY ElementOfSeq
  <2> QED
    BY <2>1, <2>2, ChunkOfIs
<1>7. F \cap G = {}
  <2> SUFFICES ASSUME NEW x \in F, x \in G PROVE FALSE
    OBVIOUS
  <2>1. PICK j \in 1 .. Len(f) : f[j].from = x * Chunk
    BY <1>6
  <2>2. PICK k \in 1 .. Len(g) : g[k].from = x * Chunk
    BY <1>6
  <2> QED
    BY <2>1, <2>2
<1>8. ASSUME NEW h \in {f, g}, NEW x \in ChunksOf(h)
      PROVE  x \in Nat /\ x <= n /\ x <= m
  <2>1. PICK k \in 1 .. Len(h) : x \in Nat /\ h[k].from = x * Chunk
    BY <1>6
  <2>2. x * Chunk < size + Chunk
    BY <2>1
  <2>3. x * Chunk \in Nat /\ n * Chunk \in Nat /\ m * Chunk \in Nat
    BY <1>0, <2>1
  <2>4. x * Chunk < n * Chunk + Chunk /\ x * Chunk < m * Chunk + Chunk
    BY <1>0, <1>3, <2>2, <2>3
  <2>5. ASSUME NEW c \in Nat, x > c PROVE x * Chunk >= c * Chunk + Chunk
    <3>1. PICK e \in Nat : x = (c + 1) + e
      <4>1. x - (c + 1) \in Nat /\ x = (c + 1) + (x - (c + 1))
        BY <2>1, <2>5
      <4> QED
        BY <4>1
    <3>2. x * Chunk = c * Chunk + Chunk + e * Chunk
      BY <3>1, <1>0
    <3>3. e * Chunk \in Nat /\ c * Chunk \in Nat
      BY <1>0
    <3> QED
      BY <3>2, <3>3, <1>0
  <2>6. ~(x > n) /\ ~(x > m)
    <3>1. x > n => x * Chunk >= n * Chunk + Chunk
      BY <2>5
    <3>2. x > m => x * Chunk >= m * Chunk + Chunk
      BY <2>5
    <3> QED
      BY <3>1, <3>2, <2>3, <2>4, <1>0
  <2> QED
    BY <2>1, <2>6
<1>9. PICK k \in Nat : k <= n /\ k <= m /\ (k = n \/ k = m)
  <2>1. (n <= m \/ m <= n) /\ n <= n /\ m <= m
    OBVIOUS
  <2> QED
    BY <2>1, Zenon
<1>10. F \cup G \subseteq 0 .. k
  <2>1. \A x \in F \cup G : x \in Nat /\ x <= n /\ x <= m
    BY <1>8
  <2> QED
    BY <2>1, <1>9
<1>11. n + m <= k + 1
  <2>1. Cardinality(F \cup G) = n + m
    <3>1. F \cap G = {} /\ Cardinality({}) = 0
      BY <1>7, FS_EmptySet
    <3>2. Cardinality(F \cup G) = Cardinality(F) + Cardinality(G) - Cardinality(F \cap G)
      BY <1>5, FS_Union
    <3>3. Cardinality(F \cap G) = 0
      BY <3>1
    <3> HIDE DEF F, G
    <3>4. Cardinality(F \cup G) = (n + m) - 0
      BY <3>2, <3>3, <1>5
    <3> QED
      BY <3>4
  <2>2. IsFiniteSet(0 .. k) /\ Cardinality(0 .. k) = k + 1
    <3>1. 0 \in Int /\ k \in Int /\ ~(0 > k)
      OBVIOUS
    <3>2. IsFiniteSet(0 .. k) /\ Cardinality(0 .. k) = (k - 0) + 1
      BY <3>1, FS_Interval
    <3> QED
      BY <3>2
  <2>3. Cardinality(F \cup G) <= Cardinality(0 .. k)
    BY <1>10, <2>2, FS_Subset
  <2> QED
    BY <2>1, <2>2, <2>3
<1>12. n = 1 /\ m = 1
  BY <1>4, <1>9, <1>11
<1> QED
  BY <1>1, <1>12
-----------------------------------------------------------------------------
(* Types.                                                                  *)

Tasks == [at : {"idle", "load", "store", "stamp", "whole", "chunk", "last", "send"},
          datagram : Datagrams \cup {None}, loaded : Nat,
          next : {"idle", "stamp", "loop", "last"}, stamp : 0 .. MaxTime,
          ptr : Nat, open : Nat, out : Seq(Bundles)]

(* A worker has a datagram unless it is idle, when it counts up the        *)
(* sequence number it knows what to do next, and it has bundles to send.   *)
Taken(t) ==
    /\ t.at = "idle" => t = Idle
    /\ t.at # "idle" => t.datagram \in Datagrams
    /\ t.at \in {"load", "store"} => t.next # "idle"
    /\ t.at = "send" => t.out # <<>>

TypeOK ==
    /\ sequence \in Nat /\ now \in 0 .. MaxTime
    /\ length \in [Datagrams -> Nat]
    /\ task \in [Workers -> Tasks] /\ \A w \in Workers : Taken(task[w])
    /\ DOMAIN network \in SUBSET Bundles
    /\ overlapped \in SUBSET Datagrams
    /\ keys \in [Datagrams -> SUBSET (0 .. MaxTime)]
    /\ seen \in SUBSET ((0 .. MaxTime) \X Nat)
    /\ entries \in [0 .. MaxTime -> Seq(Bundles)]
    /\ forwarded \in Seq(Seq(Bundles))

LEMMA Tick0 ==
    /\ 0 \in 0 .. MaxTime /\ MaxTime \in Nat /\ Chunk \in Nat /\ Chunk # 0
    /\ Least \in Nat /\ Least >= 1 /\ Least <= Chunk
  BY TunnelAssumption

LEMMA IdleIs ==
    /\ Idle \in Tasks /\ Taken(Idle)
    /\ Idle.at = "idle" /\ Idle.datagram = None /\ Idle.out = <<>> /\ None \notin Datagrams
    /\ Idle.loaded = 0 /\ Idle.stamp = 0 /\ Idle.ptr = 0
<1>1. <<>> \in Seq(Bundles)
  BY EmptySeq
<1> QED
  BY <1>1, Tick0, TunnelAssumption DEF Idle, Tasks, Taken

LEMMA InitType == Init => TypeOK
<1> SUFFICES ASSUME Init PROVE TypeOK
  OBVIOUS
<1> USE DEF Init, SenderInit
<1>1. task \in [Workers -> Tasks] /\ \A w \in Workers : Taken(task[w])
  BY IdleIs
<1>2. DOMAIN network = {}
  BY DEF EmptyBag, SetToBag
<1>3. entries \in [0 .. MaxTime -> Seq(Bundles)] /\ forwarded \in Seq(Seq(Bundles))
  BY EmptySeq
<1> QED
  BY <1>1, <1>2, <1>3, Tick0 DEF TypeOK

-----------------------------------------------------------------------------
(* What each step of a worker does to its task.                            *)

Others(w) == \A v \in Workers \ {w} : task'[v] = task[v]

LEMMA BeginTask ==
    ASSUME TypeOK, NEW w \in Workers, NEW d \in Datagrams, NEW size \in Sizes, Begin(w, d, size)
    PROVE  /\ task' \in [Workers -> Tasks] /\ Others(w) /\ Taken(task'[w])
           /\ task[w] = Idle
           /\ task'[w].at = "load" /\ task'[w].next = "stamp" /\ task'[w].datagram = d
           /\ task'[w].loaded = 0 /\ task'[w].stamp = 0 /\ task'[w].ptr = 0
           /\ task'[w].open = size /\ task'[w].out = <<>>
<1>1. size \in Nat /\ <<>> \in Seq(Bundles) /\ task \in [Workers -> Tasks]
  BY TunnelAssumption, EmptySeq DEF TypeOK
<1> DEFINE t == [Idle EXCEPT !.at = "load", !.next = "stamp", !.datagram = d, !.open = size]
<1>2. /\ t.at = "load" /\ t.next = "stamp" /\ t.datagram = d /\ t.open = size
      /\ t.loaded = 0 /\ t.stamp = 0 /\ t.ptr = 0 /\ t.out = <<>>
  BY IdleIs DEF Tasks
<1>3. t \in Tasks
  BY <1>1, IdleIs DEF Tasks
<1>4. task' = [task EXCEPT ![w] = t] /\ task[w] = Idle
  BY DEF Begin
<1> HIDE DEF t
<1>5. task' \in [Workers -> Tasks] /\ Others(w) /\ task'[w] = t
  BY <1>1, <1>3, <1>4 DEF Others
<1> QED
  BY <1>2, <1>4, <1>5 DEF Taken

LEMMA LoadTask ==
    ASSUME TypeOK, NEW w \in Workers, Load(w)
    PROVE  /\ task' \in [Workers -> Tasks] /\ Others(w) /\ Taken(task'[w])
           /\ task[w].at = "load"
           /\ task'[w].at = "store" /\ task'[w].next = task[w].next
           /\ task'[w].datagram = task[w].datagram
           /\ task'[w].loaded = sequence /\ task'[w].stamp = task[w].stamp
           /\ task'[w].ptr = task[w].ptr /\ task'[w].open = task[w].open
           /\ task'[w].out = task[w].out
<1>1. task \in [Workers -> Tasks] /\ task[w] \in Tasks /\ sequence \in Nat /\ Taken(task[w])
  BY DEF TypeOK
<1> DEFINE t == [task[w] EXCEPT !.loaded = sequence, !.at = "store"]
<1>2. t \in Tasks
  BY <1>1 DEF Tasks
<1>3. task' = [task EXCEPT ![w] = t] /\ task[w].at = "load"
  BY <1>1 DEF Load
<1>4. /\ t.at = "store" /\ t.next = task[w].next /\ t.datagram = task[w].datagram
      /\ t.loaded = sequence /\ t.stamp = task[w].stamp
      /\ t.ptr = task[w].ptr /\ t.open = task[w].open /\ t.out = task[w].out
  BY <1>1 DEF Tasks
<1> HIDE DEF t
<1>5. task' \in [Workers -> Tasks] /\ Others(w) /\ task'[w] = t
  BY <1>1, <1>2, <1>3 DEF Others
<1> QED
  BY <1>1, <1>3, <1>4, <1>5 DEF Taken

(* Where a worker with so much left goes from the head of the loop. *)
Goes(t, u, m) ==
    \/ m # Chunk /\ u.at = "chunk" /\ u.next = t.next
    \/ m = Chunk /\ u.at = "load" /\ u.next = "last"

LEMMA LoopIs ==
    ASSUME NEW t \in Tasks
    PROVE  /\ Loop(t) \in Tasks /\ Goes(t, Loop(t), t.open)
           /\ Loop(t).datagram = t.datagram /\ Loop(t).loaded = t.loaded
           /\ Loop(t).stamp = t.stamp /\ Loop(t).ptr = t.ptr
           /\ Loop(t).open = t.open /\ Loop(t).out = t.out
<1>1. CASE MoreChunks(t.open)
  <2>1. Loop(t) = [t EXCEPT !.at = "chunk"]
    BY <1>1 DEF Loop
  <2> QED
    BY <1>1, <2>1 DEF Tasks, Goes, MoreChunks
<1>2. CASE ~MoreChunks(t.open)
  <2>1. Loop(t) = [t EXCEPT !.at = "load", !.next = "last"]
    BY <1>2 DEF Loop
  <2> QED
    BY <1>2, <2>1 DEF Tasks, Goes, MoreChunks
<1> QED
  BY <1>1, <1>2

LEMMA StoreTask ==
    ASSUME TypeOK, NEW w \in Workers, Store(w)
    PROVE  /\ task' \in [Workers -> Tasks] /\ Others(w) /\ Taken(task'[w])
           /\ task[w].at = "store" /\ sequence' = task[w].loaded + 1
           /\ \/ /\ task[w].next # "loop" /\ task'[w].at = task[w].next
                 /\ task'[w].next = task[w].next
              \/ task[w].next = "loop" /\ Goes(task[w], task'[w], task[w].open)
           /\ task'[w].datagram = task[w].datagram
           /\ task'[w].loaded = task[w].loaded /\ task'[w].stamp = task[w].stamp
           /\ task'[w].ptr = task[w].ptr /\ task'[w].open = task[w].open
           /\ task'[w].out = task[w].out
<1>1. task \in [Workers -> Tasks] /\ task[w] \in Tasks /\ Taken(task[w])
  BY DEF TypeOK
<1> DEFINE t == IF task[w].next = "loop" THEN Loop(task[w])
                ELSE [task[w] EXCEPT !.at = task[w].next]
<1>2. task' = [task EXCEPT ![w] = t] /\ task[w].at = "store" /\ sequence' = task[w].loaded + 1
  BY <1>1 DEF Store, NextNumber
<1>3. /\ t \in Tasks
      /\ \/ task[w].next # "loop" /\ t.at = task[w].next /\ t.next = task[w].next
         \/ task[w].next = "loop" /\ Goes(task[w], t, task[w].open)
      /\ t.datagram = task[w].datagram /\ t.loaded = task[w].loaded
      /\ t.stamp = task[w].stamp /\ t.ptr = task[w].ptr
      /\ t.open = task[w].open /\ t.out = task[w].out
  <2>1. CASE task[w].next = "loop"
    BY <1>1, <2>1, LoopIs
  <2>2. CASE task[w].next # "loop"
    <3>1. t = [task[w] EXCEPT !.at = task[w].next]
      BY <2>2
    <3>2. task[w].next \in {"stamp", "last"}
      BY <1>1, <1>2, <2>2 DEF Taken, Tasks
    <3> HIDE DEF t
    <3> QED
      BY <1>1, <2>2, <3>1, <3>2 DEF Tasks
  <2> QED
    BY <2>1, <2>2
<1> HIDE DEF t
<1>4. task' \in [Workers -> Tasks] /\ Others(w) /\ task'[w] = t
  BY <1>1, <1>2, <1>3 DEF Others
<1>5. Taken(t)
  <2>1. task[w].datagram \in Datagrams /\ task[w].next \in {"stamp", "loop", "last"}
    BY <1>1, <1>2 DEF Taken, Tasks
  <2>2. t.at \in {"stamp", "last", "chunk", "load"} /\ (t.at = "load" => t.next = "last")
    BY <1>3, <2>1 DEF Goes
  <2> QED
    BY <1>3, <2>1, <2>2 DEF Taken
<1> QED
  BY <1>2, <1>3, <1>4, <1>5

LEMMA StampTask ==
    ASSUME TypeOK, NEW w \in Workers, Stamp(w)
    PROVE  /\ task' \in [Workers -> Tasks] /\ Others(w) /\ Taken(task'[w])
           /\ task[w].at = "stamp" /\ task'[w].stamp = now
           /\ \/ task[w].open < Least /\ task'[w].at = "whole" /\ task'[w].next = task[w].next
              \/ ~(task[w].open < Least) /\ Goes(task[w], task'[w], task[w].open)
           /\ task'[w].datagram = task[w].datagram /\ task'[w].loaded = task[w].loaded
           /\ task'[w].ptr = task[w].ptr /\ task'[w].open = task[w].open
           /\ task'[w].out = task[w].out
<1>1. task \in [Workers -> Tasks] /\ task[w] \in Tasks /\ Taken(task[w]) /\ now \in 0 .. MaxTime
  BY DEF TypeOK
<1> DEFINE s == [task[w] EXCEPT !.stamp = now]
<1> DEFINE t == IF s.open < Least THEN [s EXCEPT !.at = "whole"] ELSE Loop(s)
<1>2. task' = [task EXCEPT ![w] = t] /\ task[w].at = "stamp"
  BY <1>1 DEF Stamp
<1>3. /\ s \in Tasks /\ s.at = task[w].at /\ s.next = task[w].next
      /\ s.datagram = task[w].datagram /\ s.loaded = task[w].loaded
      /\ s.stamp = now /\ s.ptr = task[w].ptr /\ s.open = task[w].open /\ s.out = task[w].out
  BY <1>1 DEF Tasks
<1> HIDE DEF s
<1>4. /\ t \in Tasks
      /\ \/ s.open < Least /\ t.at = "whole" /\ t.next = s.next
         \/ ~(s.open < Least) /\ Goes(s, t, s.open)
      /\ t.datagram = s.datagram /\ t.loaded = s.loaded
      /\ t.stamp = s.stamp /\ t.ptr = s.ptr /\ t.open = s.open /\ t.out = s.out
  <2>1. CASE s.open < Least
    <3>1. t = [s EXCEPT !.at = "whole"]
      BY <2>1
    <3> HIDE DEF t
    <3> QED
      BY <1>3, <2>1, <3>1 DEF Tasks
  <2>2. CASE ~(s.open < Least)
    BY <1>3, <2>2, LoopIs
  <2> QED
    BY <2>1, <2>2
<1> HIDE DEF t
<1>5. task' \in [Workers -> Tasks] /\ Others(w) /\ task'[w] = t
  BY <1>1, <1>2, <1>4 DEF Others
<1>6. Goes(s, t, s.open) => Goes(task[w], t, task[w].open)
  BY <1>3 DEF Goes
<1>7. Taken(t)
  <2>1. task[w].datagram \in Datagrams
    BY <1>1, <1>2 DEF Taken
  <2> QED
    BY <1>3, <1>4, <2>1 DEF Taken, Goes
<1> QED
  BY <1>2, <1>3, <1>4, <1>5, <1>6, <1>7
LEMMA BundleIs ==
    ASSUME TypeOK, NEW w \in Workers, task[w].at # "idle",
           NEW whole \in BOOLEAN, NEW bytes \in Nat
    PROVE  /\ Bundle(w, whole, bytes) \in Bundles
           /\ Bundle(w, whole, bytes).stamp = task[w].stamp
           /\ Bundle(w, whole, bytes).number = sequence
           /\ Bundle(w, whole, bytes).whole = whole
           /\ Bundle(w, whole, bytes).total = length[task[w].datagram]
           /\ Bundle(w, whole, bytes).datagram = task[w].datagram
           /\ Bundle(w, whole, bytes).from = task[w].ptr
           /\ Bundle(w, whole, bytes).bytes = bytes
<1>1. task[w] \in Tasks /\ task[w].datagram \in Datagrams /\ sequence \in Nat
  BY DEF TypeOK, Taken
<1>2. length[task[w].datagram] \in Nat
  BY <1>1 DEF TypeOK
<1> QED
  BY <1>1, <1>2 DEF Bundle, Bundles, Tasks

LEMMA MakeWholeTask ==
    ASSUME TypeOK, NEW w \in Workers, MakeWhole(w)
    PROVE  /\ task' \in [Workers -> Tasks] /\ Others(w) /\ Taken(task'[w])
           /\ task[w].at = "whole" /\ task'[w].at = "send" /\ task'[w].next = task[w].next
           /\ task'[w].datagram = task[w].datagram /\ task'[w].loaded = task[w].loaded
           /\ task'[w].stamp = task[w].stamp /\ task'[w].ptr = task[w].ptr
           /\ task'[w].open = task[w].open
           /\ task'[w].out = <<Bundle(w, TRUE, task[w].open)>>
<1>1. task \in [Workers -> Tasks] /\ task[w] \in Tasks /\ Taken(task[w])
  BY DEF TypeOK
<1> DEFINE b == Bundle(w, TRUE, task[w].open)
<1> DEFINE t == [task[w] EXCEPT !.out = <<b>>, !.at = "send"]
<1>2. task' = [task EXCEPT ![w] = t] /\ task[w].at = "whole"
  BY <1>1 DEF MakeWhole
<1>3. b \in Bundles /\ <<b>> \in Seq(Bundles)
  <2>1. task[w].open \in Nat
    BY <1>1 DEF Tasks
  <2>2. b \in Bundles
    BY <1>2, <2>1, BundleIs
  <2> HIDE DEF b
  <2> QED
    BY <2>2, EmptySeq, AppendProperties
<1> HIDE DEF b
<1>6. <<b>> # <<>>
  OBVIOUS
<1>4. /\ t \in Tasks
      /\ t.at = "send" /\ t.next = task[w].next /\ t.datagram = task[w].datagram
      /\ t.loaded = task[w].loaded /\ t.stamp = task[w].stamp /\ t.ptr = task[w].ptr
      /\ t.open = task[w].open /\ t.out = <<b>>
  BY <1>1, <1>3 DEF Tasks
<1> HIDE DEF t
<1>5. task' \in [Workers -> Tasks] /\ Others(w) /\ task'[w] = t
  BY <1>1, <1>2, <1>4 DEF Others
<1> QED
  BY <1>1, <1>2, <1>4, <1>5, <1>6 DEF Taken, b

LEMMA MakeChunkTask ==
    ASSUME TypeOK, NEW w \in Workers, MakeChunk(w)
    PROVE  /\ task' \in [Workers -> Tasks] /\ Others(w) /\ Taken(task'[w])
           /\ task[w].at = "chunk" /\ task'[w].at = "load"
           /\ \/ task[w].open < Chunk /\ task'[w].next = "last" /\ task'[w].open = task[w].open
              \/ /\ task[w].open >= Chunk /\ task'[w].next = "loop"
                 /\ task'[w].open = task[w].open - Chunk
           /\ task'[w].datagram = task[w].datagram /\ task'[w].loaded = task[w].loaded
           /\ task'[w].stamp = task[w].stamp /\ task'[w].ptr = task[w].ptr + Chunk
           /\ task'[w].out = Append(task[w].out, Bundle(w, FALSE, Chunk))
<1>1. task \in [Workers -> Tasks] /\ task[w] \in Tasks /\ Taken(task[w])
  BY DEF TypeOK
<1> DEFINE b == Bundle(w, FALSE, Chunk)
<1> DEFINE o == Append(task[w].out, b)
<1>0. task[w].at = "chunk"
  BY DEF MakeChunk
<1>2. o \in Seq(Bundles)
  <2>1. b \in Bundles
    BY <1>0, BundleIs, Tick0
  <2>2. task[w].out \in Seq(Bundles)
    BY <1>1 DEF Tasks
  <2> QED
    BY <2>1, <2>2, AppendProperties
<1>3. task[w].ptr + Chunk \in Nat /\ task[w].open \in Nat /\ task[w].ptr \in Nat /\ Chunk \in Nat
  BY <1>1, Tick0 DEF Tasks
<1>4. CASE Breaks(task[w].open)
  <2> DEFINE t == [task[w] EXCEPT !.out = o, !.ptr = @ + Chunk, !.at = "load", !.next = "last"]
  <2>1. task' = [task EXCEPT ![w] = t]
    BY <1>1, <1>4 DEF MakeChunk, AfterChunk
  <2>2. /\ t \in Tasks
        /\ t.at = "load" /\ t.next = "last" /\ t.datagram = task[w].datagram
        /\ t.loaded = task[w].loaded /\ t.stamp = task[w].stamp /\ t.ptr = task[w].ptr + Chunk
        /\ t.open = task[w].open /\ t.out = o
    BY <1>1, <1>2, <1>3 DEF Tasks
  <2> HIDE DEF t
  <2>3. task' \in [Workers -> Tasks] /\ Others(w) /\ task'[w] = t
    BY <1>1, <2>1, <2>2 DEF Others
  <2> QED
    BY <1>0, <1>1, <1>4, <2>2, <2>3 DEF Taken, Breaks
<1>5. CASE ~Breaks(task[w].open)
  <2> DEFINE t == [task[w] EXCEPT !.out = o, !.ptr = @ + Chunk, !.at = "load", !.next = "loop",
                                  !.open = @ - Chunk]
  <2>1. task' = [task EXCEPT ![w] = t]
    <3> DEFINE made == [task EXCEPT ![w].out = Append(@, b), ![w].ptr = AfterChunk(w),
                                    ![w].at = "load"]
    <3> DEFINE m == [task[w] EXCEPT !.out = o, !.ptr = @ + Chunk, !.at = "load"]
    <3>1. task' = [made EXCEPT ![w].next = "loop", ![w].open = @ - Chunk]
      BY <1>5 DEF MakeChunk
    <3>2. made = [task EXCEPT ![w] = m]
      BY <1>1 DEF AfterChunk
    <3>3. m \in [at : {"load"}, datagram : Datagrams \cup {None}, loaded : Nat,
                 next : {"idle", "stamp", "loop", "last"}, stamp : 0 .. MaxTime,
                 ptr : Nat, open : {task[w].open}, out : Seq(Bundles)]
      BY <1>1, <1>2, <1>3 DEF Tasks
    <3>4. t = [m EXCEPT !.next = "loop", !.open = @ - Chunk]
      BY <1>1
    <3> HIDE DEF made, m, t
    <3>5. made[w] = m /\ w \in DOMAIN made
      BY <1>1, <3>2
    <3>6. task' = [made EXCEPT ![w] = [m EXCEPT !.next = "loop", !.open = @ - Chunk]]
      BY <3>1, <3>5
    <3>7. task' = [made EXCEPT ![w] = t]
      BY <3>4, <3>6
    <3> QED
      BY <1>1, <3>2, <3>7
  <2>2. task[w].open >= Chunk /\ task[w].open - Chunk \in Nat
    BY <1>3, <1>5 DEF Breaks
  <2>3. /\ t \in Tasks
        /\ t.at = "load" /\ t.next = "loop" /\ t.datagram = task[w].datagram
        /\ t.loaded = task[w].loaded /\ t.stamp = task[w].stamp /\ t.ptr = task[w].ptr + Chunk
        /\ t.open = task[w].open - Chunk /\ t.out = o
    BY <1>1, <1>2, <1>3, <2>2 DEF Tasks
  <2> HIDE DEF t
  <2>4. task' \in [Workers -> Tasks] /\ Others(w) /\ task'[w] = t
    BY <1>1, <2>1, <2>3 DEF Others
  <2> QED
    BY <1>0, <1>1, <2>2, <2>3, <2>4 DEF Taken
<1> QED
  BY <1>4, <1>5

LEMMA MakeLastTask ==
    ASSUME TypeOK, NEW w \in Workers, MakeLast(w)
    PROVE  /\ task' \in [Workers -> Tasks] /\ Others(w) /\ Taken(task'[w])
           /\ task[w].at = "last" /\ task'[w].at = "send" /\ task'[w].next = task[w].next
           /\ task'[w].datagram = task[w].datagram /\ task'[w].loaded = task[w].loaded
           /\ task'[w].stamp = task[w].stamp /\ task'[w].ptr = task[w].ptr
           /\ task'[w].open = task[w].open
           /\ task'[w].out = Append(task[w].out, Bundle(w, FALSE, task[w].open))
<1>1. task \in [Workers -> Tasks] /\ task[w] \in Tasks /\ Taken(task[w])
  BY DEF TypeOK
<1> DEFINE b == Bundle(w, FALSE, task[w].open)
<1> DEFINE o == Append(task[w].out, b)
<1> DEFINE t == [task[w] EXCEPT !.out = o, !.at = "send"]
<1>2. task' = [task EXCEPT ![w] = t] /\ task[w].at = "last"
  BY <1>1 DEF MakeLast
<1>3. o \in Seq(Bundles) /\ o # <<>>
  <2>1. task[w].open \in Nat /\ task[w].out \in Seq(Bundles)
    BY <1>1 DEF Tasks
  <2>2. b \in Bundles
    BY <1>2, <2>1, BundleIs
  <2>3. o \in Seq(Bundles) /\ Len(o) = Len(task[w].out) + 1 /\ Len(task[w].out) \in Nat
    BY <2>1, <2>2, AppendProperties, LenProperties
  <2> HIDE DEF o
  <2> QED
    BY <2>3, EmptySeq
<1> HIDE DEF b, o
<1>4. /\ t \in Tasks
      /\ t.at = "send" /\ t.next = task[w].next /\ t.datagram = task[w].datagram
      /\ t.loaded = task[w].loaded /\ t.stamp = task[w].stamp /\ t.ptr = task[w].ptr
      /\ t.open = task[w].open /\ t.out = o
  BY <1>1, <1>3 DEF Tasks
<1> HIDE DEF t
<1>5. task' \in [Workers -> Tasks] /\ Others(w) /\ task'[w] = t
  BY <1>1, <1>2, <1>4 DEF Others
<1> QED
  BY <1>1, <1>2, <1>3, <1>4, <1>5 DEF Taken, b, o

LEMMA SendAllTask ==
    ASSUME TypeOK, NEW w \in Workers, SendAll(w)
    PROVE  /\ task' \in [Workers -> Tasks] /\ Others(w) /\ Taken(task'[w])
           /\ task[w].at = "send" /\ task'[w] = Idle
           /\ DOMAIN network' = DOMAIN network \cup ToSet(task[w].out)
<1>1. task \in [Workers -> Tasks] /\ task' = [task EXCEPT ![w] = Idle] /\ task[w].at = "send"
  BY DEF TypeOK, SendAll
<1>2. task' \in [Workers -> Tasks] /\ Others(w) /\ task'[w] = Idle
  BY <1>1, IdleIs DEF Others
<1>3. PICK twice \in UNION {kSubset(k, ToSet(task[w].out)) : k \in 0 .. Duplicates} :
          network' = network (+) SetToBag(ToSet(task[w].out)) (+) SetToBag(twice)
  BY DEF SendAll
<1>4. twice \subseteq ToSet(task[w].out)
  BY DEF kSubset
<1>5. DOMAIN network' = (DOMAIN network \cup ToSet(task[w].out)) \cup twice
  BY <1>3 DEF (+), SetToBag
<1> QED
  BY <1>1, <1>2, <1>4, <1>5, IdleIs

LEMMA ReceiveNetwork ==
    ASSUME NEW b, Receive(b)
    PROVE  b \in DOMAIN network /\ DOMAIN network' \in SUBSET DOMAIN network
<1>1. network' = network (-) SetToBag({b}) /\ b \in DOMAIN network
  BY DEF Receive, BagIn, BagToSet
<1>2. DOMAIN network' \subseteq DOMAIN network
  BY <1>1 DEF (-), SetToBag
<1> QED
  BY <1>1, <1>2

-----------------------------------------------------------------------------
(* Every step keeps the types.                                             *)

(* What is left to show when a worker takes a step. *)
LEMMA WorkerType ==
    ASSUME TypeOK, NEW w \in Workers,
           task' \in [Workers -> Tasks], Others(w), Taken(task'[w]),
           sequence' \in Nat, UNCHANGED <<now, receiver>>,
           length' \in [Datagrams -> Nat], DOMAIN network' \in SUBSET Bundles,
           overlapped' \in SUBSET Datagrams, keys' \in [Datagrams -> SUBSET (0 .. MaxTime)]
    PROVE  TypeOK'
<1>1. \A v \in Workers : Taken(task'[v])
  BY DEF TypeOK, Others
<1>2. UNCHANGED <<seen, entries, forwarded>>
  BY DEF receiver
<1> QED
  BY <1>1, <1>2 DEF TypeOK

LEMMA BeginType ==
    ASSUME TypeOK, NEW w \in Workers, NEW d \in Datagrams, NEW size \in Sizes,
           Begin(w, d, size), UNCHANGED receiver
    PROVE  TypeOK'
<1>1. /\ task' \in [Workers -> Tasks] /\ Others(w) /\ Taken(task'[w])
  BY BeginTask
<1>2. /\ sequence' \in Nat /\ UNCHANGED <<now, receiver>>
      /\ DOMAIN network' \in SUBSET Bundles /\ keys' \in [Datagrams -> SUBSET (0 .. MaxTime)]
  BY DEF Begin, TypeOK
<1>3. length' \in [Datagrams -> Nat]
  <2>1. size \in Nat
    BY TunnelAssumption
  <2> QED
    BY <2>1 DEF Begin, TypeOK
<1>4. overlapped' \in SUBSET Datagrams
  <2>1. \A v \in Busy : task[v].datagram \in Datagrams
    BY DEF Busy, TypeOK, Taken
  <2> QED
    BY <2>1 DEF Begin, TypeOK
<1> QED
  BY <1>1, <1>2, <1>3, <1>4, WorkerType

LEMMA PackType ==
    ASSUME TypeOK, NEW w \in Workers, Pack(w), UNCHANGED receiver
    PROVE  TypeOK'
<1> USE DEF TypeOK
<1>1. CASE Load(w)
  <2>1. task' \in [Workers -> Tasks] /\ Others(w) /\ Taken(task'[w])
    BY <1>1, LoadTask
  <2>2. UNCHANGED <<sequence, now, length, network, overlapped, keys>>
    BY <1>1 DEF Load
  <2> QED
    BY <2>1, <2>2, WorkerType
<1>2. CASE Store(w)
  <2>1. task' \in [Workers -> Tasks] /\ Others(w) /\ Taken(task'[w])
        /\ sequence' = task[w].loaded + 1
    BY <1>2, StoreTask
  <2>2. UNCHANGED <<now, length, network, overlapped, keys>>
    BY <1>2 DEF Store
  <2>3. sequence' \in Nat
    BY <2>1 DEF Tasks
  <2> QED
    BY <2>1, <2>2, <2>3, WorkerType
<1>3. CASE Stamp(w)
  <2>1. task' \in [Workers -> Tasks] /\ Others(w) /\ Taken(task'[w])
    BY <1>3, StampTask
  <2>2. UNCHANGED <<sequence, now, length, network, overlapped>>
        /\ keys' = [keys EXCEPT ![task[w].datagram] = {now}]
    BY <1>3 DEF Stamp
  <2>3. keys' \in [Datagrams -> SUBSET (0 .. MaxTime)]
    BY <2>2
  <2> QED
    BY <2>1, <2>2, <2>3, WorkerType
<1>4. CASE MakeWhole(w)
  <2>1. task' \in [Workers -> Tasks] /\ Others(w) /\ Taken(task'[w])
    BY <1>4, MakeWholeTask
  <2>2. UNCHANGED <<sequence, now, length, network, overlapped, keys>>
    BY <1>4 DEF MakeWhole
  <2> QED
    BY <2>1, <2>2, WorkerType
<1>5. CASE MakeChunk(w)
  <2>1. task' \in [Workers -> Tasks] /\ Others(w) /\ Taken(task'[w])
    BY <1>5, MakeChunkTask
  <2>2. UNCHANGED <<sequence, now, length, network, overlapped, keys>>
    BY <1>5 DEF MakeChunk
  <2> QED
    BY <2>1, <2>2, WorkerType
<1>6. CASE MakeLast(w)
  <2>1. task' \in [Workers -> Tasks] /\ Others(w) /\ Taken(task'[w])
    BY <1>6, MakeLastTask
  <2>2. UNCHANGED <<sequence, now, length, network, overlapped, keys>>
    BY <1>6 DEF MakeLast
  <2> QED
    BY <2>1, <2>2, WorkerType
<1>7. CASE SendAll(w)
  <2>1. task' \in [Workers -> Tasks] /\ Others(w) /\ Taken(task'[w])
        /\ DOMAIN network' = DOMAIN network \cup ToSet(task[w].out)
    BY <1>7, SendAllTask
  <2>2. UNCHANGED <<sequence, now, length, overlapped, keys>>
    BY <1>7 DEF SendAll
  <2>3. ToSet(task[w].out) \subseteq Bundles
    <3>1. task[w].out \in Seq(Bundles)
      BY DEF Tasks
    <3> QED
      BY <3>1, ElementOfSeq DEF ToSet
  <2> QED
    BY <2>1, <2>2, <2>3, WorkerType
<1> QED
  BY <1>1, <1>2, <1>3, <1>4, <1>5, <1>6, <1>7 DEF Pack

(* What the receiver does with a bundle. *)
LEMMA ReceiverIs ==
    ASSUME TypeOK, NEW b \in Bundles, PushFragment(b)
    PROVE  /\ ~b.whole /\ Key(b) \notin seen /\ seen' = seen \cup {Key(b)}
           /\ b.stamp \in 0 .. MaxTime /\ entries[b.stamp] \in Seq(Bundles)
           /\ \/ /\ Complete(entries[b.stamp], b)
                 /\ forwarded' = Append(forwarded, Insert(entries[b.stamp], b))
                 /\ entries' = [entries EXCEPT ![b.stamp] = <<>>]
              \/ /\ forwarded' = forwarded
                 /\ entries' = [entries EXCEPT ![b.stamp] = Insert(entries[b.stamp], b)]
<1>1. b.stamp \in 0 .. MaxTime
  BY DEF Bundles
<1>2. entries[b.stamp] \in Seq(Bundles)
  BY <1>1 DEF TypeOK
<1> QED
  BY <1>1, <1>2 DEF PushFragment, Known

LEMMA ReceiveType ==
    ASSUME TypeOK, NEW b \in BagToSet(network), Receive(b)
    PROVE  TypeOK'
<1>1. b \in Bundles /\ DOMAIN network' \in SUBSET Bundles
  BY ReceiveNetwork DEF TypeOK, BagToSet
<1>2. UNCHANGED <<sequence, task, now, length, overlapped, keys>>
  BY DEF Receive
<1>3. seen' \in SUBSET ((0 .. MaxTime) \X Nat)
      /\ entries' \in [0 .. MaxTime -> Seq(Bundles)] /\ forwarded' \in Seq(Seq(Bundles))
  <2>1. CASE PushWhole(b)
    <3>1. <<b>> \in Seq(Bundles)
      BY <1>1
    <3>2. forwarded' = Append(forwarded, <<b>>) /\ UNCHANGED <<seen, entries>>
      BY <2>1 DEF PushWhole
    <3>3. forwarded' \in Seq(Seq(Bundles))
      BY <3>1, <3>2, AppendProperties DEF TypeOK
    <3> QED
      BY <3>2, <3>3 DEF TypeOK
  <2>2. CASE PushKnown(b)
    BY <2>2 DEF PushKnown, receiver, TypeOK
  <2>3. CASE PushFragment(b)
    <3> DEFINE q == entries[b.stamp]
    <3>1. /\ seen' = seen \cup {Key(b)} /\ b.stamp \in 0 .. MaxTime /\ q \in Seq(Bundles)
          /\ \/ forwarded' = Append(forwarded, Insert(q, b)) /\ entries' = [entries EXCEPT ![b.stamp] = <<>>]
             \/ forwarded' = forwarded /\ entries' = [entries EXCEPT ![b.stamp] = Insert(q, b)]
      BY <1>1, <2>3, ReceiverIs
    <3>2. Insert(q, b) \in Seq(Bundles) /\ <<>> \in Seq(Bundles)
      BY <1>1, <3>1, InsertIs, EmptySeq
    <3>3. Append(forwarded, Insert(q, b)) \in Seq(Seq(Bundles)) /\ forwarded \in Seq(Seq(Bundles))
      BY <3>2, AppendProperties DEF TypeOK
    <3>4. Key(b) \in (0 .. MaxTime) \X Nat
      BY <1>1 DEF Key, Bundles
    <3> QED
      BY <3>1, <3>2, <3>3, <3>4 DEF TypeOK
  <2> QED
    BY <2>1, <2>2, <2>3 DEF Receive
<1> QED
  BY <1>1, <1>2, <1>3 DEF TypeOK

(* The steps, for the proofs to go through. *)
LEMMA Steps ==
    ASSUME [Next]_vars
    PROVE  \/ \E w \in Workers, d \in Datagrams, size \in Sizes :
                  Begin(w, d, size) /\ UNCHANGED receiver
           \/ \E w \in Workers : Pack(w) /\ UNCHANGED receiver
           \/ Tick /\ UNCHANGED receiver
           \/ \E b \in BagToSet(network) : Receive(b)
           \/ UNCHANGED vars
  BY DEF Next, SenderNext

LEMMA NextType == TypeOK /\ [Next]_vars => TypeOK'
<1> SUFFICES ASSUME TypeOK, [Next]_vars PROVE TypeOK'
  OBVIOUS
<1>1. CASE \E w \in Workers, d \in Datagrams, size \in Sizes :
               Begin(w, d, size) /\ UNCHANGED receiver
  BY <1>1, BeginType
<1>2. CASE \E w \in Workers : Pack(w) /\ UNCHANGED receiver
  BY <1>2, PackType
<1>3. CASE Tick /\ UNCHANGED receiver
  <2>1. now' \in 0 .. MaxTime
    BY <1>3, Tick0 DEF Tick, TypeOK
  <2> QED
    BY <1>3, <2>1 DEF Tick, TypeOK, receiver
<1>4. CASE \E b \in BagToSet(network) : Receive(b)
  BY <1>4, ReceiveType
<1>5. CASE UNCHANGED vars
  BY <1>5 DEF vars, sender, receiver, TypeOK
<1> QED
  BY <1>1, <1>2, <1>3, <1>4, <1>5, Steps

(* The variables keep their types. *)
THEOREM TypeCorrect == Spec => []TypeOK
  BY InitType, NextType, PTL DEF Spec

-----------------------------------------------------------------------------
(* Who works on a datagram.                                                *)

Lone(d) == d \notin overlapped

(* No two workers have one datagram, and a datagram not overlapped is      *)
(* packed while every other worker is idle.                                *)
Separate ==
    \A w \in Workers : task[w].at # "idle" =>
        /\ length[task[w].datagram] >= 1
        /\ \A v \in Workers \ {w} : task[v].datagram # task[w].datagram
        /\ Lone(task[w].datagram) => \A v \in Workers \ {w} : task[v] = Idle

(* A worker keeps its datagram until it has sent it. *)
LEMMA PackIs ==
    ASSUME TypeOK, NEW w \in Workers, Pack(w)
    PROVE  /\ Others(w) /\ task[w].at # "idle" /\ UNCHANGED <<length, overlapped, now>>
           /\ \/ SendAll(w) /\ task'[w] = Idle
              \/ /\ task'[w].datagram = task[w].datagram /\ task'[w].at # "idle"
                 /\ UNCHANGED network
<1>1. CASE Load(w)
  BY <1>1, LoadTask DEF Load
<1>2. CASE Store(w)
  <2>1. task[w].next # "idle"
    BY <1>2 DEF Store, TypeOK, Taken
  <2> QED
    BY <1>2, <2>1, StoreTask DEF Store, Goes
<1>3. CASE Stamp(w)
  BY <1>3, StampTask DEF Stamp, Goes
<1>4. CASE MakeWhole(w)
  BY <1>4, MakeWholeTask DEF MakeWhole
<1>5. CASE MakeChunk(w)
  BY <1>5, MakeChunkTask DEF MakeChunk
<1>6. CASE MakeLast(w)
  BY <1>6, MakeLastTask DEF MakeLast
<1>7. CASE SendAll(w)
  BY <1>7, SendAllTask DEF SendAll
<1> QED
  BY <1>1, <1>2, <1>3, <1>4, <1>5, <1>6, <1>7 DEF Pack

LEMMA BeginIs ==
    ASSUME TypeOK, NEW w \in Workers, NEW d \in Datagrams, NEW size \in Sizes, Begin(w, d, size)
    PROVE  /\ length[d] = 0 /\ length'[d] = size /\ size \in Nat /\ size >= 1
           /\ \A e \in Datagrams \ {d} : length'[e] = length[e]
           /\ overlapped \subseteq overlapped'
           /\ \A v \in Workers : task[v].at # "idle" =>
                 task[v].datagram \in overlapped' /\ d \in overlapped'
<1>1. size \in Nat /\ size >= 1
  BY TunnelAssumption
<1>2. /\ length[d] = 0 /\ length' = [length EXCEPT ![d] = size]
      /\ overlapped' = IF Busy = {} THEN overlapped
                       ELSE overlapped \cup {d} \cup {task[v].datagram : v \in Busy}
  BY DEF Begin
<1>3. ASSUME NEW v \in Workers, task[v].at # "idle"
      PROVE  task[v].datagram \in overlapped' /\ d \in overlapped'
  <2>1. v \in Busy
    BY <1>3, IdleIs DEF Busy
  <2> QED
    BY <1>2, <2>1
<1> QED
  BY <1>1, <1>2, <1>3 DEF TypeOK

LEMMA NextSeparate == TypeOK /\ Separate /\ [Next]_vars => Separate'
<1> SUFFICES ASSUME TypeOK, Separate, [Next]_vars PROVE Separate'
  OBVIOUS
<1>1. ASSUME NEW w \in Workers, NEW d \in Datagrams, NEW size \in Sizes, Begin(w, d, size)
      PROVE  Separate'
  <2>1. /\ Others(w) /\ task[w] = Idle /\ task'[w].at = "load" /\ task'[w].datagram = d
    BY <1>1, BeginTask
  <2>2. /\ length[d] = 0 /\ length'[d] >= 1
        /\ \A e \in Datagrams \ {d} : length'[e] = length[e]
        /\ \A v \in Workers : task[v].at # "idle" =>
              task[v].datagram \in overlapped' /\ d \in overlapped'
    BY <1>1, BeginIs
  <2>3. \A v \in Workers : task[v].at # "idle" =>
            task[v].datagram \in Datagrams /\ task[v].datagram # d
    BY <2>2 DEF TypeOK, Taken, Separate
  <2>4. \A v \in Workers : task[v].at = "idle" => task[v] = Idle /\ task[v].datagram # d
    BY IdleIs DEF TypeOK, Taken
  <2> SUFFICES ASSUME NEW v \in Workers, task'[v].at # "idle"
               PROVE  /\ length'[task'[v].datagram] >= 1
                      /\ \A u \in Workers \ {v} : task'[u].datagram # task'[v].datagram
                      /\ task'[v].datagram \notin overlapped' =>
                            \A u \in Workers \ {v} : task'[u] = Idle
    BY DEF Separate, Lone
  <2>5. CASE v = w
    BY <2>1, <2>2, <2>3, <2>4, <2>5 DEF Others
  <2>6. CASE v # w
    <3>1. task'[v] = task[v]
      BY <2>1, <2>6 DEF Others
    <3> QED
      BY <2>1, <2>2, <2>3, <2>6, <3>1 DEF Others, Separate
  <2> QED
    BY <2>5, <2>6
<1>2. ASSUME NEW w \in Workers, Pack(w) PROVE Separate'
  <2>1. /\ Others(w) /\ task[w].at # "idle" /\ UNCHANGED <<length, overlapped>>
        /\ task'[w] = Idle \/ task'[w].datagram = task[w].datagram
    BY <1>2, PackIs
  <2>2. \A v \in Workers : task[v].at # "idle" => task[v].datagram # None
    BY IdleIs DEF TypeOK, Taken
  <2> QED
    BY <2>1, <2>2, IdleIs DEF Separate, Others, Lone
<1>3. CASE UNCHANGED <<task, length, overlapped>>
  BY <1>3 DEF Separate, Lone
<1> QED
  BY <1>1, <1>2, <1>3, Steps DEF Tick, Receive, vars, sender

-----------------------------------------------------------------------------
(* The numbers of the bundles.                                             *)

(* The bundles of a worker that is alone have increasing numbers, none     *)
(* after the counter, which is past them when the next one takes it.       *)
Numbered(t, s) ==
    /\ Sorted(t.out)
    /\ \A k \in 1 .. Len(t.out) : t.out[k].number <= s
    /\ t.at \in {"stamp", "chunk", "last"} => \A k \in 1 .. Len(t.out) : t.out[k].number < s
    /\ t.at = "store" => t.loaded = s

Numbers ==
    \A w \in Workers : (task[w].at # "idle" /\ Lone(task[w].datagram)) => Numbered(task[w], sequence)

LEMMA AppendSorted ==
    ASSUME NEW q \in Seq(Bundles), NEW b \in Bundles, Sorted(q),
           \A k \in 1 .. Len(q) : q[k].number < b.number
    PROVE  /\ Sorted(Append(q, b))
           /\ \A k \in 1 .. Len(Append(q, b)) : Append(q, b)[k].number <= b.number
<1> DEFINE a == Append(q, b)
<1>0. Len(q) \in Nat /\ b.number \in Nat /\ \A k \in 1 .. Len(q) : q[k].number \in Nat
  <2>1. Len(q) \in Nat /\ \A k \in 1 .. Len(q) : q[k] \in Bundles
    BY LenProperties, ElementOfSeq
  <2> QED
    BY <2>1 DEF Bundles
<1>1. Len(a) = Len(q) + 1 /\ a[Len(q) + 1] = b /\ \A k \in 1 .. Len(q) : a[k] = q[k]
  BY AppendProperties
<1> HIDE DEF a
<1>2. \A k \in 1 .. Len(a) : k \in 1 .. Len(q) \/ k = Len(q) + 1
  BY <1>0, <1>1
<1>3. \A k \in 1 .. Len(a) : a[k].number <= b.number
  BY <1>0, <1>1, <1>2
<1>4. ASSUME NEW j \in 1 .. Len(a), NEW k \in 1 .. Len(a), j < k
      PROVE  a[j].number < a[k].number
  <2>1. j \in 1 .. Len(q)
    BY <1>0, <1>1, <1>4
  <2>2. k \in 1 .. Len(q) \/ k = Len(q) + 1
    BY <1>2
  <2> QED
    BY <1>1, <1>4, <2>1, <2>2 DEF Sorted
<1> QED
  BY <1>3, <1>4 DEF Sorted, a

LEMMA PackNumbers ==
    ASSUME TypeOK, Separate, Numbers, NEW w \in Workers, Pack(w), Lone(task[w].datagram)
    PROVE  task'[w].at # "idle" => Numbered(task'[w], sequence')
<1>0. /\ sequence \in Nat /\ task[w] \in Tasks /\ task[w].at # "idle"
      /\ task[w].out \in Seq(Bundles) /\ Numbered(task[w], sequence)
  BY PackIs DEF TypeOK, Tasks, Numbers
<1>1. CASE Load(w)
  <2>1. /\ task'[w].at = "store" /\ task'[w].loaded = sequence /\ task'[w].out = task[w].out
        /\ sequence' = sequence
    BY <1>1, LoadTask DEF Load
  <2> QED
    BY <1>0, <2>1 DEF Numbered
<1>2. CASE Store(w)
  <2>1. /\ task'[w].out = task[w].out /\ sequence' = sequence + 1
        /\ task'[w].at # "store"
    BY <1>0, <1>2, StoreTask DEF Numbered, Goes, Tasks
  <2>2. \A k \in 1 .. Len(task[w].out) :
            task[w].out[k].number < sequence + 1 /\ task[w].out[k].number <= sequence + 1
    <3> SUFFICES ASSUME NEW k \in 1 .. Len(task[w].out)
                 PROVE  task[w].out[k].number < sequence + 1 /\ task[w].out[k].number <= sequence + 1
      OBVIOUS
    <3>1. task[w].out[k] \in Bundles
      BY <1>0, ElementOfSeq
    <3>2. task[w].out[k].number \in Nat /\ task[w].out[k].number <= sequence
      BY <1>0, <3>1 DEF Bundles, Numbered
    <3> QED
      BY <1>0, <3>2
  <2> QED
    BY <1>0, <2>1, <2>2 DEF Numbered
<1>3. CASE Stamp(w)
  <2>1. /\ task[w].at = "stamp" /\ task'[w].out = task[w].out /\ sequence' = sequence
        /\ task'[w].at # "store"
    BY <1>3, StampTask DEF Goes, Stamp
  <2> QED
    BY <1>0, <2>1 DEF Numbered
<1>4. CASE MakeWhole(w)
  <2> DEFINE b == Bundle(w, TRUE, task[w].open)
  <2>1. /\ task'[w].at = "send" /\ task'[w].out = <<b>> /\ sequence' = sequence
    BY <1>4, MakeWholeTask DEF MakeWhole
  <2>2. b.number = sequence
    BY <1>0, BundleIs DEF Tasks
  <2> HIDE DEF b
  <2>3. Len(<<b>>) = 1 /\ <<b>>[1] = b
    OBVIOUS
  <2>4. \A k \in 1 .. Len(<<b>>) : k = 1
    BY <2>3
  <2>5. Sorted(<<b>>)
    BY <2>4 DEF Sorted
  <2>6. \A k \in 1 .. Len(<<b>>) : <<b>>[k].number <= sequence
    BY <1>0, <2>2, <2>4
  <2> QED
    BY <2>1, <2>5, <2>6 DEF Numbered
<1>5. ASSUME NEW b \in Bundles, b.number = sequence, task'[w].out = Append(task[w].out, b),
             sequence' = sequence, task'[w].at \in {"load", "send"},
             task[w].at \in {"chunk", "last"}
      PROVE  Numbered(task'[w], sequence')
  <2>1. \A k \in 1 .. Len(task[w].out) : task[w].out[k].number < b.number
    BY <1>0, <1>5 DEF Numbered
  <2>2. Sorted(task[w].out)
    BY <1>0 DEF Numbered
  <2>3. /\ Sorted(Append(task[w].out, b))
        /\ \A k \in 1 .. Len(Append(task[w].out, b)) :
              Append(task[w].out, b)[k].number <= b.number
    BY <1>0, <2>1, <2>2, AppendSorted
  <2> QED
    BY <1>5, <2>3 DEF Numbered
<1>6. CASE MakeChunk(w)
  <2>1. /\ task'[w].out = Append(task[w].out, Bundle(w, FALSE, Chunk)) /\ sequence' = sequence
        /\ task'[w].at = "load" /\ task[w].at = "chunk"
    BY <1>6, MakeChunkTask DEF MakeChunk
  <2>2. Bundle(w, FALSE, Chunk) \in Bundles /\ Bundle(w, FALSE, Chunk).number = sequence
    BY <1>0, BundleIs, Tick0
  <2> QED
    BY <1>5, <2>1, <2>2
<1>7. CASE MakeLast(w)
  <2>1. /\ task'[w].out = Append(task[w].out, Bundle(w, FALSE, task[w].open))
        /\ sequence' = sequence /\ task'[w].at = "send" /\ task[w].at = "last"
    BY <1>7, MakeLastTask DEF MakeLast
  <2>2. task[w].open \in Nat
    BY <1>0 DEF Tasks
  <2>3. /\ Bundle(w, FALSE, task[w].open) \in Bundles
        /\ Bundle(w, FALSE, task[w].open).number = sequence
    BY <1>0, <2>2, BundleIs
  <2> QED
    BY <1>5, <2>1, <2>3
<1>8. CASE SendAll(w)
  BY <1>8, SendAllTask, IdleIs
<1> QED
  BY <1>1, <1>2, <1>3, <1>4, <1>6, <1>7, <1>8 DEF Pack

LEMMA NextNumbers == TypeOK /\ Separate /\ Numbers /\ [Next]_vars => Numbers'
<1> SUFFICES ASSUME TypeOK, Separate, Numbers, [Next]_vars PROVE Numbers'
  OBVIOUS
<1>1. ASSUME NEW w \in Workers, NEW d \in Datagrams, NEW size \in Sizes, Begin(w, d, size)
      PROVE  Numbers'
  <2>1. Others(w) /\ task'[w].at = "load" /\ task'[w].out = <<>>
    BY <1>1, BeginTask
  <2>2. overlapped \subseteq overlapped' /\ sequence' = sequence
    BY <1>1, BeginIs DEF Begin
  <2>3. Numbered(task'[w], sequence')
    BY <2>1 DEF Numbered, Sorted
  <2> QED
    BY <2>1, <2>2, <2>3 DEF Numbers, Others, Lone
<1>2. ASSUME NEW w \in Workers, Pack(w) PROVE Numbers'
  <2>1. /\ Others(w) /\ task[w].at # "idle" /\ UNCHANGED overlapped
        /\ task'[w] = Idle \/ task'[w].datagram = task[w].datagram
    BY <1>2, PackIs
  <2>2. ASSUME NEW v \in Workers \ {w}, task'[v].at # "idle"
        PROVE  task'[v].datagram \in overlapped'
    <3>1. task[v] # Idle /\ task'[v] = task[v]
      BY <2>1, <2>2, IdleIs DEF Others
    <3> QED
      BY <2>1, <2>2, <3>1, IdleIs DEF Separate, Lone
  <2> QED
    BY <1>2, <2>1, <2>2, IdleIs, PackNumbers DEF Numbers, Lone
<1>3. CASE UNCHANGED <<task, overlapped, sequence>>
  BY <1>3 DEF Numbers, Lone
<1> QED
  BY <1>1, <1>2, <1>3, Steps DEF Tick, Receive, vars, sender

LEMMA InitNumbers == Init => Separate /\ Numbers
  BY IdleIs DEF Init, SenderInit, Separate, Numbers

LEMMA NumbersAre == TypeOK /\ Numbers => NumbersIncrease
<1> SUFFICES ASSUME TypeOK, Numbers, NEW w \in Workers, task[w].datagram \notin overlapped,
                    NEW k \in 2 .. Len(task[w].out)
             PROVE  task[w].out[k].number > task[w].out[k - 1].number
  BY DEF NumbersIncrease
<1>1. task[w].out \in Seq(Bundles) /\ Taken(task[w])
  BY DEF TypeOK, Tasks
<1>2. Len(task[w].out) \in Nat
  BY <1>1, LenProperties
<1>3. k \in 1 .. Len(task[w].out) /\ k - 1 \in 1 .. Len(task[w].out) /\ k - 1 < k
  BY <1>2
<1>4. task[w].at # "idle"
  <2>1. Len(<<>>) = 0
    BY EmptySeq
  <2> QED
    BY <1>1, <1>2, <1>3, <2>1, IdleIs DEF Taken
<1>5. Sorted(task[w].out)
  BY <1>4 DEF Numbers, Lone, Numbered
<1>6. task[w].out[k].number \in Nat /\ task[w].out[k - 1].number \in Nat
  <2>1. task[w].out[k] \in Bundles /\ task[w].out[k - 1] \in Bundles
    BY <1>1, <1>3, ElementOfSeq
  <2> QED
    BY <2>1 DEF Bundles
<1>7. task[w].out[k - 1].number < task[w].out[k].number
  BY <1>3, <1>5 DEF Sorted
<1> QED
  BY <1>6, <1>7

(* A datagram's bundles have increasing numbers in the order of its bytes  *)
(* unless another worker was packing at the same time, though no lock      *)
(* protects the counter (create_bundles).                                  *)
THEOREM NumbersCorrect == Spec => []NumbersIncrease
<1>1. Init => TypeOK /\ Separate /\ Numbers
  BY InitType, InitNumbers
<1>2. (TypeOK /\ Separate /\ Numbers) /\ [Next]_vars => (TypeOK /\ Separate /\ Numbers)'
  BY NextType, NextSeparate, NextNumbers
<1>3. TypeOK /\ Separate /\ Numbers => NumbersIncrease
  BY NumbersAre
<1> QED
  BY <1>1, <1>2, <1>3, PTL DEF Spec

-----------------------------------------------------------------------------
(* Where the bundles of a datagram begin and end.                          *)

(* What is true of a bundle of a datagram of this size: only if the size   *)
(* is no multiple of a chunk may a fragment reach over the end.            *)
Cut(b, size) ==
    /\ b.total = size
    /\ b.whole => b.from = 0 /\ b.bytes = size /\ size < Least
    /\ ~b.whole =>
          /\ size >= Least
          /\ b.bytes >= 1 /\ b.bytes <= Chunk
          /\ Multiple(b.from) /\ b.from < size + Chunk
          /\ Multiple(size) => b.from + b.bytes <= size

InOrder(q) == \A j, k \in 1 .. Len(q) : j < k => q[j].from + q[j].bytes <= q[k].from

BeforeStamp(t) == t.at = "stamp" \/ (t.at \in {"load", "store"} /\ t.next = "stamp")

ToLast(t) == t.at = "last" \/ (t.at \in {"load", "store"} /\ t.next = "last")

(* While chunks are taken, the pointer and what is open make the datagram; *)
(* where the loop was left after a short chunk, they are a chunk past it.  *)
Cutting(t, size) ==
    /\ size >= Least /\ Multiple(t.ptr)
    /\ ~ToLast(t) => t.ptr + t.open = size /\ t.open >= 1
    /\ t.at = "chunk" => t.open # Chunk
    /\ ToLast(t) => \/ t.open = Chunk /\ t.ptr + t.open = size
                    \/ /\ t.open >= 1 /\ t.open <= Chunk
                       /\ t.ptr + t.open = size + Chunk /\ ~Multiple(size)
    /\ \A k \in 1 .. Len(t.out) : ~t.out[k].whole /\ t.out[k].from + t.out[k].bytes <= t.ptr

(* What a worker has made of a datagram of this size with these stamps. *)
Working(t, size, stamps) ==
    /\ BeforeStamp(t) => stamps = {} /\ t.out = <<>> /\ t.ptr = 0 /\ t.open = size
    /\ ~BeforeStamp(t) => stamps = {t.stamp}
    /\ t.at = "whole" => t.ptr = 0 /\ t.open = size /\ size < Least
    /\ (~BeforeStamp(t) /\ t.at \notin {"whole", "send"}) => Cutting(t, size)
    /\ \A k \in 1 .. Len(t.out) :
          /\ Cut(t.out[k], size)
          /\ t.out[k].stamp = t.stamp /\ t.out[k].datagram = t.datagram
    /\ InOrder(t.out)

Works ==
    /\ \A d \in Datagrams : length[d] = 0 => keys[d] = {}
    /\ \A w \in Workers : task[w].at # "idle" =>
          Working(task[w], length[task[w].datagram], keys[task[w].datagram])

LEMMA MultipleIs ==
    ASSUME NEW n \in Nat, n % Chunk = 0
    PROVE  Multiple(n)
<1>1. Chunk \in Nat /\ Chunk > 0
  BY Tick0
<1>2. \E i \in Nat : n = i * Chunk
  BY <1>1
<1> QED
  BY <1>2 DEF Multiple

(* Between two multiples there is a chunk. *)
LEMMA MultiplesApart ==
    ASSUME NEW m \in Nat, NEW n \in Nat, Multiple(m), Multiple(n), m < n
    PROVE  m + Chunk <= n
<1>1. PICK i \in Nat : m = i * Chunk
  BY DEF Multiple
<1>2. PICK j \in Nat : n = j * Chunk
  BY DEF Multiple
<1>3. Chunk \in Nat /\ Chunk > 0
  BY Tick0
<1>4. i < j
  <2> SUFFICES ASSUME j <= i PROVE FALSE
    OBVIOUS
  <2>1. PICK e \in Nat : i = j + e
    <3>1. i - j \in Nat /\ i = j + (i - j)
      OBVIOUS
    <3> QED
      BY <3>1
  <2>2. m = n + e * Chunk /\ e * Chunk \in Nat
    BY <1>1, <1>2, <1>3, <2>1
  <2> QED
    BY <2>2
<1>5. PICK e \in Nat : j = (i + 1) + e
  <2>1. j - (i + 1) \in Nat /\ j = (i + 1) + (j - (i + 1))
    BY <1>4
  <2> QED
    BY <2>1
<1>6. n = m + Chunk + e * Chunk /\ e * Chunk \in Nat
  BY <1>1, <1>2, <1>3, <1>5
<1> QED
  BY <1>3, <1>6

LEMMA MultipleNext ==
    ASSUME NEW m \in Nat, Multiple(m)
    PROVE  Multiple(m + Chunk)
<1>1. PICK i \in Nat : m = i * Chunk
  BY DEF Multiple
<1>2. m + Chunk = (i + 1) * Chunk /\ i + 1 \in Nat
  BY <1>1, Tick0
<1> QED
  BY <1>2 DEF Multiple

(* A bundle that begins where all others have ended comes after them. *)
LEMMA AppendInOrder ==
    ASSUME NEW q \in Seq(Bundles), NEW b \in Bundles, InOrder(q),
           \A k \in 1 .. Len(q) : q[k].from + q[k].bytes <= b.from
    PROVE  /\ InOrder(Append(q, b))
           /\ \A k \in 1 .. Len(Append(q, b)) :
                 Append(q, b)[k] = b \/ \E j \in 1 .. Len(q) : Append(q, b)[k] = q[j]
<1> DEFINE a == Append(q, b)
<1>0. Len(q) \in Nat
  BY LenProperties
<1>1. Len(a) = Len(q) + 1 /\ a[Len(q) + 1] = b /\ \A k \in 1 .. Len(q) : a[k] = q[k]
  BY AppendProperties
<1> HIDE DEF a
<1>2. \A k \in 1 .. Len(a) : k \in 1 .. Len(q) \/ k = Len(q) + 1
  BY <1>0, <1>1
<1>3. ASSUME NEW j \in 1 .. Len(a), NEW k \in 1 .. Len(a), j < k
      PROVE  a[j].from + a[j].bytes <= a[k].from
  <2>1. j \in 1 .. Len(q)
    BY <1>0, <1>1, <1>3
  <2>2. k \in 1 .. Len(q) \/ k = Len(q) + 1
    BY <1>2
  <2> QED
    BY <1>1, <1>3, <2>1, <2>2 DEF InOrder
<1> QED
  BY <1>1, <1>2, <1>3 DEF InOrder, a

LEMMA OutIs ==
    ASSUME TypeOK, NEW w \in Workers
    PROVE  /\ task[w] \in Tasks /\ task[w].out \in Seq(Bundles) /\ Len(task[w].out) \in Nat
           /\ \A k \in 1 .. Len(task[w].out) :
                 /\ task[w].out[k] \in Bundles
                 /\ task[w].out[k].from \in Nat /\ task[w].out[k].bytes \in Nat
<1>1. task[w] \in Tasks /\ task[w].out \in Seq(Bundles)
  BY DEF TypeOK, Tasks
<1>2. Len(task[w].out) \in Nat /\ \A k \in 1 .. Len(task[w].out) : task[w].out[k] \in Bundles
  BY <1>1, LenProperties, ElementOfSeq
<1> QED
  BY <1>1, <1>2 DEF Bundles

(* The stamp and then the loop that cuts chunks. *)
LEMMA StampWorks ==
    ASSUME TypeOK, NEW w \in Workers, Stamp(w), NEW n \in Nat, n >= 1, Working(task[w], n, {})
    PROVE  Working(task'[w], n, {now})
<1>1. /\ task[w].at = "stamp" /\ task'[w].stamp = now
      /\ \/ task[w].open < Least /\ task'[w].at = "whole" /\ task'[w].next = task[w].next
         \/ ~(task[w].open < Least) /\ Goes(task[w], task'[w], task[w].open)
      /\ task'[w].ptr = task[w].ptr /\ task'[w].open = task[w].open
      /\ task'[w].out = task[w].out
  BY StampTask
<1>2. task[w].out = <<>> /\ task[w].ptr = 0 /\ task[w].open = n
  BY <1>1 DEF Working, BeforeStamp
<1>3. Chunk \in Nat /\ Multiple(0)
  <2>1. Chunk \in Nat /\ 0 = 0 * Chunk
    BY Tick0
  <2> QED
    BY <2>1 DEF Multiple
<1>4. task'[w].out = <<>> /\ Len(task'[w].out) = 0
  BY <1>1, <1>2
<1>5. InOrder(task'[w].out)
  BY <1>4 DEF InOrder
<1>6. ~BeforeStamp(task'[w])
  BY <1>1 DEF BeforeStamp, Goes
<1>7. task'[w].at = "whole" =>
          task'[w].ptr = 0 /\ task'[w].open = n /\ n < Least
  BY <1>1, <1>2 DEF Goes
<1>8. task'[w].at # "whole" => Cutting(task'[w], n)
  <2> SUFFICES ASSUME task'[w].at # "whole" PROVE Cutting(task'[w], n)
    OBVIOUS
  <2>1. n >= Least /\ Goes(task[w], task'[w], n) /\ task'[w].ptr = 0 /\ task'[w].open = n
    BY <1>1, <1>2, Tick0
  <2>2. \/ n # Chunk /\ task'[w].at = "chunk"
        \/ n = Chunk /\ task'[w].at = "load" /\ task'[w].next = "last"
    BY <2>1 DEF Goes
  <2> QED
    BY <1>3, <1>4, <2>1, <2>2 DEF Cutting, ToLast
<1> QED
  BY <1>1, <1>4, <1>5, <1>6, <1>7, <1>8 DEF Working

LEMMA CountWorks ==
    ASSUME TypeOK, NEW w \in Workers, Load(w) \/ Store(w), NEW n \in Nat, NEW K,
           Working(task[w], n, K)
    PROVE  Working(task'[w], n, K)
<1> DEFINE t == task[w]
<1> DEFINE u == task'[w]
<1>1. /\ u.out = t.out /\ u.ptr = t.ptr /\ u.open = t.open /\ u.stamp = t.stamp
      /\ u.datagram = t.datagram
      /\ t.at \in {"load", "store"} /\ t.next \in {"stamp", "loop", "last"}
      /\ \/ u.at = "store" /\ u.next = t.next
         \/ t.next # "loop" /\ u.at = t.next /\ u.next = t.next
         \/ t.next = "loop" /\ t.open # Chunk /\ u.at = "chunk" /\ u.next = "loop"
         \/ t.next = "loop" /\ t.open = Chunk /\ u.at = "load" /\ u.next = "last"
  <2>1. t \in Tasks /\ Taken(t)
    BY DEF TypeOK
  <2>2. CASE Load(w)
    BY <2>1, <2>2, LoadTask DEF Tasks, Taken
  <2>3. CASE Store(w)
    BY <2>1, <2>3, StoreTask DEF Tasks, Taken, Goes
  <2> QED
    BY <2>2, <2>3
<1> HIDE DEF t, u
<1>2. Working(t, n, K)
  BY DEF t
<1>3. (BeforeStamp(u) <=> BeforeStamp(t)) /\ u.at \notin {"whole", "send"}
  BY <1>1 DEF BeforeStamp
<1>4. ~BeforeStamp(t) => Cutting(u, n)
  <2> SUFFICES ASSUME ~BeforeStamp(t) PROVE Cutting(u, n)
    OBVIOUS
  <2>1. Cutting(t, n)
    BY <1>1, <1>2 DEF Working
  <2>2. t.ptr \in Nat /\ t.open \in Nat /\ Chunk \in Nat
    BY Tick0 DEF t, TypeOK, Tasks
  <2> QED
    BY <1>1, <2>1, <2>2 DEF Cutting, ToLast
<1>5. Working(u, n, K)
  BY <1>1, <1>2, <1>3, <1>4 DEF Working
<1> QED
  BY <1>5 DEF u

LEMMA WholeWorks ==
    ASSUME TypeOK, NEW w \in Workers, MakeWhole(w), NEW K,
           Working(task[w], length[task[w].datagram], K)
    PROVE  Working(task'[w], length[task[w].datagram], K)
<1> DEFINE n == length[task[w].datagram]
<1> DEFINE b == Bundle(w, TRUE, task[w].open)
<1>1. /\ task[w].at = "whole" /\ task'[w].at = "send"
      /\ task'[w].datagram = task[w].datagram
      /\ task'[w].stamp = task[w].stamp /\ task'[w].out = <<b>>
  BY MakeWholeTask
<1>2. /\ b.stamp = task[w].stamp /\ b.whole /\ b.total = n /\ b.datagram = task[w].datagram
      /\ b.from = task[w].ptr /\ b.bytes = task[w].open
  <2>1. task[w].open \in Nat /\ task[w].at # "idle"
    BY <1>1, OutIs DEF Tasks
  <2>2. TRUE \in BOOLEAN
    OBVIOUS
  <2> QED
    BY <2>1, <2>2, BundleIs, ZenonT(60)
<1>3. task[w].ptr = 0 /\ task[w].open = n /\ n < Least /\ K = {task[w].stamp}
  BY <1>1 DEF Working, BeforeStamp
<1> HIDE DEF n, b
<1>4. Len(<<b>>) = 1 /\ <<b>>[1] = b
  OBVIOUS
<1>5. \A k \in 1 .. Len(<<b>>) : k = 1
  BY <1>4
<1>6. InOrder(<<b>>)
  BY <1>5 DEF InOrder
<1>7. Cut(b, n)
  BY <1>2, <1>3 DEF Cut
<1>8. Working(task'[w], n, K)
  BY <1>1, <1>2, <1>3, <1>4, <1>5, <1>6, <1>7 DEF Working, BeforeStamp
<1> QED
  BY <1>8 DEF n

(* What a fragment that is appended has to meet. *)
LEMMA AppendWorks ==
    ASSUME TypeOK, NEW w \in Workers, NEW n \in Nat, NEW K, Working(task[w], n, K),
           Cutting(task[w], n), ~BeforeStamp(task[w]),
           NEW b \in Bundles, Cut(b, n), ~b.whole, b.stamp = task[w].stamp,
           b.datagram = task[w].datagram, b.from = task[w].ptr
    PROVE  LET q == Append(task[w].out, b) IN
           /\ InOrder(q)
           /\ \A k \in 1 .. Len(q) :
                 /\ Cut(q[k], n) /\ q[k].stamp = task[w].stamp
                 /\ q[k].datagram = task[w].datagram
                 /\ ~q[k].whole /\ q[k].from + q[k].bytes <= b.from + b.bytes
<1> DEFINE o == task[w].out
<1> DEFINE q == Append(o, b)
<1>1. /\ o \in Seq(Bundles) /\ Len(o) \in Nat
      /\ \A k \in 1 .. Len(o) : o[k].from \in Nat /\ o[k].bytes \in Nat
  BY OutIs
<1>2. /\ InOrder(o)
      /\ \A k \in 1 .. Len(o) :
            /\ Cut(o[k], n) /\ o[k].stamp = task[w].stamp /\ o[k].datagram = task[w].datagram
            /\ ~o[k].whole /\ o[k].from + o[k].bytes <= b.from
  BY DEF Working, Cutting
<1>3. b.from \in Nat /\ b.bytes \in Nat
  BY DEF Bundles
<1> HIDE DEF o
<1>4. InOrder(q) /\ \A k \in 1 .. Len(q) : q[k] = b \/ \E j \in 1 .. Len(o) : q[k] = o[j]
  BY <1>1, <1>2, AppendInOrder
<1>5. \A j \in 1 .. Len(o) : o[j].from + o[j].bytes <= b.from + b.bytes
  <2> SUFFICES ASSUME NEW j \in 1 .. Len(o)
               PROVE  o[j].from + o[j].bytes <= b.from + b.bytes
    OBVIOUS
  <2>1. o[j].from \in Nat /\ o[j].bytes \in Nat /\ o[j].from + o[j].bytes <= b.from
    BY <1>1, <1>2
  <2> QED
    BY <1>3, <2>1
<1> HIDE DEF q
<1>6. /\ InOrder(q)
      /\ \A k \in 1 .. Len(q) :
            /\ Cut(q[k], n) /\ q[k].stamp = task[w].stamp
            /\ q[k].datagram = task[w].datagram
            /\ ~q[k].whole /\ q[k].from + q[k].bytes <= b.from + b.bytes
  <2> SUFFICES ASSUME NEW k \in 1 .. Len(q)
               PROVE  /\ Cut(q[k], n) /\ q[k].stamp = task[w].stamp
                      /\ q[k].datagram = task[w].datagram
                      /\ ~q[k].whole /\ q[k].from + q[k].bytes <= b.from + b.bytes
    BY <1>4
  <2>1. CASE q[k] = b
    BY <1>3, <2>1
  <2>2. CASE \E j \in 1 .. Len(o) : q[k] = o[j]
    BY <1>2, <1>5, <2>2
  <2> QED
    BY <1>4, <2>1, <2>2
<1> QED
  BY <1>6 DEF q, o

LEMMA ChunkWorks ==
    ASSUME TypeOK, NEW w \in Workers, MakeChunk(w), NEW K,
           Working(task[w], length[task[w].datagram], K)
    PROVE  Working(task'[w], length[task[w].datagram], K)
<1> DEFINE n == length[task[w].datagram]
<1> DEFINE b == Bundle(w, FALSE, Chunk)
<1> DEFINE t == task[w]
<1> DEFINE u == task'[w]
<1>1. /\ t.at = "chunk" /\ u.at = "load"
      /\ \/ t.open < Chunk /\ u.next = "last" /\ u.open = t.open
         \/ t.open >= Chunk /\ u.next = "loop" /\ u.open = t.open - Chunk
      /\ u.datagram = t.datagram /\ u.stamp = t.stamp /\ u.ptr = t.ptr + Chunk
      /\ u.out = Append(t.out, b)
  BY MakeChunkTask
<1>2. /\ b \in Bundles /\ b.stamp = t.stamp /\ ~b.whole /\ b.total = n
      /\ b.datagram = t.datagram /\ b.from = t.ptr /\ b.bytes = Chunk
  <2>1. Chunk \in Nat /\ t.at # "idle" /\ FALSE \in BOOLEAN
    BY <1>1, Tick0
  <2> QED
    BY <2>1, BundleIs, ZenonT(60)
<1>3. t.ptr \in Nat /\ t.open \in Nat /\ Chunk \in Nat /\ Chunk >= 1 /\ n \in Nat
  <2>1. t.datagram \in Datagrams
    BY <1>1 DEF TypeOK, Taken
  <2> QED
    <3>1. length[t.datagram] \in Nat
      BY <2>1 DEF TypeOK
    <3>2. t \in Tasks
      BY OutIs
    <3> HIDE DEF t
    <3>3. t.ptr \in Nat /\ t.open \in Nat
      BY <3>2 DEF Tasks
    <3>4. Chunk \in Nat /\ Chunk >= 1
      BY Tick0
    <3> QED
      BY <3>1, <3>3, <3>4 DEF t
<1>4. /\ ~BeforeStamp(t) /\ Cutting(t, n) /\ K = {t.stamp} /\ Working(t, n, K)
  BY <1>1 DEF Working, BeforeStamp
<1> HIDE DEF n, b, t, u
<1>5. /\ n >= Least /\ Multiple(t.ptr) /\ t.ptr + t.open = n /\ t.open >= 1 /\ t.open # Chunk
  BY <1>1, <1>4 DEF Cutting, ToLast
<1>7. t.open < Chunk => ~Multiple(n)
  <2> SUFFICES ASSUME t.open < Chunk, Multiple(n) PROVE FALSE
    OBVIOUS
  <2>1. t.ptr < n
    BY <1>3, <1>5
  <2>2. t.ptr + Chunk <= n
    BY <1>3, <1>5, <2>1, MultiplesApart
  <2> QED
    BY <1>3, <1>5, <2>2
<1>8. Multiple(n) => t.ptr + Chunk <= n
  BY <1>3, <1>5, <1>7
<1>9. Cut(b, n)
  <2>1. t.ptr < n + Chunk
    BY <1>3, <1>5
  <2> QED
    BY <1>2, <1>3, <1>5, <1>8, <2>1 DEF Cut
<1>10. u.ptr = b.from + b.bytes
  BY <1>1, <1>2
<1>11. /\ InOrder(u.out)
       /\ \A k \in 1 .. Len(u.out) :
             /\ Cut(u.out[k], n) /\ u.out[k].stamp = t.stamp /\ u.out[k].datagram = t.datagram
             /\ ~u.out[k].whole /\ u.out[k].from + u.out[k].bytes <= u.ptr
  <2>1. /\ ~BeforeStamp(task[w]) /\ Cutting(task[w], n) /\ Working(task[w], n, K)
        /\ b.stamp = task[w].stamp /\ b.datagram = task[w].datagram /\ b.from = task[w].ptr
        /\ u.out = Append(task[w].out, b) /\ u.ptr = b.from + b.bytes
    BY <1>1, <1>2, <1>4, <1>10 DEF t
  <2> QED
    <3>0. b \in Bundles /\ n \in Nat /\ ~b.whole /\ Cut(b, n)
      BY <1>2, <1>3, <1>9
    <3>1. LET q == Append(task[w].out, b) IN
           /\ InOrder(q)
           /\ \A k \in 1 .. Len(q) :
                 /\ Cut(q[k], n) /\ q[k].stamp = task[w].stamp
                 /\ q[k].datagram = task[w].datagram
                 /\ ~q[k].whole /\ q[k].from + q[k].bytes <= b.from + b.bytes
      BY ONLY TypeOK, w \in Workers, <3>0, <2>1, AppendWorks, Zenon
    <3> QED
      BY <2>1, <3>1 DEF t
<1>12. Multiple(u.ptr)
  BY <1>1, <1>3, <1>5, MultipleNext
<1>13. Cutting(u, n)
  <2>1. CASE t.open < Chunk
    <3>1. u.next = "last" /\ u.open = t.open
      BY <1>1, <1>3, <2>1
    <3>2. u.ptr + u.open = n + Chunk /\ u.open >= 1 /\ u.open <= Chunk
      BY <1>1, <1>3, <1>5, <2>1, <3>1
    <3> QED
      BY <1>1, <1>5, <1>7, <1>11, <1>12, <2>1, <3>1, <3>2 DEF Cutting, ToLast
  <2>2. CASE t.open >= Chunk
    <3>1. u.next = "loop" /\ u.open = t.open - Chunk
      BY <1>1, <1>3, <2>2
    <3>2. u.ptr + u.open = n /\ u.open >= 1
      BY <1>1, <1>3, <1>5, <2>2, <3>1
    <3> QED
      BY <1>1, <1>5, <1>11, <1>12, <3>1, <3>2 DEF Cutting, ToLast
  <2> QED
    BY <1>1, <2>1, <2>2
<1>14. ~BeforeStamp(u) /\ u.at = "load"
  BY <1>1 DEF BeforeStamp
<1>15. Working(u, n, K)
  BY <1>1, <1>4, <1>11, <1>13, <1>14 DEF Working
<1> QED
  BY <1>15 DEF u, n

LEMMA LastWorks ==
    ASSUME TypeOK, NEW w \in Workers, MakeLast(w), NEW K,
           Working(task[w], length[task[w].datagram], K)
    PROVE  Working(task'[w], length[task[w].datagram], K)
<1> DEFINE n == length[task[w].datagram]
<1> DEFINE b == Bundle(w, FALSE, task[w].open)
<1> DEFINE t == task[w]
<1> DEFINE u == task'[w]
<1>1. /\ t.at = "last" /\ u.at = "send"
      /\ u.datagram = t.datagram /\ u.stamp = t.stamp
      /\ u.out = Append(t.out, b)
  BY MakeLastTask
<1>2. t.ptr \in Nat /\ t.open \in Nat /\ Chunk \in Nat /\ Chunk >= 1 /\ n \in Nat
  <2>1. t.datagram \in Datagrams
    BY <1>1 DEF TypeOK, Taken
  <2> QED
    <3>1. length[t.datagram] \in Nat
      BY <2>1 DEF TypeOK
    <3>2. t \in Tasks
      BY OutIs
    <3> HIDE DEF t
    <3>3. t.ptr \in Nat /\ t.open \in Nat
      BY <3>2 DEF Tasks
    <3>4. Chunk \in Nat /\ Chunk >= 1
      BY Tick0
    <3> QED
      BY <3>1, <3>3, <3>4 DEF t
<1>3. /\ b \in Bundles /\ b.stamp = t.stamp /\ ~b.whole /\ b.total = n
      /\ b.datagram = t.datagram /\ b.from = t.ptr /\ b.bytes = t.open
  <2>1. t.open \in Nat /\ t.at # "idle" /\ FALSE \in BOOLEAN
    BY <1>1, <1>2
  <2> QED
    BY <2>1, BundleIs, ZenonT(60)
<1>4. /\ ~BeforeStamp(t) /\ Cutting(t, n) /\ K = {t.stamp} /\ Working(t, n, K)
  BY <1>1 DEF Working, BeforeStamp
<1> HIDE DEF n, b, t, u
<1>5. /\ n >= Least /\ Multiple(t.ptr)
      /\ \/ t.open = Chunk /\ t.ptr + t.open = n
         \/ t.open >= 1 /\ t.open <= Chunk /\ t.ptr + t.open = n + Chunk /\ ~Multiple(n)
  BY <1>1, <1>4 DEF Cutting, ToLast
<1>6. Cut(b, n)
  <2>1. t.ptr < n + Chunk /\ t.open >= 1 /\ t.open <= Chunk
    BY <1>2, <1>5
  <2>2. Multiple(n) => t.ptr + t.open <= n
    BY <1>2, <1>5
  <2> QED
    BY <1>3, <1>5, <2>1, <2>2 DEF Cut
<1>8. /\ InOrder(u.out)
      /\ \A k \in 1 .. Len(u.out) :
            Cut(u.out[k], n) /\ u.out[k].stamp = t.stamp /\ u.out[k].datagram = t.datagram
  <2>1. /\ ~BeforeStamp(task[w]) /\ Cutting(task[w], n) /\ Working(task[w], n, K)
        /\ b.stamp = task[w].stamp /\ b.datagram = task[w].datagram /\ b.from = task[w].ptr
        /\ u.out = Append(task[w].out, b)
    BY <1>1, <1>3, <1>4 DEF t
  <2> QED
    <3>0. b \in Bundles /\ n \in Nat /\ ~b.whole /\ Cut(b, n)
      BY <1>2, <1>3, <1>6
    <3>1. LET q == Append(task[w].out, b) IN
           /\ InOrder(q)
           /\ \A k \in 1 .. Len(q) :
                 /\ Cut(q[k], n) /\ q[k].stamp = task[w].stamp
                 /\ q[k].datagram = task[w].datagram
                 /\ ~q[k].whole /\ q[k].from + q[k].bytes <= b.from + b.bytes
      BY ONLY TypeOK, w \in Workers, <3>0, <2>1, AppendWorks, Zenon
    <3> QED
      BY <2>1, <3>1 DEF t
<1>9. ~BeforeStamp(u) /\ u.at = "send"
  BY <1>1 DEF BeforeStamp
<1>10. Working(u, n, K)
  BY <1>1, <1>4, <1>8, <1>9 DEF Working
<1> QED
  BY <1>10 DEF u, n

LEMMA NextWorks == TypeOK /\ Separate /\ Works /\ [Next]_vars => Works'
<1> SUFFICES ASSUME TypeOK, Separate, Works, [Next]_vars PROVE Works'
  OBVIOUS
<1>1. ASSUME NEW w \in Workers, NEW d \in Datagrams, NEW size \in Sizes, Begin(w, d, size)
      PROVE  Works'
  <2>1. /\ Others(w) /\ task'[w].at = "load" /\ task'[w].next = "stamp"
        /\ task'[w].datagram = d /\ task'[w].ptr = 0 /\ task'[w].open = size
        /\ task'[w].out = <<>>
    BY <1>1, BeginTask
  <2>2. /\ length[d] = 0 /\ length'[d] = size /\ size \in Nat /\ size >= 1
        /\ \A e \in Datagrams \ {d} : length'[e] = length[e]
    BY <1>1, BeginIs
  <2>3. keys' = keys
    BY <1>1 DEF Begin
  <2>4. Working(task'[w], size, keys'[d])
    <3>1. keys'[d] = {} /\ Len(<<>>) = 0
      BY <2>2, <2>3, EmptySeq DEF Works
    <3> QED
      BY <2>1, <3>1 DEF Working, BeforeStamp, InOrder
  <2>5. ASSUME NEW v \in Workers \ {w}, task'[v].at # "idle"
        PROVE  Working(task'[v], length'[task'[v].datagram], keys'[task'[v].datagram])
    <3>1. task'[v] = task[v]
      BY <2>1 DEF Others
    <3>2. task[v].datagram \in Datagrams \ {d}
      BY <2>2, <2>5, <3>1 DEF TypeOK, Taken, Separate
    <3> QED
      BY <2>2, <2>3, <2>5, <3>1, <3>2 DEF Works
  <2>6. \A e \in Datagrams : length'[e] = 0 => keys'[e] = {}
    BY <2>2, <2>3 DEF Works
  <2> QED
    BY <2>1, <2>2, <2>4, <2>5, <2>6 DEF Works
<1>2. ASSUME NEW w \in Workers, Pack(w) PROVE Works'
  <2> DEFINE d == task[w].datagram
  <2>1. /\ Others(w) /\ task[w].at # "idle" /\ UNCHANGED <<length, overlapped>>
        /\ task'[w] = Idle \/ (task'[w].datagram = task[w].datagram /\ task'[w].at # "idle")
    BY <1>2, PackIs
  <2>2. /\ d \in Datagrams /\ length[d] \in Nat /\ length[d] >= 1
        /\ Working(task[w], length[d], keys[d])
    BY <2>1 DEF TypeOK, Taken, Separate, Works
  <2>3. \A e \in Datagrams \ {d} : keys'[e] = keys[e]
    <3>1. CASE Stamp(w)
      BY <3>1 DEF Stamp, TypeOK
    <3>2. CASE ~Stamp(w)
      BY <1>2, <3>2 DEF Pack, Load, Store, MakeWhole, MakeChunk, MakeLast, SendAll
    <3> QED
      BY <3>1, <3>2
  <2>4. task'[w] = Idle \/ Working(task'[w], length[d], keys'[d])
    <3>1. CASE Stamp(w)
      <4>1. keys'[d] = {now} /\ task[w].at = "stamp"
        BY <2>2, <3>1 DEF Stamp, TypeOK
      <4>2. keys[d] = {}
        BY <2>2, <4>1 DEF Working, BeforeStamp
      <4> QED
        BY <2>2, <3>1, <4>1, <4>2, StampWorks
    <3>2. CASE Load(w) \/ Store(w)
      BY <2>2, <3>2, CountWorks DEF Load, Store
    <3>3. CASE MakeWhole(w)
      BY <2>2, <3>3, WholeWorks DEF MakeWhole
    <3>4. CASE MakeChunk(w)
      BY <2>2, <3>4, ChunkWorks DEF MakeChunk
    <3>5. CASE MakeLast(w)
      BY <2>2, <3>5, LastWorks DEF MakeLast
    <3>6. CASE SendAll(w)
      BY <3>6, SendAllTask
    <3> QED
      BY <1>2, <3>1, <3>2, <3>3, <3>4, <3>5, <3>6 DEF Pack
  <2>5. ASSUME NEW v \in Workers \ {w}, task'[v].at # "idle"
        PROVE  Working(task'[v], length'[task'[v].datagram], keys'[task'[v].datagram])
    <3>1. task'[v] = task[v]
      BY <2>1 DEF Others
    <3>2. task[v].datagram \in Datagrams \ {d}
      BY <2>1, <2>5, <3>1 DEF TypeOK, Taken, Separate
    <3> QED
      BY <2>1, <2>3, <2>5, <3>1, <3>2 DEF Works
  <2>6. \A e \in Datagrams : length'[e] = 0 => keys'[e] = {}
    <3> SUFFICES ASSUME NEW e \in Datagrams, length[e] = 0 PROVE keys'[e] = {}
      BY <2>1
    <3>1. e # d
      BY <2>2
    <3> QED
      BY <2>3, <3>1 DEF Works
  <2> HIDE DEF d
  <2>7. task'[w].at # "idle" => Working(task'[w], length'[d], keys'[d]) /\ task'[w].datagram = d
    BY <2>1, <2>4, IdleIs DEF d
  <2> QED
    BY <2>5, <2>6, <2>7 DEF Works
<1>3. CASE UNCHANGED <<task, length, keys>>
  BY <1>3 DEF Works
<1> QED
  BY <1>1, <1>2, <1>3, Steps DEF Tick, Receive, vars, sender

LEMMA InitWorks == Init => Works
  BY IdleIs DEF Init, SenderInit, Works

-----------------------------------------------------------------------------
(* The bundles that have been sent, and where they are.                    *)

Held == (UNION {ToSet(entries[t]) : t \in 0 .. MaxTime})
           \cup (UNION {ToSet(forwarded[n]) : n \in DOMAIN forwarded})

Sent == DOMAIN network \cup Held

(* Later bundles carry later bytes, and a number belongs to one bundle. *)
Follow(b, c) ==
    /\ b.number < c.number => b.from + b.bytes <= c.from
    /\ b.number = c.number => b = c

(* A worker sends its bundles one after the other, the first ones first. *)
Behind(t, b) ==
    /\ t.at = "send"
    /\ Lone(t.datagram) => \A k \in 1 .. Len(t.out) :
          b.number < t.out[k].number /\ b.from + b.bytes <= t.out[k].from

Sendings ==
    /\ \A b \in Sent :
          /\ length[b.datagram] >= 1 /\ keys[b.datagram] = {b.stamp}
          /\ Cut(b, length[b.datagram])
    /\ \A b, c \in Sent : (b.datagram = c.datagram /\ Lone(b.datagram)) => Follow(b, c)
    /\ \A w \in Workers : task[w].at # "idle" =>
          \A b \in Sent : b.datagram = task[w].datagram => Behind(task[w], b)

LEMMA InQueue ==
    ASSUME NEW q \in Seq(Bundles), NEW k \in 1 .. Len(q)
    PROVE  q[k] \in ToSet(q) /\ q[k] \in Bundles
<1>1. Len(q) \in Nat /\ DOMAIN q = 1 .. Len(q)
  BY LenProperties
<1> QED
  BY <1>1, ElementOfSeq DEF ToSet

LEMMA OfQueue ==
    ASSUME NEW q \in Seq(Bundles), NEW b \in ToSet(q)
    PROVE  b \in Bundles /\ \E k \in 1 .. Len(q) : q[k] = b
<1>1. Len(q) \in Nat /\ DOMAIN q = 1 .. Len(q)
  BY LenProperties
<1>2. PICK k \in 1 .. Len(q) : q[k] = b
  BY <1>1 DEF ToSet
<1> QED
  BY <1>2, InQueue

LEMMA HeldIs ==
    /\ \A b : b \in Held <=> \/ \E t \in 0 .. MaxTime : b \in ToSet(entries[t])
                            \/ \E n \in DOMAIN forwarded : b \in ToSet(forwarded[n])
    /\ \A b : b \in Held' <=> \/ \E t \in 0 .. MaxTime : b \in ToSet(entries'[t])
                             \/ \E n \in DOMAIN forwarded' : b \in ToSet(forwarded'[n])
<1>1. \A b : b \in Held <=> \/ \E t \in 0 .. MaxTime : b \in ToSet(entries[t])
                          \/ \E n \in DOMAIN forwarded : b \in ToSet(forwarded[n])
  BY DEF Held
<1>2. \A b : b \in Held' <=> \/ \E t \in 0 .. MaxTime : b \in ToSet(entries'[t])
                           \/ \E n \in DOMAIN forwarded' : b \in ToSet(forwarded'[n])
  BY DEF Held
<1> QED
  BY <1>1, <1>2

LEMMA SentBundles ==
    ASSUME TypeOK
    PROVE  /\ Sent \in SUBSET Bundles
           /\ \A b \in Sent : b.datagram \in Datagrams /\ length[b.datagram] \in Nat
<1>1. \A t \in 0 .. MaxTime : ToSet(entries[t]) \in SUBSET Bundles
  <2>1. \A t \in 0 .. MaxTime : entries[t] \in Seq(Bundles)
    BY DEF TypeOK
  <2> QED
    BY <2>1, OfQueue
<1>2. \A n \in DOMAIN forwarded : ToSet(forwarded[n]) \in SUBSET Bundles
  <2>1. \A n \in DOMAIN forwarded : forwarded[n] \in Seq(Bundles)
    BY LenProperties, ElementOfSeq DEF TypeOK
  <2> QED
    BY <2>1, OfQueue
<1>3. Sent \in SUBSET Bundles
  <2>1. Held \in SUBSET Bundles
    BY <1>1, <1>2, HeldIs
  <2> QED
    BY <2>1 DEF Sent, TypeOK
<1>4. \A b \in Bundles : b.datagram \in Datagrams
  BY DEF Bundles
<1> QED
  BY <1>3, <1>4 DEF TypeOK

(* What the receiver gets it has from the network. *)
LEMMA ReceiveSent ==
    ASSUME TypeOK, NEW b \in BagToSet(network), Receive(b)
    PROVE  Sent' \in SUBSET Sent
<1>1. b \in Bundles /\ b \in DOMAIN network /\ DOMAIN network' \in SUBSET DOMAIN network
  BY ReceiveNetwork DEF TypeOK, BagToSet
<1>2. Held' \subseteq Held \cup {b}
  <2>1. CASE PushWhole(b)
    <3>1. forwarded \in Seq(Seq(Bundles)) /\ <<b>> \in Seq(Bundles)
      BY <1>1 DEF TypeOK
    <3>2. forwarded' = Append(forwarded, <<b>>) /\ entries' = entries
      BY <2>1 DEF PushWhole
    <3>3. \A n \in DOMAIN forwarded' :
              (n \in DOMAIN forwarded /\ forwarded'[n] = forwarded[n]) \/ forwarded'[n] = <<b>>
      BY <3>1, <3>2, AppendProperties, LenProperties
    <3>4. ToSet(<<b>>) = {b}
      BY DEF ToSet
    <3> QED
      BY <3>2, <3>3, <3>4, HeldIs
  <2>2. CASE PushKnown(b)
    BY <2>2 DEF PushKnown, receiver, Held
  <2>3. CASE PushFragment(b)
    <3> DEFINE q == entries[b.stamp]
    <3>1. /\ b.stamp \in 0 .. MaxTime /\ q \in Seq(Bundles)
          /\ \/ forwarded' = Append(forwarded, Insert(q, b)) /\ entries' = [entries EXCEPT ![b.stamp] = <<>>]
             \/ forwarded' = forwarded /\ entries' = [entries EXCEPT ![b.stamp] = Insert(q, b)]
      BY <1>1, <2>3, ReceiverIs
    <3>2. Insert(q, b) \in Seq(Bundles) /\ ToSet(Insert(q, b)) = ToSet(q) \cup {b}
      BY <1>1, <3>1, InsertIs, InsertSet
    <3>3. ToSet(<<>>) = {}
      BY DEF ToSet
    <3>4. forwarded \in Seq(Seq(Bundles)) /\ entries \in [0 .. MaxTime -> Seq(Bundles)]
      BY DEF TypeOK
    <3>5. \A t \in 0 .. MaxTime : ToSet(entries'[t]) \subseteq ToSet(entries[t]) \cup {b}
      BY <3>1, <3>2, <3>3, <3>4
    <3>6. \A n \in DOMAIN forwarded' :
              \/ n \in DOMAIN forwarded /\ forwarded'[n] = forwarded[n]
              \/ forwarded'[n] = Insert(q, b)
      <4>1. CASE forwarded' = Append(forwarded, Insert(q, b))
        BY <3>2, <3>4, <4>1, AppendProperties, LenProperties
      <4> QED
        BY <3>1, <4>1
    <3>7. ToSet(q) \subseteq Held
      BY <3>1 DEF Held
    <3>8. \A n \in DOMAIN forwarded' : ToSet(forwarded'[n]) \subseteq Held \cup {b}
      BY <3>2, <3>6, <3>7, HeldIs
    <3>9. \A t \in 0 .. MaxTime : ToSet(entries'[t]) \subseteq Held \cup {b}
      BY <3>5 DEF Held
    <3> QED
      BY <3>8, <3>9, HeldIs
  <2> QED
    BY <2>1, <2>2, <2>3 DEF Receive
<1> QED
  BY <1>1, <1>2 DEF Sent

(* What a worker sends follows what it sent before. *)
LEMMA MoreSent ==
    ASSUME TypeOK, Separate, Numbers, Works, Sendings,
           NEW w \in Workers, Others(w), task[w].at = "send",
           UNCHANGED <<length, overlapped, keys>>,
           Sent' \subseteq Sent \cup ToSet(task[w].out),
           \/ task'[w] = Idle
           \/ \A b \in Sent' : b.datagram = task'[w].datagram => Behind(task'[w], b)
    PROVE  Sendings'
<1> DEFINE q == task[w].out
<1> DEFINE d == task[w].datagram
<1>1. Sent' \subseteq Sent \cup ToSet(q)
  OBVIOUS
<1>2. UNCHANGED <<length, overlapped, keys>>
  OBVIOUS
<1>4. /\ q \in Seq(Bundles) /\ d \in Datagrams
      /\ \A k \in 1 .. Len(q) : q[k].from \in Nat /\ q[k].bytes \in Nat /\ q[k].number \in Nat
  <2>1. q \in Seq(Bundles) /\ \A k \in 1 .. Len(q) : q[k] \in Bundles
    BY OutIs
  <2>2. d \in Datagrams
    BY DEF TypeOK, Taken
  <2> QED
    BY <2>1, <2>2 DEF Bundles
<1>5. /\ length[d] >= 1 /\ \A v \in Workers \ {w} : task[v].datagram # d
      /\ keys[d] = {task[w].stamp} /\ InOrder(q)
      /\ \A k \in 1 .. Len(q) :
            Cut(q[k], length[d]) /\ q[k].stamp = task[w].stamp /\ q[k].datagram = d
      /\ Lone(d) => Sorted(q)
      /\ \A b \in Sent : b.datagram = d => Behind(task[w], b)
  BY DEF Separate, Works, Working, BeforeStamp, Numbers, Numbered, Sendings
<1>6. \A b \in ToSet(q) : /\ b.datagram = d /\ keys[d] = {b.stamp} /\ Cut(b, length[d])
                          /\ \E k \in 1 .. Len(q) : q[k] = b
  BY <1>4, <1>5, OfQueue
<1>7. ASSUME NEW b \in ToSet(q), NEW c \in ToSet(q), Lone(d) PROVE Follow(b, c)
  <2>1. PICK j \in 1 .. Len(q) : q[j] = b
    BY <1>6
  <2>2. PICK k \in 1 .. Len(q) : q[k] = c
    BY <1>6
  <2>3. j \in Nat /\ k \in Nat
    BY <1>4, LenProperties
  <2>4. /\ b.number \in Nat /\ c.number \in Nat
        /\ j < k => b.number < c.number /\ b.from + b.bytes <= c.from
        /\ k < j => c.number < b.number
    BY <1>4, <1>5, <1>7, <2>1, <2>2 DEF Sorted, InOrder
  <2>5. CASE j < k
    BY <2>4, <2>5 DEF Follow
  <2>6. CASE k < j
    BY <2>4, <2>6 DEF Follow
  <2>7. CASE j = k
    BY <2>1, <2>2, <2>4, <2>7 DEF Follow
  <2> QED
    BY <2>3, <2>5, <2>6, <2>7
<1>8. ASSUME NEW b \in Sent, NEW c \in ToSet(q), b.datagram = d, Lone(d)
      PROVE  Follow(b, c) /\ Follow(c, b)
  <2>1. PICK k \in 1 .. Len(q) : q[k] = c
    BY <1>6
  <2>2. b.number < c.number /\ b.from + b.bytes <= c.from
    BY <1>5, <1>8, <2>1 DEF Behind
  <2>3. b.number \in Nat /\ c.number \in Nat
    BY <1>4, <2>1, SentBundles DEF Bundles
  <2> QED
    BY <2>2, <2>3 DEF Follow
<1> HIDE DEF q
<1>9. \A b \in Sent' : /\ length[b.datagram] >= 1 /\ keys[b.datagram] = {b.stamp}
                       /\ Cut(b, length[b.datagram])
  BY <1>1, <1>5, <1>6 DEF Sendings
<1>10. \A b, c \in Sent' : (b.datagram = c.datagram /\ Lone(b.datagram)) => Follow(b, c)
  BY <1>1, <1>5, <1>6, <1>7, <1>8 DEF Sendings
<1>11. ASSUME NEW v \in Workers \ {w}, task'[v].at # "idle", NEW b \in Sent',
              b.datagram = task'[v].datagram
       PROVE  Behind(task'[v], b)
  <2>1. task'[v] = task[v]
    BY DEF Others
  <2>2. task[v].datagram # d
    BY <1>5
  <2>3. b \in Sent
    BY <1>1, <1>6, <1>11, <2>1, <2>2
  <2>4. Behind(task[v], b)
    BY <1>11, <2>1, <2>3 DEF Sendings
  <2> QED
    BY <1>2, <2>1, <2>4 DEF Behind, Lone
<1>12. task'[w].at # "idle" => \A b \in Sent' : b.datagram = task'[w].datagram => Behind(task'[w], b)
  BY IdleIs
<1> QED
  BY <1>2, <1>9, <1>10, <1>11, <1>12 DEF Sendings, Lone, Behind

LEMMA SendAllSendings ==
    ASSUME TypeOK, Separate, Numbers, Works, Sendings,
           NEW w \in Workers, SendAll(w), UNCHANGED receiver
    PROVE  Sendings'
<1>1. /\ Others(w) /\ task[w].at = "send" /\ task'[w] = Idle
      /\ DOMAIN network' = DOMAIN network \cup ToSet(task[w].out)
  BY SendAllTask
<1>2. UNCHANGED <<length, overlapped, keys>>
  BY DEF SendAll
<1>3. Sent' = Sent \cup ToSet(task[w].out)
  BY <1>1 DEF Sent, Held, receiver
<1> QED
  BY <1>1, <1>2, <1>3, MoreSent

LEMMA NextSendings ==
    TypeOK /\ Separate /\ Numbers /\ Works /\ Sendings /\ [Next]_vars => Sendings'
<1> SUFFICES ASSUME TypeOK, Separate, Numbers, Works, Sendings, [Next]_vars PROVE Sendings'
  OBVIOUS
<1>1. ASSUME NEW w \in Workers, NEW d \in Datagrams, NEW size \in Sizes,
             Begin(w, d, size), UNCHANGED receiver
      PROVE  Sendings'
  <2>1. /\ Others(w) /\ task'[w].datagram = d
    BY <1>1, BeginTask
  <2>2. /\ length[d] = 0 /\ overlapped \subseteq overlapped'
        /\ \A e \in Datagrams \ {d} : length'[e] = length[e]
    BY <1>1, BeginIs
  <2>3. keys' = keys /\ Sent' = Sent
    BY <1>1 DEF Begin, receiver, Sent, Held
  <2>4. \A b \in Sent : b.datagram \in Datagrams \ {d}
    BY <2>2, SentBundles DEF Sendings
  <2>5. \A v \in Workers \ {w} : task'[v] = task[v]
    BY <2>1 DEF Others
  <2> QED
    BY <2>1, <2>2, <2>3, <2>4, <2>5 DEF Sendings, Lone, Behind
<1>2. ASSUME NEW w \in Workers, Pack(w), ~SendAll(w), UNCHANGED receiver PROVE Sendings'
  <2>1. /\ Others(w) /\ task[w].at # "idle" /\ UNCHANGED <<length, overlapped, network>>
        /\ task'[w].datagram = task[w].datagram
    BY <1>2, PackIs
  <2>2. Sent' = Sent
    BY <1>2, <2>1 DEF receiver, Sent, Held
  <2>3. \A b \in Sent : b.datagram # task[w].datagram /\ b.datagram \in Datagrams
    <3>1. task[w].at # "send"
      BY <1>2 DEF Pack, Load, Store, Stamp, MakeWhole, MakeChunk, MakeLast
    <3> QED
      BY <2>1, <3>1, SentBundles DEF Sendings, Behind
  <2>4. \A b \in Sent : keys'[b.datagram] = keys[b.datagram]
    <3>1. CASE Stamp(w)
      BY <2>3, <3>1 DEF Stamp, TypeOK
    <3>2. CASE ~Stamp(w)
      BY <1>2, <3>2 DEF Pack, Load, Store, MakeWhole, MakeChunk, MakeLast
    <3> QED
      BY <3>1, <3>2
  <2>5. \A v \in Workers \ {w} : task'[v] = task[v]
    BY <2>1 DEF Others
  <2> QED
    BY <2>1, <2>2, <2>3, <2>4, <2>5 DEF Sendings, Lone, Behind
<1>3. ASSUME Sent' \in SUBSET Sent, UNCHANGED <<task, length, keys, overlapped>>
      PROVE  Sendings'
  BY <1>3 DEF Sendings, Lone, Behind
<1>4. ASSUME NEW b \in BagToSet(network), Receive(b) PROVE Sendings'
  BY <1>3, <1>4, ReceiveSent DEF Receive
<1>5. CASE Tick /\ UNCHANGED receiver
  <2>1. Sent' = Sent
    BY <1>5 DEF Tick, receiver, Sent, Held
  <2> QED
    BY <1>3, <1>5, <2>1 DEF Tick
<1>6. CASE UNCHANGED vars
  <2>1. Sent' = Sent
    BY <1>6 DEF vars, sender, receiver, Sent, Held
  <2> QED
    BY <1>3, <1>6, <2>1 DEF vars, sender
<1>7. CASE \E w \in Workers : Pack(w) /\ UNCHANGED receiver
  BY <1>2, <1>7, SendAllSendings
<1> QED
  BY <1>1, <1>4, <1>5, <1>6, <1>7, Steps

LEMMA InitSendings == Init => Sendings
<1> SUFFICES ASSUME Init PROVE Sendings
  OBVIOUS
<1>1. Sent = {}
  BY DEF Init, SenderInit, Sent, Held, EmptyBag, SetToBag, ToSet
<1> QED
  BY <1>1 DEF Sendings

-----------------------------------------------------------------------------
(* What the receiver holds and what it has forwarded.                      *)

FragmentKeys(q) == {Key(b) : b \in {c \in ToSet(q) : ~c.whole}}

(* Fragments of one time stamp in the order of their numbers. *)
Queue(q, t) == Sorted(q) /\ \A k \in 1 .. Len(q) : ~q[k].whole /\ q[k].stamp = t

WholeOut(f) == \E b \in Bundles : f = <<b>> /\ b.whole

FragmentsOut(f) ==
    /\ Len(f) >= 2 /\ Queue(f, f[1].stamp)
    /\ \E b \in ToSet(f) : Bytes(f) >= b.total

(* No fragment is in two places, and a fragment not seen is in none. *)
Received ==
    /\ \A t \in 0 .. MaxTime : Queue(entries[t], t) /\ FragmentKeys(entries[t]) \subseteq seen
    /\ \A n \in DOMAIN forwarded :
          /\ WholeOut(forwarded[n]) \/ FragmentsOut(forwarded[n])
          /\ FragmentKeys(forwarded[n]) \subseteq seen
          /\ \A t \in 0 .. MaxTime : FragmentKeys(forwarded[n]) \cap FragmentKeys(entries[t]) = {}
          /\ \A m \in DOMAIN forwarded \ {n} :
                FragmentKeys(forwarded[n]) \cap FragmentKeys(forwarded[m]) = {}

LEMMA NoKeys == FragmentKeys(<<>>) = {} /\ \A t : Queue(<<>>, t)
<1>1. ToSet(<<>>) = {} /\ Len(<<>>) = 0
  BY EmptySeq DEF ToSet
<1> QED
  BY <1>1 DEF FragmentKeys, Queue, Sorted

LEMMA KeyIs ==
    ASSUME NEW q \in Seq(Bundles), NEW k \in 1 .. Len(q), ~q[k].whole
    PROVE  Key(q[k]) \in FragmentKeys(q)
  BY InQueue DEF FragmentKeys

(* A fragment that was not seen, put into its place. *)
LEMMA InsertQueue ==
    ASSUME NEW t, NEW q \in Seq(Bundles), Queue(q, t), FragmentKeys(q) \subseteq seen,
           NEW b \in Bundles, ~b.whole, b.stamp = t, Key(b) \notin seen
    PROVE  /\ Queue(Insert(q, b), t)
           /\ FragmentKeys(Insert(q, b)) = FragmentKeys(q) \cup {Key(b)}
<1> DEFINE f == Insert(q, b)
<1>1. f \in Seq(Bundles) /\ ToSet(f) = ToSet(q) \cup {b}
  BY InsertIs, InsertSet
<1>2. \A k \in 1 .. Len(q) : q[k].number # b.number
  <2> SUFFICES ASSUME NEW k \in 1 .. Len(q), q[k].number = b.number PROVE FALSE
    OBVIOUS
  <2>1. Key(q[k]) \in seen /\ q[k].stamp = t
    BY KeyIs DEF Queue
  <2>2. Key(q[k]) = Key(b)
    BY <2>1 DEF Key
  <2> QED
    BY <2>1, <2>2
<1>3. Sorted(f)
  BY <1>2, InsertSorted DEF Queue
<1> HIDE DEF f
<1>4. ASSUME NEW k \in 1 .. Len(f) PROVE ~f[k].whole /\ f[k].stamp = t
  <2>1. f[k] \in ToSet(q) \cup {b}
    BY <1>1, InQueue
  <2>2. ASSUME f[k] \in ToSet(q) PROVE ~f[k].whole /\ f[k].stamp = t
    BY <2>2, OfQueue DEF Queue
  <2> QED
    BY <2>1, <2>2
<1>5. FragmentKeys(f) = FragmentKeys(q) \cup {Key(b)}
  BY <1>1 DEF FragmentKeys
<1> QED
  BY <1>3, <1>4, <1>5 DEF Queue, f

(* Fragments with two time stamps have no key in common. *)
LEMMA StampsApart ==
    ASSUME NEW t, NEW u, t # u, NEW p \in Seq(Bundles), NEW q \in Seq(Bundles),
           Queue(p, t), Queue(q, u)
    PROVE  FragmentKeys(p) \cap FragmentKeys(q) = {}
<1>1. \A b \in ToSet(p) : Key(b)[1] = t
  BY OfQueue DEF Queue, Key
<1>2. \A b \in ToSet(q) : Key(b)[1] = u
  BY OfQueue DEF Queue, Key
<1> QED
  BY <1>1, <1>2 DEF FragmentKeys

LEMMA WholeReceived ==
    ASSUME TypeOK, Received, NEW b \in Bundles, PushWhole(b)
    PROVE  Received'
<1>1. /\ forwarded \in Seq(Seq(Bundles)) /\ <<b>> \in Seq(Bundles)
      /\ forwarded' = Append(forwarded, <<b>>) /\ entries' = entries /\ seen' = seen /\ b.whole
  BY DEF TypeOK, PushWhole
<1>2. \A n \in DOMAIN forwarded' :
          (n \in DOMAIN forwarded /\ forwarded'[n] = forwarded[n]) \/ forwarded'[n] = <<b>>
  BY <1>1, AppendProperties, LenProperties
<1>3. FragmentKeys(<<b>>) = {} /\ WholeOut(<<b>>)
  <2>1. ToSet(<<b>>) = {b}
    BY DEF ToSet
  <2>2. WholeOut(<<b>>)
    BY <1>1 DEF WholeOut
  <2> QED
    BY <1>1, <2>1, <2>2 DEF FragmentKeys
<1> QED
  BY <1>1, <1>2, <1>3 DEF Received

LEMMA FragmentReceived ==
    ASSUME TypeOK, Received, NEW b \in Bundles, PushFragment(b)
    PROVE  Received'
<1> DEFINE t == b.stamp
<1> DEFINE q == entries[t]
<1> DEFINE f == Insert(q, b)
<1>1. /\ ~b.whole /\ Key(b) \notin seen /\ seen' = seen \cup {Key(b)}
      /\ t \in 0 .. MaxTime /\ q \in Seq(Bundles)
      /\ \/ /\ Complete(q, b)
            /\ forwarded' = Append(forwarded, f)
            /\ entries' = [entries EXCEPT ![t] = <<>>]
         \/ /\ forwarded' = forwarded
            /\ entries' = [entries EXCEPT ![t] = f]
  BY ReceiverIs
<1>2. /\ Queue(q, t) /\ FragmentKeys(q) \subseteq seen
      /\ forwarded \in Seq(Seq(Bundles)) /\ entries \in [0 .. MaxTime -> Seq(Bundles)]
      /\ \A u \in 0 .. MaxTime : entries[u] \in Seq(Bundles) /\ Queue(entries[u], u)
  BY <1>1 DEF Received, TypeOK
<1>3. f \in Seq(Bundles) /\ Queue(f, t) /\ FragmentKeys(f) = FragmentKeys(q) \cup {Key(b)}
  <2>1. f \in Seq(Bundles)
    BY <1>1, InsertIs
  <2>2. b.stamp = t
    OBVIOUS
  <2> HIDE DEF q, t
  <2>3. Queue(Insert(q, b), t) /\ FragmentKeys(Insert(q, b)) = FragmentKeys(q) \cup {Key(b)}
    BY <1>1, <1>2, <2>2, InsertQueue, Zenon
  <2> QED
    BY <2>1, <2>3
<1>4. \A u \in 0 .. MaxTime \ {t} : FragmentKeys(f) \cap FragmentKeys(entries[u]) = {}
  BY <1>1, <1>2, <1>3, StampsApart
<1>5. Complete(q, b) => FragmentsOut(f)
  <2> SUFFICES ASSUME Complete(q, b) PROVE FragmentsOut(f)
    OBVIOUS
  <2>1. Bytes(f) >= b.total /\ b \in ToSet(f) /\ Len(f) = Len(q) + 1
    BY <1>1, CompleteBytes, InsertSet, InsertIs, ZenonT(60)
  <2>2. Len(f) >= 2 /\ 1 \in 1 .. Len(f)
    <3>1. Len(q) \in Nat /\ Len(q) # 0
      BY <1>1, LenProperties, EmptySeq DEF Complete
    <3> HIDE DEF f, q
    <3> QED
      BY <2>1, <3>1
  <2> HIDE DEF f
  <2>3. f[1].stamp = t
    BY <1>3, <2>2 DEF Queue
  <2> QED
    BY <1>3, <2>1, <2>2, <2>3 DEF FragmentsOut
<1> HIDE DEF q, f, t
<1>6. \A n \in DOMAIN forwarded :
          FragmentKeys(forwarded[n]) \cap FragmentKeys(f) = {}
  BY <1>1, <1>3 DEF Received, q
<1>7. CASE Complete(q, b) /\ forwarded' = Append(forwarded, f) /\ entries' = [entries EXCEPT ![t] = <<>>]
  <2>1. \A n \in DOMAIN forwarded' :
            \/ n \in DOMAIN forwarded /\ forwarded'[n] = forwarded[n]
            \/ n = Len(forwarded) + 1 /\ forwarded'[n] = f
    BY <1>2, <1>3, <1>7, AppendProperties, LenProperties
  <2>2. \A u \in 0 .. MaxTime : \/ u = t /\ entries'[u] = <<>>
                                \/ u # t /\ entries'[u] = entries[u]
    BY <1>2, <1>7
  <2>3. \A u \in 0 .. MaxTime : Queue(entries'[u], u) /\ FragmentKeys(entries'[u]) \subseteq seen'
    BY <1>1, <2>2, NoKeys DEF Received
  <2>4. ASSUME NEW n \in DOMAIN forwarded'
        PROVE  /\ WholeOut(forwarded'[n]) \/ FragmentsOut(forwarded'[n])
               /\ FragmentKeys(forwarded'[n]) \subseteq seen'
    BY <1>1, <1>2, <1>3, <1>5, <1>7, <2>1 DEF Received
  <2>5. ASSUME NEW n \in DOMAIN forwarded', NEW u \in 0 .. MaxTime
        PROVE  FragmentKeys(forwarded'[n]) \cap FragmentKeys(entries'[u]) = {}
    BY <1>4, <2>1, <2>2, NoKeys DEF Received
  <2>6. ASSUME NEW n \in DOMAIN forwarded', NEW m \in DOMAIN forwarded' \ {n}
        PROVE  FragmentKeys(forwarded'[n]) \cap FragmentKeys(forwarded'[m]) = {}
    <3>1. \/ n \in DOMAIN forwarded /\ forwarded'[n] = forwarded[n]
          \/ n = Len(forwarded) + 1 /\ forwarded'[n] = f
      BY <2>1
    <3>2. \/ m \in DOMAIN forwarded /\ forwarded'[m] = forwarded[m]
          \/ m = Len(forwarded) + 1 /\ forwarded'[m] = f
      BY <2>1
    <3> QED
      BY <1>6, <3>1, <3>2 DEF Received
  <2> QED
    BY <2>3, <2>4, <2>5, <2>6 DEF Received
<1>8. CASE forwarded' = forwarded /\ entries' = [entries EXCEPT ![t] = f]
  <2>1. \A u \in 0 .. MaxTime : \/ u = t /\ entries'[u] = f
                                \/ u # t /\ entries'[u] = entries[u]
    BY <1>2, <1>8
  <2>2. \A u \in 0 .. MaxTime : Queue(entries'[u], u) /\ FragmentKeys(entries'[u]) \subseteq seen'
    BY <1>1, <1>2, <1>3, <2>1 DEF Received
  <2>3. ASSUME NEW n \in DOMAIN forwarded, NEW u \in 0 .. MaxTime
        PROVE  FragmentKeys(forwarded[n]) \cap FragmentKeys(entries'[u]) = {}
    BY <1>6, <2>1 DEF Received
  <2> QED
    BY <1>1, <1>8, <2>2, <2>3 DEF Received
<1> QED
  BY <1>1, <1>7, <1>8

LEMMA NextReceived == TypeOK /\ Received /\ [Next]_vars => Received'
<1> SUFFICES ASSUME TypeOK, Received, [Next]_vars PROVE Received'
  OBVIOUS
<1>1. CASE UNCHANGED receiver
  BY <1>1 DEF receiver, Received
<1>2. ASSUME NEW b \in BagToSet(network), Receive(b) PROVE Received'
  <2>1. b \in Bundles
    BY DEF TypeOK, BagToSet
  <2> QED
    BY <1>1, <1>2, <2>1, WholeReceived, FragmentReceived DEF Receive, PushKnown
<1> QED
  BY <1>1, <1>2, Steps DEF vars

LEMMA InitReceived == Init => Received
  BY NoKeys DEF Init, Received

-----------------------------------------------------------------------------
(* What is forwarded.                                                      *)

LEMMA ForwardedIs ==
    ASSUME TypeOK, NEW n \in DOMAIN forwarded
    PROVE  /\ forwarded[n] \in Seq(Bundles)
           /\ \A b \in ToSet(forwarded[n]) :
                 b \in Sent /\ b \in Bundles /\ b.datagram \in Content(forwarded[n])
                 /\ b.datagram \in Datagrams /\ length[b.datagram] \in Nat
<1>1. forwarded[n] \in Seq(Bundles)
  BY LenProperties, ElementOfSeq DEF TypeOK
<1>2. ToSet(forwarded[n]) \in SUBSET Sent
  BY HeldIs DEF Sent
<1> QED
  BY <1>1, <1>2, SentBundles DEF Content

(* The fragments of a datagram that has its time stamp to itself are all   *)
(* fragments of it, and no bundle of another one carries its stamp.        *)
LEMMA OneContent ==
    ASSUME TypeOK, Sendings, NEW d \in Datagrams, Alone(d), NEW q \in Seq(Bundles),
           ToSet(q) \in SUBSET Sent, NEW t, Queue(q, t), keys[d] = {t}, q # <<>>
    PROVE  /\ Content(q) = {d} /\ length[d] >= Least
           /\ \A k \in 1 .. Len(q) :
                 /\ q[k].datagram = d /\ q[k] \in Sent /\ Cut(q[k], length[d]) /\ ~q[k].whole
                 /\ q[k].from \in Nat /\ q[k].bytes \in Nat /\ q[k].number \in Nat
           /\ \A j, k \in 1 .. Len(q) : j < k => q[j].from + q[j].bytes <= q[k].from
<1>0. Len(q) \in Nat /\ Len(q) # 0
  BY LenProperties, EmptySeq
<1>1. \A k \in 1 .. Len(q) :
          q[k] \in Sent /\ q[k] \in Bundles /\ ~q[k].whole /\ q[k].stamp = t
  BY InQueue DEF Queue
<1>2. ASSUME NEW k \in 1 .. Len(q) PROVE q[k].datagram = d /\ Cut(q[k], length[d])
  <2>1. keys[q[k].datagram] = {t} /\ q[k].datagram \in Datagrams
        /\ Cut(q[k], length[q[k].datagram])
    BY <1>1, SentBundles DEF Sendings
  <2>2. q[k].datagram = d
    BY <2>1 DEF Alone
  <2> QED
    BY <2>1, <2>2
<1>3. Content(q) = {d}
  <2>1. \A b \in ToSet(q) : b.datagram = d
    BY <1>2, OfQueue
  <2>2. q[1] \in ToSet(q)
    BY <1>0, InQueue
  <2> QED
    BY <2>1, <2>2 DEF Content
<1>4. length[d] >= Least
  <2>1. 1 \in 1 .. Len(q)
    BY <1>0
  <2> QED
    BY <1>1, <1>2, <2>1 DEF Cut
<1>5. ASSUME NEW j \in 1 .. Len(q), NEW k \in 1 .. Len(q), j < k
      PROVE  q[j].from + q[j].bytes <= q[k].from
  <2>1. q[j].number < q[k].number
    BY <1>5 DEF Queue, Sorted
  <2>2. Follow(q[j], q[k])
    BY <1>1, <1>2 DEF Sendings, Alone, Lone
  <2> QED
    BY <2>1, <2>2 DEF Follow
<1>6. \A k \in 1 .. Len(q) : q[k].from \in Nat /\ q[k].bytes \in Nat /\ q[k].number \in Nat
  BY <1>1 DEF Bundles
<1> QED
  BY <1>1, <1>2, <1>3, <1>4, <1>5, <1>6

LEMMA IntactIs == TypeOK /\ Sendings /\ Received => ForwardedIntact
<1> SUFFICES ASSUME TypeOK, Sendings, Received, NEW n \in DOMAIN forwarded,
                    \A d \in Content(forwarded[n]) : Exact(d) /\ Alone(d)
             PROVE  Intact(forwarded[n])
  BY DEF ForwardedIntact
<1> DEFINE f == forwarded[n]
<1>1. /\ f \in Seq(Bundles)
      /\ \A b \in ToSet(f) :
            b \in Sent /\ b \in Bundles /\ b.datagram \in Content(f)
            /\ b.datagram \in Datagrams /\ length[b.datagram] \in Nat
  BY ForwardedIs
<1>2. \A d \in Content(f) : Exact(d) /\ Alone(d)
  OBVIOUS
<1>3. WholeOut(f) \/ FragmentsOut(f)
  BY DEF Received
<1> HIDE DEF f
<1>4. CASE WholeOut(f)
  <2>1. PICK b \in Bundles : f = <<b>> /\ b.whole
    BY <1>4 DEF WholeOut
  <2>2. Len(f) = 1 /\ f[1] = b /\ ToSet(f) = {b}
    BY <2>1 DEF ToSet
  <2>3. /\ b \in Sent /\ b.datagram \in Datagrams /\ b.bytes \in Nat
        /\ b.from = 0 /\ b.bytes = length[b.datagram]
    BY <1>1, <2>1, <2>2 DEF Sendings, Cut, Bundles
  <2>4. Contiguous(f)
    BY <2>2, <2>3 DEF Contiguous
  <2>5. Bytes(f) = b.bytes
    <3>1. 1 \in 1 .. Len(f) /\ 1 - 1 = 0
      BY <2>2
    <3>2. BytesUpTo(f)[1] = BytesUpTo(f)[0] + b.bytes /\ BytesUpTo(f)[0] = 0
      BY <1>1, <2>2, <3>1, BytesAre
    <3> QED
      BY <2>2, <2>3, <3>2 DEF Bytes
  <2>6. Content(f) = {b.datagram}
    BY <2>2 DEF Content
  <2> QED
    BY <2>3, <2>4, <2>5, <2>6 DEF Intact, f
<1>5. CASE FragmentsOut(f)
  <2> DEFINE t == f[1].stamp
  <2>1. f # <<>> /\ Queue(f, t)
    BY <1>5 DEF FragmentsOut
  <2>2. PICK b \in ToSet(f) : Bytes(f) >= b.total
    BY <1>5 DEF FragmentsOut
  <2> DEFINE d == b.datagram
  <2>3. d \in Datagrams /\ Exact(d) /\ Alone(d) /\ length[d] \in Nat
    BY <1>1, <1>2, <2>2
  <2>4. b.stamp = t /\ keys[d] = {t} /\ b.total = length[d] /\ ToSet(f) \in SUBSET Sent
    <3>1. b.stamp = t
      BY <1>1, <2>1, <2>2, OfQueue DEF Queue
    <3> QED
      BY <1>1, <2>2, <3>1 DEF Sendings, Cut
  <2> HIDE DEF t, d
  <2>5. /\ Content(f) = {d} /\ length[d] >= Least
        /\ \A k \in 1 .. Len(f) : Cut(f[k], length[d]) /\ ~f[k].whole
        /\ \A j, k \in 1 .. Len(f) : j < k => f[j].from + f[j].bytes <= f[k].from
    BY <1>1, <2>1, <2>3, <2>4, OneContent, Zenon
  <2>6. Multiple(length[d])
    <3>1. length[d] % Chunk = 0
      BY <2>3, <2>5, Tick0 DEF Exact
    <3> QED
      BY <2>3, <3>1, MultipleIs
  <2>7. \A k \in 1 .. Len(f) : f[k].from + f[k].bytes <= length[d]
    BY <2>5, <2>6 DEF Cut
  <2>8. Bytes(f) >= length[d]
    BY <2>2, <2>4
  <2>9. Contiguous(f) /\ Bytes(f) = length[d]
    BY <1>1, <2>1, <2>3, <2>5, <2>7, <2>8, EnoughIsAll
  <2> QED
    BY <2>3, <2>5, <2>9 DEF Intact, f
<1> QED
  BY <1>3, <1>4, <1>5

LEMMA OnceIs == TypeOK /\ Sendings /\ Received => ForwardedOnce
<1> SUFFICES ASSUME TypeOK, Sendings, Received,
                    NEW n1 \in DOMAIN forwarded, NEW n2 \in DOMAIN forwarded, n1 # n2,
                    NEW b \in ToSet(forwarded[n1]), ~b.whole,
                    \A d \in Content(forwarded[n1]) : Alone(d),
                    Content(forwarded[n1]) \cap Content(forwarded[n2]) # {}
             PROVE  FALSE
  BY DEF ForwardedOnce
<1> DEFINE f == forwarded[n1]
<1> DEFINE g == forwarded[n2]
<1>1. /\ f \in Seq(Bundles) /\ g \in Seq(Bundles)
      /\ \A c \in ToSet(f) \cup ToSet(g) :
            c \in Sent /\ c \in Bundles /\ c.datagram \in Datagrams /\ length[c.datagram] \in Nat
      /\ \A c \in ToSet(f) : c.datagram \in Content(f)
  BY ForwardedIs
<1>2. /\ WholeOut(f) \/ FragmentsOut(f)
      /\ WholeOut(g) \/ FragmentsOut(g)
      /\ FragmentKeys(f) \cap FragmentKeys(g) = {}
  BY DEF Received
<1>3. PICK c \in ToSet(g) : c.datagram \in Content(f)
  BY DEF Content
<1>4. b \in ToSet(f) /\ ~b.whole /\ \A d \in Content(f) : Alone(d)
  OBVIOUS
<1> HIDE DEF f, g
<1>5. FragmentsOut(f)
  <2>1. ~WholeOut(f)
    BY <1>4 DEF WholeOut, ToSet
  <2> QED
    BY <1>2, <2>1
<1> DEFINE t == f[1].stamp
<1> DEFINE d == c.datagram
<1>6. PICK e \in ToSet(f) : Bytes(f) >= e.total
  BY <1>5 DEF FragmentsOut
<1>7. f # <<>> /\ Queue(f, t) /\ e.stamp = t
  <2>1. f # <<>> /\ Queue(f, t)
    BY <1>5 DEF FragmentsOut
  <2> QED
    BY <1>1, <1>6, <2>1, OfQueue DEF Queue
<1>8. PICK a \in ToSet(f) : a.datagram = d
  BY <1>3 DEF Content
<1>9. /\ d \in Datagrams /\ Alone(d) /\ keys[d] = {t} /\ length[d] \in Nat /\ length[d] >= 1
      /\ ToSet(f) \in SUBSET Sent /\ ToSet(g) \in SUBSET Sent
  <2>1. a.stamp = t
    BY <1>1, <1>7, <1>8, OfQueue DEF Queue
  <2> QED
    BY <1>1, <1>3, <1>4, <1>8, <2>1 DEF Sendings
<1> HIDE DEF t, d
<1>10. /\ Content(f) = {d} /\ length[d] >= Least
       /\ \A k \in 1 .. Len(f) :
             /\ f[k].datagram = d /\ f[k] \in Sent /\ Cut(f[k], length[d]) /\ ~f[k].whole
             /\ f[k].from \in Nat /\ f[k].bytes \in Nat /\ f[k].number \in Nat
       /\ \A j, k \in 1 .. Len(f) : j < k => f[j].from + f[j].bytes <= f[k].from
  BY <1>1, <1>7, <1>9, OneContent, Zenon
<1>11. FragmentsOut(g)
  <2> SUFFICES ASSUME WholeOut(g) PROVE FALSE
    BY <1>2
  <2>1. c.whole
    BY DEF WholeOut, ToSet
  <2>2. Cut(c, length[d])
    BY <1>1, <1>3 DEF Sendings, d
  <2>3. length[d] < Least
    BY <2>1, <2>2 DEF Cut
  <2> QED
    BY <1>9, <1>10, <2>3, Tick0
<1>12. PICK h \in ToSet(g) : Bytes(g) >= h.total
  BY <1>11 DEF FragmentsOut
<1>13. g # <<>> /\ Queue(g, t)
  <2>1. g # <<>> /\ Queue(g, g[1].stamp)
    BY <1>11 DEF FragmentsOut
  <2>2. c.stamp = g[1].stamp
    BY <1>1, <1>3, <2>1, OfQueue DEF Queue
  <2>3. keys[d] = {c.stamp}
    BY <1>1, <1>3 DEF Sendings, d
  <2>4. c.stamp = t
    BY <1>9, <2>3
  <2> QED
    BY <2>1, <2>2, <2>4
<1>14. /\ Content(g) = {d}
       /\ \A k \in 1 .. Len(g) :
             /\ g[k].datagram = d /\ g[k] \in Sent /\ Cut(g[k], length[d]) /\ ~g[k].whole
             /\ g[k].from \in Nat /\ g[k].bytes \in Nat /\ g[k].number \in Nat
       /\ \A j, k \in 1 .. Len(g) : j < k => g[j].from + g[j].bytes <= g[k].from
  BY <1>1, <1>9, <1>13, OneContent, Zenon
<1>15. Bytes(f) >= length[d] /\ Bytes(g) >= length[d]
  <2>1. e.datagram = d /\ h.datagram = d
    BY <1>6, <1>10, <1>12, <1>14 DEF Content
  <2>2. e.total = length[d] /\ h.total = length[d]
    BY <1>1, <1>6, <1>12, <2>1 DEF Sendings, Cut
  <2> QED
    BY <1>6, <1>12, <2>2
<1>16. ASSUME NEW q \in {f, g}
       PROVE  /\ \A k \in 1 .. Len(q) :
                    /\ q[k].bytes <= Chunk /\ q[k].bytes >= 1
                    /\ Multiple(q[k].from) /\ q[k].from < length[d] + Chunk
              /\ \A j, k \in 1 .. Len(q) : j < k => q[j].from < q[k].from
  <2>1. \A k \in 1 .. Len(q) : Cut(q[k], length[d]) /\ ~q[k].whole
                               /\ q[k].from \in Nat /\ q[k].bytes \in Nat
    BY <1>10, <1>14
  <2>2. \A k \in 1 .. Len(q) : q[k].bytes >= 1
    BY <2>1 DEF Cut
  <2>3. \A j, k \in 1 .. Len(q) : j < k => q[j].from + q[j].bytes <= q[k].from
    BY <1>10, <1>14
  <2>4. \A j, k \in 1 .. Len(q) : j < k => q[j].from < q[k].from
    BY <2>1, <2>2, <2>3
  <2> QED
    BY <2>1, <2>2, <2>4 DEF Cut
<1>17. \E j \in 1 .. Len(f), k \in 1 .. Len(g) : f[j].from = g[k].from
  <2>1. \A q \in {f, g} : \A k \in 1 .. Len(q) :
            /\ q[k].bytes <= Chunk
            /\ Multiple(q[k].from) /\ q[k].from < length[d] + Chunk
    BY <1>16
  <2>2. \A q \in {f, g} : \A j, k \in 1 .. Len(q) : j < k => q[j].from < q[k].from
    BY <1>16
  <2>3. Len(f) >= 2
    BY <1>5 DEF FragmentsOut
  <2> QED
    BY <1>1, <1>9, <1>10, <1>15, <2>1, <2>2, <2>3, NotTwice, ZenonT(60)
<1>18. PICK j \in 1 .. Len(f), k \in 1 .. Len(g) : f[j].from = g[k].from
  BY <1>17
<1>19. f[j].number = g[k].number
  <2>1. Follow(f[j], g[k]) /\ Follow(g[k], f[j])
    BY <1>9, <1>10, <1>14 DEF Sendings, Alone, Lone
  <2>2. f[j].bytes >= 1 /\ g[k].bytes >= 1
    BY <1>16
  <2>3. /\ f[j].from \in Nat /\ g[k].from \in Nat /\ f[j].bytes \in Nat /\ g[k].bytes \in Nat
        /\ f[j].number \in Nat /\ g[k].number \in Nat
    BY <1>10, <1>14
  <2>4. ~(f[j].number < g[k].number)
    BY <1>18, <2>1, <2>2, <2>3 DEF Follow
  <2>5. ~(g[k].number < f[j].number)
    BY <1>18, <2>1, <2>2, <2>3 DEF Follow
  <2> QED
    BY <2>3, <2>4, <2>5
<1>20. Key(f[j]) = Key(g[k])
  <2>1. f[j].stamp = t /\ g[k].stamp = t
    BY <1>7, <1>13 DEF Queue
  <2> QED
    BY <1>19, <2>1 DEF Key
<1>21. Key(f[j]) \in FragmentKeys(f) /\ Key(g[k]) \in FragmentKeys(g)
  BY <1>1, <1>10, <1>14, KeyIs
<1> QED
  BY <1>2, <1>20, <1>21

LEMMA InitAll == Init => TypeOK /\ Separate /\ Numbers /\ Works /\ Sendings /\ Received
  BY InitType, InitNumbers, InitWorks, InitSendings, InitReceived

LEMMA NextAll ==
    (TypeOK /\ Separate /\ Numbers /\ Works /\ Sendings /\ Received) /\ [Next]_vars
        => (TypeOK /\ Separate /\ Numbers /\ Works /\ Sendings /\ Received)'
  BY NextType, NextSeparate, NextNumbers, NextWorks, NextSendings, NextReceived

(* Whatever the network loses, reorders or delivers twice, a datagram that *)
(* has its time stamp and the counter to itself, and whose size is below a *)
(* chunk or a multiple of it, reaches the UDP receiver as it was sent      *)
(* (create_bundles, dtn_bundle_buffer_push, cb_payload).                   *)
THEOREM IntactCorrect == Spec => []ForwardedIntact
<1>1. (TypeOK /\ Separate /\ Numbers /\ Works /\ Sendings /\ Received) => ForwardedIntact
  BY IntactIs
<1> QED
  BY <1>1, InitAll, NextAll, PTL DEF Spec

(* The fragments of such a datagram, of whatever size, are forwarded once  *)
(* at most: the loop makes one chunk more than it needs, never two.        *)
THEOREM OnceCorrect == Spec => []ForwardedOnce
<1>1. (TypeOK /\ Separate /\ Numbers /\ Works /\ Sendings /\ Received) => ForwardedOnce
  BY OnceIs
<1> QED
  BY <1>1, InitAll, NextAll, PTL DEF Spec
-----------------------------------------------------------------------------
(* A file node sends the bundles of a file one by one.                     *)

FirstSent(w) ==
    /\ task[w].at = "send"
    /\ DOMAIN network' \subseteq DOMAIN network \cup {Head(task[w].out)}
    /\ task' = [task EXCEPT ![w] = IF Len(@.out) = 1 THEN Idle ELSE [@ EXCEPT !.out = Tail(task[w].out)]]
    /\ UNCHANGED <<sequence, now, length, overlapped, keys, receiver>>

LEMMA FirstTask ==
    ASSUME TypeOK, NEW w \in Workers, FirstSent(w)
    PROVE  /\ task' \in [Workers -> Tasks] /\ Others(w) /\ Taken(task'[w])
           /\ task[w].at = "send" /\ task[w].datagram \in Datagrams
           /\ task[w].out \in Seq(Bundles) /\ Len(task[w].out) \in Nat /\ Len(task[w].out) >= 1
           /\ DOMAIN network' \subseteq DOMAIN network \cup {task[w].out[1]}
           /\ task[w].out[1] \in ToSet(task[w].out) /\ task[w].out[1] \in Bundles
           /\ \/ task'[w] = Idle
              \/ /\ task'[w].at = "send" /\ task'[w].datagram = task[w].datagram
                 /\ task'[w].stamp = task[w].stamp
                 /\ Len(task'[w].out) = Len(task[w].out) - 1
                 /\ \A k \in 1 .. Len(task'[w].out) : task'[w].out[k] = task[w].out[k + 1]
<1> DEFINE q == task[w].out
<1>1. /\ task \in [Workers -> Tasks] /\ task[w] \in Tasks /\ task[w].at = "send"
      /\ task[w].datagram \in Datagrams /\ q \in Seq(Bundles) /\ q # <<>>
  BY DEF TypeOK, Taken, FirstSent, Tasks
<1>2. Len(q) \in Nat /\ Len(q) >= 1 /\ Head(q) = q[1] /\ q[1] \in ToSet(q) /\ q[1] \in Bundles
  <2>1. Len(q) \in Nat /\ Len(q) # 0 /\ Head(q) = q[1]
    BY <1>1, LenProperties, EmptySeq
  <2>2. 1 \in 1 .. Len(q)
    BY <2>1
  <2> QED
    BY <1>1, <2>1, <2>2, InQueue
<1>3. DOMAIN network' \subseteq DOMAIN network \cup {q[1]}
  BY <1>2 DEF FirstSent
<1>4. CASE Len(q) = 1
  <2>1. task' = [task EXCEPT ![w] = Idle]
    BY <1>1, <1>4 DEF FirstSent
  <2>2. task' \in [Workers -> Tasks] /\ Others(w) /\ task'[w] = Idle
    BY <1>1, <2>1, IdleIs DEF Others
  <2> QED
    BY <1>1, <1>2, <1>3, <2>2, IdleIs
<1>5. CASE Len(q) # 1
  <2> DEFINE r == Tail(q)
  <2> DEFINE t == [task[w] EXCEPT !.out = r]
  <2> DEFINE next == IF Len(task[w].out) = 1 THEN Idle ELSE [task[w] EXCEPT !.out = Tail(task[w].out)]
  <2>0. task' = [task EXCEPT ![w] = next]
    BY <1>1 DEF FirstSent
  <2>a. next = [task[w] EXCEPT !.out = Tail(task[w].out)]
    BY <1>5
  <2>1. task' = [task EXCEPT ![w] = [task[w] EXCEPT !.out = Tail(task[w].out)]]
    <3> HIDE DEF next
    <3> QED
      BY <2>0, <2>a
  <2>2. /\ r \in Seq(Bundles) /\ Len(r) = Len(q) - 1
        /\ \A k \in 1 .. Len(r) : r[k] = q[k + 1]
    BY <1>1, HeadTailProperties
  <2> HIDE DEF r
  <2>3. r # <<>>
    <3>1. r \in Seq(Bundles) /\ Len(r) # 0
      BY <1>2, <1>5, <2>2
    <3> QED
      BY <3>1, EmptySeq
  <2>4. /\ t \in Tasks /\ t.at = "send" /\ t.datagram = task[w].datagram
        /\ t.stamp = task[w].stamp /\ t.out = r
    BY <1>1, <2>2 DEF Tasks
  <2>7. task' = [task EXCEPT ![w] = t]
    BY <2>1 DEF r
  <2> HIDE DEF t, q
  <2>5. task' \in [Workers -> Tasks] /\ Others(w) /\ task'[w] = t
    BY <1>1, <2>4, <2>7 DEF Others
  <2>6. Taken(t)
    BY <1>1, <2>3, <2>4 DEF Taken
  <2> QED
    BY <1>1, <1>2, <1>3, <2>2, <2>4, <2>5, <2>6 DEF q
<1> QED
  BY <1>4, <1>5

(* What is true of the bundles of a worker is true of all but the first.   *)
LEMMA FirstKeeps ==
    ASSUME TypeOK, Separate, Numbers, Works, Sendings, Received, NEW w \in Workers, FirstSent(w)
    PROVE  TypeOK' /\ Separate' /\ Numbers' /\ Works' /\ Sendings' /\ Received'
<1> DEFINE q == task[w].out
<1> DEFINE d == task[w].datagram
<1>1. /\ task' \in [Workers -> Tasks] /\ Others(w) /\ Taken(task'[w])
      /\ task[w].at = "send" /\ d \in Datagrams
      /\ q \in Seq(Bundles) /\ Len(q) \in Nat /\ Len(q) >= 1
      /\ DOMAIN network' \subseteq DOMAIN network \cup {q[1]} /\ q[1] \in ToSet(q) /\ q[1] \in Bundles
      /\ \/ task'[w] = Idle
         \/ /\ task'[w].at = "send" /\ task'[w].datagram = d /\ task'[w].stamp = task[w].stamp
            /\ Len(task'[w].out) = Len(q) - 1
            /\ \A k \in 1 .. Len(task'[w].out) : task'[w].out[k] = q[k + 1]
  BY FirstTask
<1>2. UNCHANGED <<sequence, now, length, overlapped, keys, receiver>>
  BY DEF FirstSent
<1>3. TypeOK'
  <2>1. DOMAIN network' \in SUBSET Bundles
    BY <1>1 DEF TypeOK
  <2>2. /\ sequence' \in Nat /\ length' \in [Datagrams -> Nat]
        /\ overlapped' \in SUBSET Datagrams /\ keys' \in [Datagrams -> SUBSET (0 .. MaxTime)]
    BY <1>2 DEF TypeOK
  <2> QED
    BY <1>1, <1>2, <2>1, <2>2, WorkerType
<1>4. Separate'
  <2>1. \A v \in Workers : task[v].at # "idle" => task[v].datagram # None
    BY IdleIs DEF TypeOK, Taken
  <2> QED
    BY <1>1, <1>2, <2>1, IdleIs DEF Separate, Others, Lone
<1>5. /\ keys[d] = {task[w].stamp} /\ InOrder(q)
      /\ \A k \in 1 .. Len(q) : Cut(q[k], length[d]) /\ q[k].stamp = task[w].stamp /\ q[k].datagram = d
      /\ Lone(d) => Sorted(q) /\ \A k \in 1 .. Len(q) : q[k].number <= sequence
      /\ \A b \in Sent : b.datagram = d => Behind(task[w], b)
  BY <1>1 DEF Works, Working, BeforeStamp, Numbers, Numbered, Sendings
<1> DEFINE r == task'[w].out
<1>6. CASE task'[w] = Idle
  <2>1. Numbers' /\ Works'
    BY <1>1, <1>2, <1>6, IdleIs DEF Numbers, Works, Others, Lone
  <2>2. Sent' \subseteq Sent \cup ToSet(q)
    BY <1>1, <1>2 DEF Sent, Held, receiver
  <2>3. Sendings'
    BY <1>1, <1>2, <1>6, <2>2, MoreSent
  <2> QED
    BY <1>2, <1>3, <1>4, <2>1, <2>3 DEF Received, receiver
<1>7. CASE task'[w] # Idle
  <2>1. /\ task'[w].at = "send" /\ task'[w].datagram = d /\ task'[w].stamp = task[w].stamp
        /\ \A k \in 1 .. Len(r) : k \in 1 .. Len(q) /\ k + 1 \in 1 .. Len(q) /\ 1 < k + 1 /\ r[k] = q[k + 1]
    BY <1>1, <1>7
  <2> HIDE DEF q
  <2>2. ASSUME NEW j \in 1 .. Len(r), NEW k \in 1 .. Len(r), j < k
        PROVE  /\ r[j].from + r[j].bytes <= r[k].from
               /\ Lone(d) => r[j].number < r[k].number
    <3>1. j + 1 < k + 1
      BY <2>2
    <3> QED
      BY <1>5, <2>1, <3>1 DEF InOrder, Sorted
  <2>3. Numbers'
    <3>1. Lone(d) => Numbered(task'[w], sequence')
      BY <1>2, <1>5, <2>1, <2>2 DEF Numbered, Sorted
    <3> QED
      BY <1>1, <1>2, <2>1, <3>1 DEF Numbers, Others, Lone
  <2>4. Works'
    <3>1. Working(task'[w], length[d], keys[d])
      BY <1>5, <2>1, <2>2 DEF Working, BeforeStamp, InOrder
    <3> QED
      BY <1>1, <1>2, <2>1, <3>1 DEF Works, Others
  <2>5. Sendings'
    <3>1. Sent' \subseteq Sent \cup {q[1]} /\ Sent' \subseteq Sent \cup ToSet(q)
      BY <1>1, <1>2 DEF Sent, Held, receiver, q
    <3>2. ASSUME NEW b \in Sent', b.datagram = task'[w].datagram PROVE Behind(task'[w], b)
      <4>1. CASE b \in Sent
        BY <1>5, <2>1, <4>1, <3>2, <1>2 DEF Behind, Lone, q
      <4>2. CASE b = q[1]
        <5>1. ASSUME NEW k \in 1 .. Len(r), Lone(d)
              PROVE  b.number < r[k].number /\ b.from + b.bytes <= r[k].from
          <6>1. 1 \in 1 .. Len(q)
            BY <1>1 DEF q
          <6> QED
            BY <1>5, <2>1, <4>2, <5>1, <6>1 DEF InOrder, Sorted
        <5> QED
          BY <1>2, <2>1, <5>1 DEF Behind, Lone
      <4> QED
        BY <3>1, <4>1, <4>2
    <3> QED
      BY <1>1, <1>2, <3>1, <3>2, MoreSent DEF q
  <2> QED
    BY <1>2, <1>3, <1>4, <2>3, <2>4, <2>5 DEF Received, receiver
<1> QED
  BY <1>6, <1>7

-----------------------------------------------------------------------------
(* Files.                                                                  *)

(* Where files may be for: a path or none, on this node or another. *)
GoalsAre == \A g \in Goals, d \in Datagrams : g[d] \in [here : BOOLEAN, path : Paths \cup {None}]

TunnelInv == TypeOK /\ Separate /\ Numbers /\ Works /\ Sendings /\ Received

LEMMA TunnelSteps == TunnelInv /\ ([Next]_vars \/ \E w \in Workers : FirstSent(w)) => TunnelInv'
  BY NextAll, FirstKeeps DEF TunnelInv

LoadCalls == [at : {"read", "store"}, asked : Directory, got : Directory \cup {None}, alone : BOOLEAN]

(* A load of routes that is alone finds the path it asked for, and has     *)
(* read the routes from there.                                             *)
LoadsAreOwn ==
    /\ configPath \in Directory
    /\ loading \in [Workers -> LoadCalls \cup {NotLoading}]
    /\ \A w \in Workers : (loading[w] # NotLoading /\ loading[w].alone) =>
          /\ \A v \in Workers \ {w} : loading[v] = NotLoading
          /\ configPath = loading[w].asked
          /\ loading[w].at = "store" => loading[w].got = loading[w].asked
    /\ RoutesAreAsked

(* What is under a path came in for this path of this node. *)
DiskIsOwn ==
    /\ goal \in Goals /\ disk \in [Paths -> SUBSET (DOMAIN forwarded)]
    /\ \A p \in Paths : \A n \in disk[p] :
          \E d \in Content(forwarded[n]) : goal[d] = [here |-> TRUE, path |-> p]

FileInv == TunnelInv /\ LoadsAreOwn /\ DiskIsOwn

LEMMA InitFile == FileInit => FileInv
<1> SUFFICES ASSUME FileInit PROVE FileInv
  OBVIOUS
<1>1. TunnelInv
  BY InitAll DEF FileInit, TunnelInv
<1>2. LoadsAreOwn
  BY DEF FileInit, LoadsAreOwn, RoutesAreAsked
<1>3. DiskIsOwn
  BY DEF FileInit, DiskIsOwn
<1> QED
  BY <1>1, <1>2, <1>3 DEF FileInv

(* A load of routes in the three steps it takes. *)
LEMMA LoadsStay ==
    ASSUME LoadsAreOwn,
           \/ \E w \in Workers : ReadRoutes(w) \/ StoreRoutes(w) \/ \E dir \in Directory : dtn_routing_load(w, dir)
           \/ UNCHANGED <<configPath, loading, loaded>>
    PROVE  LoadsAreOwn'
<1>0. /\ configPath \in Directory /\ loading \in [Workers -> LoadCalls \cup {NotLoading}]
      /\ \A l \in loaded : l.alone => l.got = l.asked
      /\ NotLoading.at = "idle"
  BY DEF LoadsAreOwn, RoutesAreAsked, NotLoading
<1> DEFINE Own(w) == (loading[w] # NotLoading /\ loading[w].alone) =>
          /\ \A v \in Workers \ {w} : loading[v] = NotLoading
          /\ configPath = loading[w].asked
          /\ loading[w].at = "store" => loading[w].got = loading[w].asked
<1>1. \A w \in Workers : Own(w)
  BY DEF LoadsAreOwn
<1>2. ASSUME NEW w \in Workers, NEW dir \in Directory, dtn_routing_load(w, dir) PROVE LoadsAreOwn'
  <2> DEFINE began == [at |-> "read", asked |-> dir, got |-> None, alone |-> \A u \in Workers : loading[u] = NotLoading]
  <2>1. /\ configPath' = dir /\ loaded' = loaded
        /\ loading' = [v \in Workers |-> IF v = w THEN began
                         ELSE IF loading[v] = NotLoading THEN NotLoading ELSE [loading[v] EXCEPT !.alone = FALSE]]
    BY <1>2 DEF dtn_routing_load, SetPath
  <2>2. began \in LoadCalls /\ began.at = "read" /\ began.asked = dir
        /\ (began.alone => \A u \in Workers : loading[u] = NotLoading)
    BY DEF LoadCalls
  <2> HIDE DEF began
  <2>3. ASSUME NEW v \in Workers \ {w}
        PROVE  /\ loading'[v] \in LoadCalls \cup {NotLoading}
               /\ loading[v] = NotLoading => loading'[v] = NotLoading
               /\ loading[v] # NotLoading => ~loading'[v].alone
    <3>1. CASE loading[v] = NotLoading
      BY <2>1, <3>1
    <3>2. CASE loading[v] # NotLoading
      <4>1. loading[v] \in LoadCalls
        BY <1>0, <3>2
      <4>2. [loading[v] EXCEPT !.alone = FALSE] \in LoadCalls /\ ~[loading[v] EXCEPT !.alone = FALSE].alone
        BY <4>1 DEF LoadCalls
      <4> QED
        BY <2>1, <3>2, <4>2
    <3> QED
      BY <3>1, <3>2
  <2>4. loading' \in [Workers -> LoadCalls \cup {NotLoading}] /\ loading'[w] = began
    BY <2>1, <2>2, <2>3
  <2>5. ASSUME NEW v \in Workers PROVE Own(v)'
    BY <2>1, <2>2, <2>3, <2>4
  <2> QED
    BY <1>0, <2>1, <2>4, <2>5 DEF LoadsAreOwn, RoutesAreAsked
<1>3. ASSUME NEW w \in Workers, loading[w] # NotLoading, loading' = [loading EXCEPT ![w] = NotLoading],
             configPath' = configPath
      PROVE  /\ loading' \in [Workers -> LoadCalls \cup {NotLoading}]
             /\ \A v \in Workers : Own(v)'
  BY <1>0, <1>1, <1>3
<1>4. ASSUME NEW w \in Workers, ReadRoutes(w) PROVE LoadsAreOwn'
  <2>1. /\ loading[w].at = "read" /\ configPath' = configPath /\ loaded' = loaded
        /\ \/ loading' = [loading EXCEPT ![w] = [loading[w] EXCEPT !.at = "store", !.got = configPath]]
           \/ loading' = [loading EXCEPT ![w] = NotLoading]
    BY <1>0, <1>4 DEF ReadRoutes
  <2>2. loading[w] \in LoadCalls
    BY <1>0, <2>1
  <2>3. CASE loading' = [loading EXCEPT ![w] = [loading[w] EXCEPT !.at = "store", !.got = configPath]]
    <3> DEFINE read == [loading[w] EXCEPT !.at = "store", !.got = configPath]
    <3>1. read \in LoadCalls /\ read.got = configPath /\ read.asked = loading[w].asked /\ read.alone = loading[w].alone
      BY <1>0, <2>2 DEF LoadCalls
    <3> HIDE DEF read
    <3>2. /\ loading' \in [Workers -> LoadCalls \cup {NotLoading}] /\ loading'[w] = read
          /\ \A v \in Workers \ {w} : loading'[v] = loading[v]
      BY <1>0, <2>3, <3>1 DEF read
    <3>3. loading[w] # NotLoading
      BY <1>0, <2>1
    <3>4. \A v \in Workers : Own(v)'
      BY <1>1, <2>1, <3>1, <3>2, <3>3
    <3> QED
      BY <1>0, <2>1, <3>2, <3>4 DEF LoadsAreOwn, RoutesAreAsked
  <2>4. CASE loading' = [loading EXCEPT ![w] = NotLoading]
    BY <1>0, <1>3, <2>1, <2>4 DEF LoadsAreOwn, RoutesAreAsked
  <2> QED
    BY <2>1, <2>3, <2>4
<1>5. ASSUME NEW w \in Workers, StoreRoutes(w) PROVE LoadsAreOwn'
  <2>1. /\ loading[w].at = "store" /\ configPath' = configPath
        /\ loading' = [loading EXCEPT ![w] = NotLoading]
        /\ loaded' \in {loaded, loaded \cup {loading[w]}}
    BY <1>5 DEF StoreRoutes
  <2>2. loading[w] # NotLoading
    BY <1>0, <2>1
  <2>3. \A l \in loaded' : l.alone => l.got = l.asked
    BY <1>0, <1>1, <2>1, <2>2
  <2>4. loading' \in [Workers -> LoadCalls \cup {NotLoading}] /\ \A v \in Workers : Own(v)'
    BY <1>3, <2>1, <2>2
  <2> QED
    BY <1>0, <2>1, <2>3, <2>4 DEF LoadsAreOwn, RoutesAreAsked
<1>6. CASE UNCHANGED <<configPath, loading, loaded>>
  BY <1>6 DEF LoadsAreOwn, RoutesAreAsked
<1> QED
  BY <1>2, <1>4, <1>5, <1>6

(* What was forwarded stays as it is, and where files are for. *)
LEMMA DiskStays ==
    ASSUME DiskIsOwn, GoalsAre, TypeOK, goal' = goal,
           \A n \in DOMAIN forwarded : n \in DOMAIN forwarded' /\ forwarded'[n] = forwarded[n],
           disk' = disk \/ \E n \in DOMAIN forwarded : StartPayload(n)
    PROVE  DiskIsOwn'
<1>0. /\ goal \in Goals /\ disk \in [Paths -> SUBSET (DOMAIN forwarded)]
      /\ \A p \in Paths : \A n \in disk[p] : \E d \in Content(forwarded[n]) : goal[d] = [here |-> TRUE, path |-> p]
  BY DEF DiskIsOwn
<1>1. \A n \in DOMAIN forwarded : n \in DOMAIN forwarded' /\ Content(forwarded'[n]) = Content(forwarded[n])
  OBVIOUS
<1>2. CASE disk' = disk
  <2>1. disk' \in [Paths -> SUBSET (DOMAIN forwarded')]
    BY <1>0, <1>1, <1>2
  <2>2. \A p \in Paths : \A n \in disk'[p] : \E d \in Content(forwarded'[n]) : goal[d] = [here |-> TRUE, path |-> p]
    BY <1>0, <1>1, <1>2
  <2> QED
    BY <1>0, <2>1, <2>2 DEF DiskIsOwn
<1>3. ASSUME NEW n \in DOMAIN forwarded, StartPayload(n), disk' # disk PROVE DiskIsOwn'
  <2>1. PICK d \in Content(forwarded[n]) :
            /\ ForThisNode(d) /\ disk' = [disk EXCEPT ![goal[d].path] = {n} \cup (@ \cap writing)]
    BY <1>3 DEF StartPayload
  <2>2. d \in Datagrams
    <3>1. forwarded[n] \in Seq(Bundles)
      BY ForwardedIs
    <3>2. PICK b \in ToSet(forwarded[n]) : d = b.datagram
      BY DEF Content
    <3> QED
      BY <3>1, <3>2, OfQueue DEF Bundles
  <2>3. goal[d] = [here |-> TRUE, path |-> goal[d].path] /\ goal[d].path \in Paths
    <3>1. goal[d] \in [here : BOOLEAN, path : Paths \cup {None}]
      BY <1>0, <2>2 DEF GoalsAre
    <3>2. goal[d].here /\ goal[d].path # None
      BY <2>1 DEF ForThisNode
    <3> QED
      BY <3>1, <3>2
  <2> DEFINE q == goal[d].path
  <2>4. disk'[q] = {n} \cup (disk[q] \cap writing) /\ \A p \in Paths \ {q} : disk'[p] = disk[p]
    BY <1>0, <2>1, <2>3
  <2>5. disk' \in [Paths -> SUBSET (DOMAIN forwarded')]
    BY <1>0, <1>1, <2>1, <2>3
  <2>6. ASSUME NEW p \in Paths, NEW m \in disk'[p]
        PROVE  \E e \in Content(forwarded'[m]) : goal[e] = [here |-> TRUE, path |-> p]
    <3>1. CASE p = q /\ m = n
      <4>1. d \in Content(forwarded'[m]) /\ goal[d] = [here |-> TRUE, path |-> p]
        BY <1>1, <2>3, <3>1
      <4> QED
        BY <4>1
    <3>2. CASE ~(p = q /\ m = n)
      <4>1. m \in disk[p]
        BY <2>4, <3>2
      <4> QED
        BY <1>0, <1>1, <4>1
    <3> QED
      BY <3>1, <3>2
  <2> QED
    BY <1>0, <2>5, <2>6 DEF DiskIsOwn
<1> QED
  BY <1>2, <1>3

LEMMA ReceiveForwards ==
    ASSUME TypeOK, NEW b \in BagToSet(network), Receive(b)
    PROVE  \A n \in DOMAIN forwarded : n \in DOMAIN forwarded' /\ forwarded'[n] = forwarded[n]
<1>1. b \in Bundles /\ forwarded \in Seq(Seq(Bundles))
  BY DEF TypeOK, BagToSet
<1>2. forwarded' = forwarded \/ \E q \in Seq(Bundles) : forwarded' = Append(forwarded, q)
  <2>1. CASE PushWhole(b)
    <3>1. <<b>> \in Seq(Bundles)
      BY <1>1
    <3> QED
      BY <2>1, <3>1 DEF PushWhole
  <2>2. CASE PushKnown(b)
    BY <2>2 DEF PushKnown, receiver
  <2>3. CASE PushFragment(b)
    <3>1. b.stamp \in 0 .. MaxTime /\ entries[b.stamp] \in Seq(Bundles)
      BY <1>1, <2>3, ReceiverIs
    <3>2. Insert(entries[b.stamp], b) \in Seq(Bundles)
      BY <1>1, <3>1, InsertIs
    <3> QED
      BY <1>1, <2>3, <3>2, ReceiverIs
  <2> QED
    BY <2>1, <2>2, <2>3 DEF Receive
<1>3. ASSUME NEW q \in Seq(Bundles), forwarded' = Append(forwarded, q), NEW n \in DOMAIN forwarded
      PROVE  n \in DOMAIN forwarded' /\ forwarded'[n] = forwarded[n]
  BY <1>1, <1>3, AppendProperties, LenProperties
<1> QED
  BY <1>2, <1>3

FileNext == Loading \/ Sending \/ Receiving

(* A step of a file node is one of the tunnel, or sends one bundle, or     *)
(* leaves what both have alone.                                            *)
LEMMA FileSteps ==
    ASSUME [FileNext]_fileVars, TypeOK
    PROVE  /\ [Next]_vars \/ \E w \in Workers : FirstSent(w)
           /\ \/ \E w \in Workers : ReadRoutes(w) \/ StoreRoutes(w) \/ \E dir \in Directory : dtn_routing_load(w, dir)
              \/ UNCHANGED <<configPath, loading, loaded>>
           /\ goal' = goal
           /\ \A n \in DOMAIN forwarded : n \in DOMAIN forwarded' /\ forwarded'[n] = forwarded[n]
           /\ disk' = disk \/ \E n \in DOMAIN forwarded : StartPayload(n)
<1>1. CASE Loading
  <2>1. UNCHANGED <<vars, goal, diskVars>>
    BY <1>1 DEF Loading, ReadRoutes, StoreRoutes, dtn_routing_load
  <2> QED
    BY <1>1, <2>1 DEF Loading, diskVars, vars, receiver
<1>2. CASE Sending
  <2>1. UNCHANGED <<goal, configPath, loading, loaded, diskVars, receiver>>
    BY <1>2 DEF Sending, create_bundles_for_file, SendBundle, dtn_file_node_core_send_file, interface_close,
                nodeVars, vars
  <2>2. [Next]_vars \/ \E w \in Workers : FirstSent(w)
    <3>1. ASSUME NEW w \in Workers, create_bundles_for_file(w) PROVE Next
      BY <3>1 DEF create_bundles_for_file, CutChunks, CutLast, Next, SenderNext, Pack
    <3>2. ASSUME NEW w \in Workers, SendBundle(w) PROVE FirstSent(w)
      <4>1. PICK ways : network' = IF ways = {} THEN network ELSE network (+) [b \in {Head(task[w].out)} |-> Cardinality(ways)]
        BY <3>2 DEF SendBundle
      <4>2. DOMAIN network' \subseteq DOMAIN network \cup {Head(task[w].out)}
        BY <4>1 DEF (+)
      <4> QED
        BY <3>2, <4>2 DEF SendBundle, FirstSent
    <3>3. ASSUME NEW w \in Workers, NEW d \in Datagrams, NEW size \in Sizes, dtn_file_node_core_send_file(w, d, size)
          PROVE  Next
      BY <3>3 DEF dtn_file_node_core_send_file, Next, SenderNext
    <3>4. ASSUME NEW i \in Interface, interface_close(i) PROVE UNCHANGED vars
      BY <3>4 DEF interface_close
    <3>5. ASSUME Tick, UNCHANGED receiver PROVE Next
      BY <3>5 DEF Next, SenderNext
    <3> QED
      BY <1>2, <3>1, <3>2, <3>3, <3>4, <3>5 DEF Sending
  <2> QED
    BY <2>1, <2>2 DEF diskVars, receiver
<1>3. CASE Receiving
  <2>1. ASSUME NEW b \in BagToSet(network), interface_io(b)
        PROVE  /\ Next /\ UNCHANGED <<goal, configPath, loading, loaded, disk>>
               /\ \A n \in DOMAIN forwarded : n \in DOMAIN forwarded' /\ forwarded'[n] = forwarded[n]
    <3>1. Receive(b) /\ UNCHANGED <<nodeVars, diskVars>>
      BY <2>1 DEF interface_io
    <3> QED
      BY <3>1, ReceiveForwards DEF Next, nodeVars, diskVars
  <2>2. ASSUME NEW n \in DOMAIN forwarded, StartPayload(n) \/ EndPayload(n)
        PROVE  /\ UNCHANGED <<vars, nodeVars>>
               /\ disk' = disk \/ StartPayload(n)
    BY <2>2 DEF StartPayload, EndPayload
  <2> QED
    BY <1>3, <2>1, <2>2 DEF Receiving, vars, receiver, nodeVars
<1>4. CASE UNCHANGED fileVars
  BY <1>4 DEF fileVars, vars, nodeVars, diskVars, receiver
<1> QED
  BY <1>1, <1>2, <1>3, <1>4 DEF FileNext

LEMMA NextFile == GoalsAre /\ FileInv /\ [FileNext]_fileVars => FileInv'
<1> SUFFICES ASSUME GoalsAre, FileInv, [FileNext]_fileVars PROVE FileInv'
  OBVIOUS
<1>1. TypeOK /\ TunnelInv /\ LoadsAreOwn /\ DiskIsOwn
  BY DEF FileInv, TunnelInv
<1>2. TunnelInv'
  BY <1>1, FileSteps, TunnelSteps
<1>3. LoadsAreOwn'
  BY <1>1, FileSteps, LoadsStay
<1>4. DiskIsOwn'
  BY <1>1, FileSteps, DiskStays
<1> QED
  BY <1>2, <1>3, <1>4 DEF FileInv

LEMMA FileIs == FileInv => FileIsAsSent /\ RoutesAreAsked
<1> SUFFICES ASSUME FileInv PROVE FileIsAsSent /\ RoutesAreAsked
  OBVIOUS
<1>1. ForwardedIntact
  BY IntactIs DEF FileInv, TunnelInv
<1>2. ASSUME NEW p \in Paths, NEW n \in written, disk[p] = {n}
      PROVE  n \in DOMAIN forwarded /\ \E d \in Content(forwarded[n]) : goal[d] = [here |-> TRUE, path |-> p]
  BY <1>2 DEF FileInv, DiskIsOwn
<1>3. FileIsAsSent
  BY <1>1, <1>2 DEF FileIsAsSent, ForwardedIntact
<1> QED
  BY <1>3 DEF FileInv, LoadsAreOwn

(* However its threads and the loads of routes interleave, what a file     *)
(* node writes under a path is a file sent to it, as it was sent if it had *)
(* the counter and its time stamp to itself and is some whole chunks long, *)
(* and a load that was alone has the routes it asked for.                  *)
THEOREM FilesCorrect ==
    ASSUME GoalsAre
    PROVE  FileInit /\ [][FileNext]_fileVars => [](FileIsAsSent /\ RoutesAreAsked)
<1>1. FileInv /\ [FileNext]_fileVars => FileInv'
  BY NextFile
<1> QED
  BY <1>1, InitFile, FileIs, PTL
=============================================================================
