--------------------------- MODULE ContainersProofs ---------------------------
(***************************************************************************)
(* The memory of dtn_base's containers hangs together, and every object in *)
(* them has one owner, for any number of cells, nodes, bytes and threads.  *)
(*                                                                         *)
(* Both chained lists are described by a sequence: the elements in their   *)
(* order, each of which points to the next and to the one before.  The     *)
(* containers that own what is in them are described by where each object  *)
(* is; items of JSON are a forest.  What holds of sequences, places and    *)
(* forests whatever the container is in Foundations.                       *)
(***************************************************************************)
EXTENDS MCContainers, Foundations, SequenceTheorems

-----------------------------------------------------------------------------
(* Lists of cells, and the sequence of cells that one consists of: the head   *)
(* points to both its ends, and a cell not in use has no link, since acquiring *)
(* it does not write one.                                                     *)
Lists == [next : [LL!Entity -> Cell \cup {NIL}], last : [LL!Entity -> Cell \cup {NIL}],
          content : [LL!Entity -> Item \cup {NULL}]]

OfCells(l, s) ==
    /\ l \in Lists /\ s \in Seq(Cell) /\ Chained(s, l.next, l.last, NIL)
    /\ l.next[HEAD] = ElementAt(s, 1, NIL) /\ l.last[HEAD] = ElementAt(s, Len(s), NIL)
    /\ \A c \in Cell \ Elements(s) : l.next[c] = NIL

(* There are no more elements than cells. *)
LEMMA AsManyAsCells ==
    ASSUME NEW C, IsFiniteSet(C), NEW s \in Seq(C), NoTwice(s)
    PROVE  Len(s) \in Nat /\ Len(s) <= Cardinality(C) /\ Cardinality(C) \in Nat
<1>1. s \in [1 .. Len(s) -> C] /\ Len(s) \in Nat
  OBVIOUS
<1>2. s \in Injection(1 .. Len(s), C)
  BY <1>1 DEF Injection, IsInjective, NoTwice
<1>3. Cardinality(1 .. Len(s)) = Len(s)
  <2> DEFINE n == Len(s)
  <2> HIDE DEF n
  <2>1. n \in Nat /\ 1 \in Int /\ n \in Int
    BY <1>1 DEF n
  <2>2. Cardinality(1 .. n) = IF 1 > n THEN 0 ELSE n - 1 + 1
    BY <2>1, FS_Interval
  <2>3. Cardinality(1 .. n) = n
    BY <2>1, <2>2
  <2> QED
    BY <2>3 DEF n
<1>4. Cardinality(1 .. Len(s)) <= Cardinality(C)
  BY <1>2, FS_Injection
<1> QED
  BY <1>1, <1>3, <1>4, FS_CardinalityType

(* Cells and numbers of them are counted the same way in each module. *)
LEMMA CountsAlike == LL!Cardinality(Cell) = Cardinality(Cell) /\ NL!Cardinality(Node) = Cardinality(Node)
BY DEF LL!Cardinality, NL!Cardinality, Cardinality

(* Read from its head a list has its cells in their order. *)
LEMMA ForwardIs ==
    ASSUME NEW l, NEW s, OfCells(l, s)
    PROVE  LL!Forward(l) = s /\ Len(s) \in Nat /\ Len(s) <= Cardinality(Cell)
<1> DEFINE E == LL!Entity \cup {NIL}
<1>1. NIL \in E /\ LL!Entity = E \ {NIL} /\ Cell \subseteq E \ {NIL}
  BY ListAssumption DEF LL!Entity
<1>2. l.next \in [E \ {NIL} -> E] /\ s \in Seq(E \ {NIL})
  <2>1. l.next \in [E \ {NIL} -> Cell \cup {NIL}] /\ s \in Seq(Cell)
    BY <1>1 DEF OfCells, Lists
  <2> HIDE DEF E
  <2>2. Cell \cup {NIL} \subseteq E
    BY <1>1
  <2> QED
    BY <1>1, <2>1, <2>2, SeqMonotonic
<1>3. Len(s) \in Nat /\ Len(s) <= Cardinality(Cell) /\ Cardinality(Cell) \in Nat
  BY AsManyAsCells, ListAssumption DEF OfCells, Chained
<1>4. \A i \in 1 .. Len(s) : l.next[s[i]] = ElementAt(s, i + 1, NIL)
  BY DEF OfCells, Chained
<1> HIDE DEF E
<1>5. LET walk[n \in 0 .. Cardinality(Cell)] == [e \in E |->
                 IF e = NIL \/ n = 0 THEN <<>> ELSE <<e>> \o walk[n - 1][l.next[e]]]
      IN walk[Cardinality(Cell)][ElementAt(s, 1, NIL)] = s
  BY <1>1, <1>2, <1>3, <1>4, WalkIs
<1>6. LL!Forward(l) = s
  BY <1>5, CountsAlike, Zenon DEF LL!Forward, E, OfCells
<1> QED
  BY <1>3, <1>6

(* Read from its end it has them the other way round. *)
LEMMA BackwardIs ==
    ASSUME NEW l, NEW s, OfCells(l, s)
    PROVE  LL!Backward(l) = LL!Reverse(s)
<1> DEFINE E == LL!Entity \cup {NIL}
<1> DEFINE n == Len(s)
<1> DEFINE t == [i \in 1 .. n |-> s[(n - i) + 1]]
<1>0. n \in Nat /\ n <= Cardinality(Cell) /\ Cardinality(Cell) \in Nat
  BY ForwardIs, FS_CardinalityType, ListAssumption
<1>1. NIL \in E /\ LL!Entity = E \ {NIL} /\ Cell \subseteq E \ {NIL}
  BY ListAssumption DEF LL!Entity
<1>2. l.last \in [E \ {NIL} -> E] /\ \A i \in 1 .. n : s[i] \in E \ {NIL}
  <2>1. l.last \in [E \ {NIL} -> Cell \cup {NIL}] /\ s \in Seq(Cell)
    BY <1>1 DEF OfCells, Lists
  <2> HIDE DEF E
  <2>2. Cell \cup {NIL} \subseteq E
    BY <1>1
  <2> QED
    BY <1>1, <2>1, <2>2
<1>3. \A i \in 1 .. n : l.last[s[i]] = ElementAt(s, i - 1, NIL)
  BY DEF OfCells, Chained
<1> HIDE DEF E, n
<1>4. \A i \in 1 .. n : (n - i) + 1 \in 1 .. n
  BY <1>0
<1>5. t \in Seq(E \ {NIL}) /\ Len(t) = n /\ \A i \in 1 .. n : t[i] = s[(n - i) + 1]
  <2>1. \A i \in 1 .. n : s[(n - i) + 1] \in E \ {NIL}
    BY <1>2, <1>4
  <2> QED
    BY <1>0, <2>1
<1> HIDE DEF t
<1>6. \A i \in 1 .. n + 1 : ElementAt(t, i, NIL) = ElementAt(s, (n - i) + 1, NIL)
  <2> SUFFICES ASSUME NEW i \in 1 .. n + 1 PROVE ElementAt(t, i, NIL) = ElementAt(s, (n - i) + 1, NIL)
    OBVIOUS
  <2>1. CASE i = n + 1
    BY <1>0, <1>5, <2>1 DEF ElementAt, n
  <2>2. CASE i \in 1 .. n
    BY <1>0, <1>4, <1>5, <2>2 DEF ElementAt, n
  <2> QED
    BY <1>0, <2>1, <2>2
<1>7. \A i \in 1 .. n : l.last[t[i]] = ElementAt(t, i + 1, NIL)
  <2> SUFFICES ASSUME NEW i \in 1 .. n PROVE l.last[t[i]] = ElementAt(t, i + 1, NIL)
    OBVIOUS
  <2>1. l.last[t[i]] = ElementAt(s, ((n - i) + 1) - 1, NIL)
    BY <1>3, <1>4, <1>5
  <2>2. i + 1 \in 1 .. n + 1 /\ (n - (i + 1)) + 1 = ((n - i) + 1) - 1
    BY <1>0
  <2> QED
    BY <1>6, <2>1, <2>2
<1>8. LET walk[m \in 0 .. Cardinality(Cell)] == [e \in E |->
                 IF e = NIL \/ m = 0 THEN <<>> ELSE <<e>> \o walk[m - 1][l.last[e]]]
      IN walk[Cardinality(Cell)][ElementAt(t, 1, NIL)] = t
  BY <1>0, <1>1, <1>2, <1>5, <1>7, WalkIs
<1>9. ElementAt(t, 1, NIL) = l.last[HEAD]
  <2>1. (n - 1) + 1 = n /\ 1 \in 1 .. n + 1
    BY <1>0
  <2> QED
    BY <1>6, <2>1 DEF OfCells, n
<1>10. LL!Backward(l) = t
  BY <1>8, <1>9, CountsAlike, Zenon DEF LL!Backward, E
<1> QED
  BY <1>10 DEF LL!Reverse, t, n

(* A cell not in use, as long as the list is shorter than it may be. *)
LEMMA AcquireIs ==
    ASSUME NEW l, NEW s, OfCells(l, s), Len(s) < MaxLength
    PROVE  LL!Acquire(l) \in Cell /\ LL!Acquire(l) \notin Elements(s)
<1>1. Len(s) \in Nat /\ s \in Seq(Cell) /\ LL!Forward(l) = s
  BY ForwardIs DEF OfCells
<1>2. LL!Range(s) = Elements(s)
  BY <1>1 DEF LL!Range, Elements
<1>3. \E c \in Cell : c \notin Elements(s)
  <2> SUFFICES ASSUME Cell \subseteq Elements(s) PROVE FALSE
    OBVIOUS
  <2>1. s \in Surjection(1 .. Len(s), Cell)
    <3>1. s \in [1 .. Len(s) -> Cell]
      BY <1>1
    <3>2. \A c \in Cell : \E i \in 1 .. Len(s) : s[i] = c
      BY DEF Elements
    <3> QED
      BY <3>1, <3>2 DEF Surjection
  <2>2. ExistsSurjection(1 .. Len(s), Cell)
    BY <2>1 DEF ExistsSurjection
  <2>3. Cardinality(Cell) <= Len(s)
    BY <1>1, <2>2, FS_SurjCardinalityBound
  <2>4. Cardinality(Cell) \in Nat
    BY ListAssumption, FS_CardinalityType
  <2> QED
    BY <1>1, <2>3, <2>4, ListAssumption
<1> QED
  BY <1>1, <1>2, <1>3 DEF LL!Acquire

(* A cell linked into a list, wherever: the head points to it at an end. *)
LEMMA CellIn ==
    ASSUME NEW l, NEW s, OfCells(l, s), NEW m \in Lists, NEW c \in Cell, NEW k \in 1 .. Len(s) + 1,
           GoesIn(c, k, s, l.next, l.last, m.next, m.last, NIL),
           m.next[HEAD] = IF k = 1 THEN c ELSE l.next[HEAD],
           m.last[HEAD] = IF k = Len(s) + 1 THEN c ELSE l.last[HEAD],
           \A e \in Cell \ Elements(s) : e # c => m.next[e] = l.next[e]
    PROVE  \E t : OfCells(m, t) /\ Len(t) = Len(s) + 1
<1>1. s \in Seq(Cell) /\ NIL \notin Cell
  BY ListAssumption DEF OfCells
<1>2. PICK t \in Seq(Cell) : Chained(t, m.next, m.last, NIL) /\ IsIn(c, k, s, t, NIL)
  BY <1>1, LinkedIn
<1> QED
  BY <1>2 DEF OfCells, IsIn

(* A cell linked out of a list. *)
LEMMA CellOut ==
    ASSUME NEW l, NEW s, OfCells(l, s), NEW m \in Lists, NEW k \in 1 .. Len(s),
           GoesOut(k, s, l.next, l.last, m.next, m.last, NIL),
           m.next[HEAD] = IF k = 1 THEN ElementAt(s, 2, NIL) ELSE l.next[HEAD],
           m.last[HEAD] = IF k = Len(s) THEN ElementAt(s, Len(s) - 1, NIL) ELSE l.last[HEAD],
           m.next[s[k]] = NIL, \A e \in Cell \ Elements(s) : m.next[e] = l.next[e]
    PROVE  \E t : OfCells(m, t) /\ Len(t) = Len(s) - 1
<1>1. s \in Seq(Cell) /\ NIL \notin Cell
  BY ListAssumption DEF OfCells
<1>2. PICK t \in Seq(Cell) : Chained(t, m.next, m.last, NIL) /\ IsOut(k, s, t, NIL)
  BY <1>1, LinkedOut
<1> QED
  BY <1>2 DEF OfCells, IsOut

(* Its own links and those of its neighbours are all that is written for a   *)
(* cell that is pushed.                                                      *)
LEMMA PushedIs ==
    ASSUME NEW l, NEW s, OfCells(l, s), Len(s) < MaxLength, NEW x \in Item \cup {NULL}
    PROVE  \E t : OfCells(LL!Pushed(l, x), t) /\ Len(t) = Len(s) + 1
<1> DEFINE c == LL!Acquire(l)
<1> DEFINE tail == IF l.next[HEAD] = NIL THEN HEAD ELSE l.last[HEAD]
<1> DEFINE m == LL!Pushed(l, x)
<1>1. Len(s) \in Nat /\ s \in Seq(Cell) /\ l \in Lists /\ Chained(s, l.next, l.last, NIL)
  BY ForwardIs DEF OfCells
<1>2. c \in Cell /\ c \notin Elements(s) /\ c # HEAD /\ c # NIL
  BY AcquireIs, ListAssumption
<1>3. tail = (IF Len(s) = 0 THEN HEAD ELSE s[Len(s)]) /\ (tail = HEAD <=> Len(s) = 0) /\ tail \in LL!Entity
  <2>1. \A i \in 1 .. Len(s) : s[i] \in Cell /\ s[i] # HEAD /\ s[i] # NIL
    BY <1>1, ListAssumption
  <2>2. l.next[HEAD] = ElementAt(s, 1, NIL) /\ l.last[HEAD] = ElementAt(s, Len(s), NIL)
    BY DEF OfCells
  <2>3. CASE Len(s) = 0
    BY <1>1, <2>2, <2>3 DEF ElementAt, LL!Entity
  <2>4. CASE Len(s) # 0
    <3>1. 1 \in 1 .. Len(s) /\ Len(s) \in 1 .. Len(s)
      BY <1>1, <2>4
    <3> QED
      BY <2>1, <2>2, <2>4, <3>1 DEF ElementAt, LL!Entity
  <2> QED
    BY <2>3, <2>4
<1>4. m = [l EXCEPT !.content[c] = x, !.next[tail] = c, !.last[c] = IF tail = HEAD THEN NIL ELSE tail,
                    !.last[HEAD] = c]
  BY DEF LL!Pushed
<1> HIDE DEF c, tail, m
<1>5. /\ m.next = [l.next EXCEPT ![tail] = c]
      /\ m.last = [l.last EXCEPT ![c] = IF tail = HEAD THEN NIL ELSE tail, ![HEAD] = c]
      /\ m.content = [l.content EXCEPT ![c] = x]
      /\ m = [next |-> m.next, last |-> m.last, content |-> m.content]
  BY <1>1, <1>4 DEF Lists
<1>6. m \in Lists
  <2>1. m.next \in [LL!Entity -> Cell \cup {NIL}]
    BY <1>1, <1>2, <1>5 DEF Lists
  <2>2. (IF tail = HEAD THEN NIL ELSE tail) \in Cell \cup {NIL}
    BY <1>3 DEF LL!Entity
  <2>3. m.last \in [LL!Entity -> Cell \cup {NIL}]
    BY <1>1, <1>2, <1>5, <2>2 DEF Lists
  <2>4. m.content \in [LL!Entity -> Item \cup {NULL}]
    BY <1>1, <1>5 DEF Lists
  <2> QED
    BY <1>5, <2>1, <2>3, <2>4 DEF Lists
<1>7. \A i \in 1 .. Len(s) : s[i] # HEAD /\ s[i] # c /\ s[i] \in LL!Entity
  BY <1>1, <1>2, ListAssumption DEF Elements, LL!Entity
<1>8. \A i, j \in 1 .. Len(s) : s[i] = s[j] => i = j
  BY <1>1 DEF Chained, NoTwice
<1>9. c \in LL!Entity /\ HEAD \in LL!Entity /\ l.next \in [LL!Entity -> Cell \cup {NIL}] /\ l.last \in [LL!Entity -> Cell \cup {NIL}]
  BY <1>1, <1>2 DEF Lists, LL!Entity
<1>10. /\ m.next = [l.next EXCEPT ![tail] = c]
       /\ m.last[c] = (IF tail = HEAD THEN NIL ELSE tail) /\ m.last[HEAD] = c
       /\ \A e \in LL!Entity : e # c /\ e # HEAD => m.last[e] = l.last[e]
  BY <1>2, <1>5, <1>9
<1>11. m.next[c] = NIL
  <2>1. c # tail
    BY <1>2, <1>3, <1>7
  <2>2. l.next[c] = NIL
    BY <1>2 DEF OfCells
  <2> QED
    BY <1>9, <1>10, <2>1, <2>2
<1> DEFINE k == Len(s) + 1
<1>12. GoesIn(c, k, s, l.next, l.last, m.next, m.last, NIL)
  <2>1. ElementAt(s, k, NIL) = NIL /\ k \in 1 .. Len(s) + 1 /\ k - 1 = Len(s) /\ ~(k <= Len(s)) /\ k - 1 = Len(s)
    BY <1>1 DEF ElementAt
  <2>2. m.last[c] = ElementAt(s, k - 1, NIL)
    BY <1>1, <1>3, <1>10, <2>1 DEF ElementAt
  <2>3. k > 1 => m.next[s[k - 1]] = c
    BY <1>1, <1>3, <1>9, <1>10, <2>1
  <2>4. ASSUME NEW i \in 1 .. Len(s), i # k - 1 PROVE m.next[s[i]] = l.next[s[i]]
    <3>1. s[i] # tail
      <4>1. Len(s) # 0 /\ Len(s) \in 1 .. Len(s)
        BY <1>1
      <4>2. i # Len(s)
        BY <2>1, <2>4, Zenon
      <4>3. tail = s[Len(s)]
        BY <1>3, <4>1
      <4> QED
        BY <1>8, <4>1, <4>2, <4>3
    <3> QED
      BY <1>7, <1>9, <1>10, <3>1
  <2>5. ASSUME NEW i \in 1 .. Len(s) PROVE m.last[s[i]] = l.last[s[i]]
    BY <1>7, <1>10
  <2> QED
    BY <1>1, <1>2, <1>11, <2>1, <2>2, <2>3, <2>4, <2>5, Zenon DEF GoesIn
<1>13. m.next[HEAD] = IF k = 1 THEN c ELSE l.next[HEAD]
  BY <1>1, <1>3, <1>7, <1>9, <1>10
<1>14. \A e \in Cell \ Elements(s) : e # c => m.next[e] = l.next[e]
  <2> SUFFICES ASSUME NEW e \in Cell \ Elements(s) PROVE m.next[e] = l.next[e]
    OBVIOUS
  <2>1. e # tail /\ e \in LL!Entity
    BY <1>1, <1>3, ListAssumption DEF Elements, LL!Entity
  <2> QED
    BY <1>9, <1>10, <2>1
<1>15. k \in 1 .. Len(s) + 1 /\ m.last[HEAD] = IF k = Len(s) + 1 THEN c ELSE l.last[HEAD]
  BY <1>1, <1>10
<1> HIDE DEF k
<1> QED
  BY <1>2, <1>6, <1>12, <1>13, <1>14, <1>15, CellIn DEF m

(* A list that is made longer is filled with cells, up to before the place. *)
LEMMA ExpandedIs ==
    ASSUME NEW l, NEW s, OfCells(l, s), Len(s) <= MaxLength, NEW pos \in LL!Position
    PROVE  \E t : /\ OfCells(LL!Expanded(l, pos), t)
                  /\ Len(t) = IF pos - 1 > Len(s) THEN pos - 1 ELSE Len(s)
<1> DEFINE n == Len(LL!Forward(l))
<1>0. n = Len(s) /\ n \in Nat /\ pos \in 1 .. MaxLength /\ MaxLength \in Nat
  BY ForwardIs, ListAssumption DEF LL!Position
<1> HIDE DEF n
<1> DEFINE Grows(m, g) == g = [k \in n .. m |-> IF k = n THEN l ELSE LL!Pushed(g[k - 1], NULL)]
<1> DEFINE T == {d \in Nat : \E g : Grows(n + d, g)}
<1>1. 0 \in T
  <2> DEFINE g == [k \in n .. n |-> l]
  <2>1. Grows(n, g)
    <3>1. \A k \in n .. n : k = n
      BY <1>0
    <3> QED
      BY <3>1
  <2>2. n + 0 = n
    BY <1>0
  <2> HIDE DEF Grows, g
  <2> QED
    BY <2>1, <2>2
<1>2. ASSUME NEW d \in T PROVE d + 1 \in T
  <2> HIDE DEF T
  <2>0. d \in Nat /\ \E g : Grows(n + d, g)
    BY DEF T
  <2>1. PICK f : Grows(n + d, f)
    BY <2>0
  <2> DEFINE m == n + d
  <2>2. m \in Nat /\ n + (d + 1) = m + 1 /\ n \in n .. m /\ n .. m \subseteq n .. m + 1
        /\ \A k \in n .. m + 1 : k # n => k - 1 \in n .. m
    BY <1>0, <2>0
  <2> HIDE DEF m
  <2> DEFINE g == [k \in n .. m + 1 |-> IF k = n THEN l ELSE LL!Pushed(f[k - 1], NULL)]
  <2>3. f = [k \in n .. m |-> IF k = n THEN l ELSE LL!Pushed(f[k - 1], NULL)]
    BY <2>1 DEF m
  <2>4. \A k \in n .. m : g[k] = f[k]
    BY <2>2, <2>3
  <2>5. \A k \in n .. m + 1 : k # n => f[k - 1] = g[k - 1]
    BY <2>2, <2>4
  <2>6. g = [k \in n .. m + 1 |-> IF k = n THEN l ELSE LL!Pushed(f[k - 1], NULL)]
    OBVIOUS
  <2> HIDE DEF g
  <2>7. ASSUME NEW k \in n .. m + 1
        PROVE  (IF k = n THEN l ELSE LL!Pushed(f[k - 1], NULL)) = IF k = n THEN l ELSE LL!Pushed(g[k - 1], NULL)
    BY <2>5
  <2>8. Grows(m + 1, g)
    BY <2>6, <2>7
  <2> QED
    BY <2>0, <2>2, <2>8 DEF T
<1>3. T = Nat
  <2>1. T \in SUBSET Nat
    OBVIOUS
  <2> HIDE DEF T
  <2> QED
    BY <1>1, <1>2, <2>1, InductionOnNat
<1>a. MaxLength < n \/ \E g : Grows(MaxLength, g)
  <2> SUFFICES ASSUME n <= MaxLength PROVE \E g : Grows(MaxLength, g)
    BY <1>0
  <2>1. MaxLength - n \in Nat /\ n + (MaxLength - n) = MaxLength
    BY <1>0
  <2>2. MaxLength - n \in T
    BY <1>3, <2>1
  <2> HIDE DEF Grows
  <2> QED
    BY <2>1, <2>2
<1>4. \E g : Grows(MaxLength, g)
  BY <1>0, <1>a DEF n
<1> DEFINE grow == CHOOSE g : Grows(MaxLength, g)
<1>5. Grows(MaxLength, grow)
  <2> HIDE DEF Grows
  <2> QED
    BY <1>4
<1> HIDE DEF T, grow
<1>6. LL!Expanded(l, pos) = IF pos - 1 > n THEN grow[pos - 1] ELSE l
  BY Zenon DEF LL!Expanded, grow, n
<1> DEFINE U == {d \in Nat : n + d <= MaxLength => \E t : OfCells(grow[n + d], t) /\ Len(t) = n + d}
<1>7. \A k \in n .. MaxLength : grow[k] = IF k = n THEN l ELSE LL!Pushed(grow[k - 1], NULL)
  BY <1>5
<1> HIDE DEF Grows
<1>8. 0 \in U
  <2>1. n + 0 = n /\ n \in n .. MaxLength
    BY <1>0
  <2>2. grow[n] = l
    BY <1>7, <2>1
  <2> QED
    BY <1>0, <2>1, <2>2
<1>9. ASSUME NEW d \in U PROVE d + 1 \in U
  <2> DEFINE Long(k) == \E t : OfCells(grow[k], t) /\ Len(t) = k
  <2>1. U = {e \in Nat : n + e <= MaxLength => Long(n + e)}
    OBVIOUS
  <2> HIDE DEF U, Long
  <2>2. SUFFICES ASSUME n + (d + 1) <= MaxLength PROVE Long(n + (d + 1))
    BY <1>9, <2>1
  <2>3. d \in Nat /\ Long(n + d)
    BY <1>0, <1>9, <2>1, <2>2
  <2> DEFINE k == n + (d + 1)
  <2>4. k \in n .. MaxLength /\ k # n /\ k - 1 = n + d /\ k - 1 < MaxLength /\ (k - 1) + 1 = k
    BY <1>0, <2>2, <2>3
  <2> HIDE DEF k
  <2>5. PICK t : OfCells(grow[k - 1], t) /\ Len(t) = k - 1
    BY <2>3, <2>4 DEF Long
  <2>6. \E u : OfCells(LL!Pushed(grow[k - 1], NULL), u) /\ Len(u) = Len(t) + 1
    BY <2>4, <2>5, PushedIs
  <2>7. Long(k)
    BY <1>7, <2>4, <2>5, <2>6 DEF Long
  <2> QED
    BY <2>7 DEF k
<1>10. U = Nat
  <2>1. U \in SUBSET Nat
    OBVIOUS
  <2> HIDE DEF U
  <2> QED
    BY <1>8, <1>9, <2>1, InductionOnNat
<1>11. CASE pos - 1 > n
  <2>1. (pos - 1) - n \in U /\ n + ((pos - 1) - n) = pos - 1 /\ pos - 1 <= MaxLength
    <3> HIDE DEF U
    <3> QED
      BY <1>0, <1>10, <1>11
  <2>2. \E t : OfCells(grow[pos - 1], t) /\ Len(t) = pos - 1
    BY <2>1
  <2> QED
    BY <1>0, <1>6, <1>11, <2>2
<1>12. CASE ~(pos - 1 > n)
  BY <1>0, <1>6, <1>12
<1> QED
  BY <1>11, <1>12

(* What is known of a list and its cells, without quantifying over links. *)
LEMMA CellsAre ==
    ASSUME NEW l, NEW s, OfCells(l, s)
    PROVE  /\ Len(s) \in Nat /\ l \in Lists /\ s \in Seq(Cell)
           /\ l.next \in [LL!Entity -> Cell \cup {NIL}] /\ l.last \in [LL!Entity -> Cell \cup {NIL}]
           /\ l.content \in [LL!Entity -> Item \cup {NULL}]
           /\ \A i \in 1 .. Len(s) : /\ s[i] \in Cell /\ s[i] # HEAD /\ s[i] # NIL /\ s[i] \in LL!Entity
                                     /\ l.next[s[i]] = ElementAt(s, i + 1, NIL) /\ l.last[s[i]] = ElementAt(s, i - 1, NIL)
                                     /\ ElementAt(s, i, NIL) = s[i]
           /\ \A i, j \in 1 .. Len(s) : s[i] = s[j] => i = j
           /\ l.next[HEAD] = ElementAt(s, 1, NIL) /\ l.last[HEAD] = ElementAt(s, Len(s), NIL)
           /\ HEAD \in LL!Entity /\ Cell \subseteq LL!Entity /\ HEAD \notin Cell /\ NIL \notin LL!Entity /\ HEAD # NIL
           /\ ElementAt(s, 0, NIL) = NIL /\ ElementAt(s, Len(s) + 1, NIL) = NIL
<1>1. Len(s) \in Nat /\ l \in Lists /\ s \in Seq(Cell) /\ Chained(s, l.next, l.last, NIL)
      /\ l.next[HEAD] = ElementAt(s, 1, NIL) /\ l.last[HEAD] = ElementAt(s, Len(s), NIL)
  BY ForwardIs DEF OfCells
<1>2. l.next \in [LL!Entity -> Cell \cup {NIL}] /\ l.last \in [LL!Entity -> Cell \cup {NIL}]
      /\ l.content \in [LL!Entity -> Item \cup {NULL}]
  BY <1>1 DEF Lists
<1>3. HEAD \in LL!Entity /\ Cell \subseteq LL!Entity /\ HEAD \notin Cell /\ NIL \notin LL!Entity /\ HEAD # NIL
  BY ListAssumption DEF LL!Entity
<1>4. \A i \in 1 .. Len(s) : s[i] \in Cell /\ l.next[s[i]] = ElementAt(s, i + 1, NIL) /\ l.last[s[i]] = ElementAt(s, i - 1, NIL)
  BY <1>1 DEF Chained
<1>5. \A i, j \in 1 .. Len(s) : s[i] = s[j] => i = j
  BY <1>1 DEF Chained, NoTwice
<1>6. ElementAt(s, 0, NIL) = NIL /\ ElementAt(s, Len(s) + 1, NIL) = NIL /\ \A i \in 1 .. Len(s) : ElementAt(s, i, NIL) = s[i]
  BY <1>1 DEF ElementAt
<1> QED
  BY <1>1, <1>2, <1>3, <1>4, <1>5, <1>6

(* A cell inserted at a place up to the first free one. *)
LEMMA InsertedIs ==
    ASSUME NEW l, NEW s, OfCells(l, s), Len(s) < MaxLength, NEW x \in Item \cup {NULL}, NEW k \in 1 .. Len(s) + 1
    PROVE  \E t : OfCells(LL!Inserted(l, k, x), t) /\ Len(t) = Len(s) + 1
<1> DEFINE c == LL!Acquire(l)
<1> DEFINE entity == LL!Before(l, k)
<1> DEFINE after == l.next[entity]
<1> DEFINE linked == [l EXCEPT !.content[c] = x, !.next[c] = after,
                               !.last[c] = IF entity = HEAD THEN NIL ELSE entity, !.next[entity] = c]
<1> DEFINE back == IF after # NIL THEN [linked EXCEPT !.last[after] = c] ELSE linked
<1> DEFINE m == IF l.last[HEAD] \in {entity, NIL} THEN [back EXCEPT !.last[HEAD] = c] ELSE back
<1>0. LL!Inserted(l, k, x) = m
  BY DEF LL!Inserted
<1>1. /\ Len(s) \in Nat /\ k \in Nat /\ l \in Lists /\ l.next \in [LL!Entity -> Cell \cup {NIL}]
      /\ l.last \in [LL!Entity -> Cell \cup {NIL}] /\ l.content \in [LL!Entity -> Item \cup {NULL}]
      /\ HEAD \in LL!Entity /\ Cell \subseteq LL!Entity /\ HEAD \notin Cell /\ NIL \notin LL!Entity /\ HEAD # NIL
  BY CellsAre
<1>2. c \in Cell /\ c \notin Elements(s) /\ c # HEAD /\ c \in LL!Entity
  BY <1>1, AcquireIs
<1>3. /\ entity = (IF k = 1 THEN HEAD ELSE s[k - 1]) /\ (k # 1 => k - 1 \in 1 .. Len(s) /\ entity # HEAD)
      /\ entity \in LL!Entity /\ entity # c
  <2>1. k # 1 => k - 1 \in 1 .. Len(s)
    BY <1>1
  <2>2. LL!Forward(l) = s
    BY ForwardIs
  <2>3. entity = IF k = 1 THEN HEAD ELSE s[k - 1]
    BY <2>1, <2>2 DEF LL!Before, LL!EntityAt
  <2> QED
    BY <1>1, <1>2, <2>1, <2>3, CellsAre DEF Elements
<1>4. after = ElementAt(s, k, NIL) /\ (IF entity = HEAD THEN NIL ELSE entity) = ElementAt(s, k - 1, NIL)
  <2>1. CASE k = 1
    BY <1>3, <2>1, CellsAre
  <2>2. CASE k # 1
    <3>1. k - 1 \in 1 .. Len(s) /\ (k - 1) + 1 = k
      BY <1>1, <2>2
    <3> QED
      BY <1>3, <2>2, <3>1, CellsAre
  <2> QED
    BY <2>1, <2>2
<1>5. (k <= Len(s) => after = s[k] /\ after \in Cell /\ after # HEAD /\ after # c) /\ (k > Len(s) => after = NIL)
  <2>1. CASE k <= Len(s)
    <3>1. k \in 1 .. Len(s)
      BY <1>1, <2>1
    <3> QED
      BY <1>2, <1>4, <2>1, <3>1, CellsAre DEF Elements
  <2>2. CASE k > Len(s)
    <3>1. k = Len(s) + 1
      BY <1>1, <2>2
    <3> QED
      BY <1>1, <1>4, <2>2, <3>1, CellsAre
  <2> QED
    BY <1>1, <2>1, <2>2
<1>6. (l.last[HEAD] \in {entity, NIL}) <=> k = Len(s) + 1
  <2>1. CASE Len(s) = 0
    BY <1>1, <2>1, CellsAre
  <2>2. CASE Len(s) # 0
    <3>1. Len(s) \in 1 .. Len(s)
      BY <1>1, <2>2
    <3>2. l.last[HEAD] = s[Len(s)] /\ s[Len(s)] # HEAD /\ s[Len(s)] # NIL
      BY <3>1, CellsAre
    <3>3. CASE k = 1
      BY <1>1, <1>3, <2>2, <3>2, <3>3
    <3>4. CASE k # 1
      <4>1. entity = s[k - 1] /\ k - 1 \in 1 .. Len(s)
        BY <1>3, <3>4
      <4>2. s[k - 1] = s[Len(s)] <=> k - 1 = Len(s)
        BY <3>1, <4>1, CellsAre
      <4> QED
        BY <1>1, <3>2, <4>1, <4>2
    <3> QED
      BY <3>3, <3>4
  <2> QED
    BY <2>1, <2>2
<1> HIDE DEF c, entity, after
<1>7. /\ linked.next = [l.next EXCEPT ![c] = after, ![entity] = c]
      /\ linked.last = [l.last EXCEPT ![c] = ElementAt(s, k - 1, NIL)]
      /\ linked.content = [l.content EXCEPT ![c] = x]
      /\ linked = [next |-> linked.next, last |-> linked.last, content |-> linked.content]
  <2> DEFINE before == IF entity = HEAD THEN NIL ELSE entity
  <2>1. before = ElementAt(s, k - 1, NIL)
    BY <1>4
  <2> HIDE DEF before
  <2>2. linked = [l EXCEPT !.content[c] = x, !.next[c] = after, !.last[c] = before, !.next[entity] = c]
    BY Zenon DEF before
  <2> HIDE DEF linked
  <2>3. /\ linked.next = [l.next EXCEPT ![c] = after, ![entity] = c]
        /\ linked.last = [l.last EXCEPT ![c] = before]
        /\ linked.content = [l.content EXCEPT ![c] = x]
        /\ linked = [next |-> linked.next, last |-> linked.last, content |-> linked.content]
    BY <1>1, <2>2 DEF Lists
  <2> QED
    BY <2>1, <2>3
<1> HIDE DEF linked
<1>8. /\ back.next = linked.next /\ back.content = linked.content
      /\ back.last = (IF k <= Len(s) THEN [linked.last EXCEPT ![after] = c] ELSE linked.last)
      /\ back = [next |-> back.next, last |-> back.last, content |-> back.content]
  <2>1. after # NIL <=> k <= Len(s)
    BY <1>1, <1>5
  <2> QED
    BY <1>7, <2>1
<1> HIDE DEF back
<1>9. /\ m.next = back.next /\ m.content = back.content
      /\ m.last = (IF k = Len(s) + 1 THEN [back.last EXCEPT ![HEAD] = c] ELSE back.last)
      /\ m = [next |-> m.next, last |-> m.last, content |-> m.content]
  BY <1>6, <1>8
<1> HIDE DEF m
<1>10. /\ m.next[c] = after /\ m.next[entity] = c
       /\ \A e \in LL!Entity : e # c /\ e # entity => m.next[e] = l.next[e]
  BY <1>1, <1>2, <1>3, <1>7, <1>8, <1>9
<1>11. linked.last \in [LL!Entity -> Cell \cup {NIL}]
  <2>1. ElementAt(s, k - 1, NIL) \in Cell \cup {NIL}
    BY <1>1, CellsAre DEF ElementAt
  <2> QED
    BY <1>1, <1>2, <1>7, <2>1
<1>12. back.last \in [LL!Entity -> Cell \cup {NIL}]
  BY <1>2, <1>8, <1>11
<1>13. /\ m.last[c] = ElementAt(s, k - 1, NIL) /\ (k <= Len(s) => m.last[s[k]] = c)
       /\ m.last[HEAD] = (IF k = Len(s) + 1 THEN c ELSE l.last[HEAD])
       /\ \A e \in LL!Entity : e # c /\ e # HEAD /\ (k <= Len(s) => e # s[k]) => m.last[e] = l.last[e]
  <2>1. CASE k <= Len(s)
    <3>1. k # Len(s) + 1 /\ m.last = [linked.last EXCEPT ![after] = c] /\ after = s[k] /\ after \in LL!Entity
          /\ after # c /\ after # HEAD
      BY <1>1, <1>5, <1>8, <1>9, <2>1
    <3> QED
      BY <1>1, <1>2, <1>7, <1>11, <2>1, <3>1
  <2>2. CASE k = Len(s) + 1
    <3>1. ~(k <= Len(s)) /\ m.last = [linked.last EXCEPT ![HEAD] = c]
      BY <1>1, <1>8, <1>9, <2>2
    <3> QED
      BY <1>1, <1>2, <1>7, <1>11, <2>2, <3>1
  <2> QED
    BY <1>1, <2>1, <2>2
<1>14. m \in Lists
  <2>1. m.last \in [LL!Entity -> Cell \cup {NIL}]
    BY <1>2, <1>9, <1>12
  <2>2. after \in Cell \cup {NIL}
    BY <1>1, <1>5
  <2>3. m.next \in [LL!Entity -> Cell \cup {NIL}]
    BY <1>1, <1>2, <1>3, <1>7, <1>8, <1>9, <2>2
  <2>4. m.content \in [LL!Entity -> Item \cup {NULL}]
    BY <1>1, <1>2, <1>7, <1>8, <1>9
  <2> QED
    BY <1>9, <2>1, <2>3, <2>4 DEF Lists
<1>15. GoesIn(c, k, s, l.next, l.last, m.next, m.last, NIL)
  <2>1. k > 1 => m.next[s[k - 1]] = c
    BY <1>1, <1>3, <1>10
  <2>2. ASSUME NEW i \in 1 .. Len(s), i # k - 1 PROVE m.next[s[i]] = l.next[s[i]]
    <3>1. s[i] # c /\ s[i] # HEAD /\ s[i] \in LL!Entity
      BY <1>2, CellsAre DEF Elements
    <3>2. s[i] # entity
      BY <1>3, <2>2, <3>1, CellsAre
    <3> QED
      BY <1>10, <3>1, <3>2
  <2>3. ASSUME NEW i \in 1 .. Len(s), i # k PROVE m.last[s[i]] = l.last[s[i]]
    <3>1. s[i] # c /\ s[i] # HEAD /\ s[i] \in LL!Entity
      BY <1>2, CellsAre DEF Elements
    <3>2. k <= Len(s) => s[i] # s[k]
      BY <1>1, <2>3, CellsAre
    <3> QED
      BY <1>13, <3>1, <3>2
  <2>4. Chained(s, l.next, l.last, NIL)
    BY DEF OfCells
  <2> QED
    BY <1>2, <1>4, <1>10, <1>13, <2>1, <2>2, <2>3, <2>4 DEF GoesIn
<1>16. m.next[HEAD] = IF k = 1 THEN c ELSE l.next[HEAD]
  BY <1>1, <1>2, <1>3, <1>10
<1>17. \A e \in Cell \ Elements(s) : e # c => m.next[e] = l.next[e]
  <2> SUFFICES ASSUME NEW e \in Cell \ Elements(s), e # c PROVE m.next[e] = l.next[e]
    OBVIOUS
  <2>1. e # entity
    BY <1>1, <1>3 DEF Elements
  <2> QED
    BY <1>1, <1>10, <2>1
<1> QED
  BY <1>0, <1>2, <1>13, <1>14, <1>15, <1>16, <1>17, CellIn

(* A cell removed: it has no link left, and its neighbours have each other. *)
LEMMA RemovedIs ==
    ASSUME NEW l, NEW s, OfCells(l, s), NEW k \in 1 .. Len(s)
    PROVE  \E t : OfCells(LL!Removed(l, s[k]), t) /\ Len(t) = Len(s) - 1
<1> DEFINE e == s[k]
<1> DEFINE behind == ElementAt(s, k + 1, NIL)
<1> DEFINE before == ElementAt(s, k - 1, NIL)
<1>1. /\ Len(s) \in Nat /\ k \in Nat /\ l \in Lists /\ l.next \in [LL!Entity -> Cell \cup {NIL}]
      /\ l.last \in [LL!Entity -> Cell \cup {NIL}] /\ l.content \in [LL!Entity -> Item \cup {NULL}]
      /\ HEAD \in LL!Entity /\ Cell \subseteq LL!Entity /\ HEAD \notin Cell /\ NIL \notin LL!Entity /\ HEAD # NIL
      /\ l = [next |-> l.next, last |-> l.last, content |-> l.content]
  BY CellsAre DEF Lists
<1>2. e \in Cell /\ l.next[e] = behind /\ l.last[e] = before /\ behind \in Cell \cup {NIL} /\ before \in Cell \cup {NIL}
      /\ e # HEAD /\ e # NIL /\ e \in LL!Entity
  <2>1. e \in Cell /\ l.next[e] = behind /\ l.last[e] = before /\ e # HEAD /\ e # NIL /\ e \in LL!Entity
    BY CellsAre
  <2> HIDE DEF behind, before, e
  <2> QED
    BY <1>1, <2>1
<1>3. /\ behind = (IF k < Len(s) THEN s[k + 1] ELSE NIL) /\ before = (IF k > 1 THEN s[k - 1] ELSE NIL)
      /\ behind # e /\ before # e /\ (behind # NIL => behind # before)
  <2>1. k < Len(s) => k + 1 \in 1 .. Len(s) /\ s[k + 1] # s[k]
    <3> SUFFICES ASSUME k < Len(s) PROVE k + 1 \in 1 .. Len(s) /\ s[k + 1] # s[k]
      OBVIOUS
    <3>1. k + 1 \in 1 .. Len(s) /\ k + 1 # k
      BY <1>1
    <3> QED
      BY <3>1, CellsAre
  <2>2. k > 1 => k - 1 \in 1 .. Len(s) /\ s[k - 1] # s[k]
    <3> SUFFICES ASSUME k > 1 PROVE k - 1 \in 1 .. Len(s) /\ s[k - 1] # s[k]
      OBVIOUS
    <3>1. k - 1 \in 1 .. Len(s) /\ k - 1 # k
      BY <1>1
    <3> QED
      BY <3>1, CellsAre
  <2>3. k < Len(s) /\ k > 1 => s[k + 1] # s[k - 1]
    <3> SUFFICES ASSUME k < Len(s), k > 1 PROVE s[k + 1] # s[k - 1]
      OBVIOUS
    <3>1. k + 1 \in 1 .. Len(s) /\ k - 1 \in 1 .. Len(s) /\ k + 1 # k - 1
      BY <1>1
    <3> QED
      BY <3>1, CellsAre
  <2>4. ~(k < Len(s)) => k + 1 \notin 1 .. Len(s)
    BY <1>1
  <2>5. ~(k > 1) => k - 1 \notin 1 .. Len(s)
    BY <1>1
  <2> QED
    BY <1>2, <2>1, <2>2, <2>3, <2>4, <2>5 DEF ElementAt
<1>4. (k = 1 <=> l.next[HEAD] = e) /\ (k = Len(s) <=> l.last[HEAD] = e)
  <2>1. 1 \in 1 .. Len(s) /\ Len(s) \in 1 .. Len(s)
    BY <1>1
  <2>2. l.next[HEAD] = s[1] /\ l.last[HEAD] = s[Len(s)]
    BY <2>1, CellsAre
  <2> QED
    BY <2>1, <2>2, CellsAre
<1>5. (before # NIL <=> k > 1) /\ (behind # NIL <=> k < Len(s)) /\ before # HEAD /\ behind # HEAD
  <2>1. k > 1 => k - 1 \in 1 .. Len(s)
    BY <1>1
  <2>2. k < Len(s) => k + 1 \in 1 .. Len(s)
    BY <1>1
  <2> QED
    BY <1>1, <1>2, <1>3, <2>1, <2>2, CellsAre
<1> DEFINE first == IF l.next[HEAD] = e THEN [l EXCEPT !.next[HEAD] = l.next[e]] ELSE l
<1> DEFINE end == IF l.last[HEAD] = e THEN [first EXCEPT !.last[HEAD] = l.last[e]] ELSE first
<1> DEFINE ahead == IF l.last[e] # NIL THEN [end EXCEPT !.next[l.last[e]] = l.next[e]] ELSE end
<1> DEFINE back == IF l.next[e] # NIL THEN [ahead EXCEPT !.last[l.next[e]] = l.last[e]] ELSE ahead
<1> DEFINE m == [back EXCEPT !.next[e] = NIL, !.last[e] = NIL, !.content[e] = NULL]
<1>6. LL!Removed(l, s[k]) = m
  BY DEF LL!Removed, LL!Release
<1> HIDE DEF e, behind, before
<1>7. /\ first.next = (IF k = 1 THEN [l.next EXCEPT ![HEAD] = behind] ELSE l.next)
      /\ first.last = l.last /\ first.content = l.content
      /\ first = [next |-> first.next, last |-> first.last, content |-> first.content]
  BY <1>1, <1>2, <1>4
<1> HIDE DEF first
<1>8. /\ end.last = (IF k = Len(s) THEN [l.last EXCEPT ![HEAD] = before] ELSE l.last)
      /\ end.next = first.next /\ end.content = l.content
      /\ end = [next |-> end.next, last |-> end.last, content |-> end.content]
  BY <1>2, <1>4, <1>7
<1> HIDE DEF end
<1>9. /\ ahead.next = (IF k > 1 THEN [first.next EXCEPT ![before] = behind] ELSE first.next)
      /\ ahead.last = end.last /\ ahead.content = l.content
      /\ ahead = [next |-> ahead.next, last |-> ahead.last, content |-> ahead.content]
  BY <1>2, <1>5, <1>8
<1> HIDE DEF ahead
<1>10. /\ back.last = (IF k < Len(s) THEN [end.last EXCEPT ![behind] = before] ELSE end.last)
       /\ back.next = ahead.next /\ back.content = l.content
       /\ back = [next |-> back.next, last |-> back.last, content |-> back.content]
  BY <1>2, <1>5, <1>9
<1> HIDE DEF back
<1>11. /\ m.next = [ahead.next EXCEPT ![e] = NIL] /\ m.last = [back.last EXCEPT ![e] = NIL]
       /\ m.content = [l.content EXCEPT ![e] = NULL]
       /\ m = [next |-> m.next, last |-> m.last, content |-> m.content]
  <2> DEFINE x == back.next
  <2> DEFINE y == back.last
  <2> DEFINE z == back.content
  <2>1. back = [next |-> x, last |-> y, content |-> z]
    BY <1>10
  <2> HIDE DEF x, y, z
  <2>2. m = [next |-> [x EXCEPT ![e] = NIL], last |-> [y EXCEPT ![e] = NIL], content |-> [z EXCEPT ![e] = NULL]]
    <3>1. m = [[next |-> x, last |-> y, content |-> z] EXCEPT !.next[e] = NIL, !.last[e] = NIL, !.content[e] = NULL]
      BY <2>1, Zenon
    <3> HIDE DEF m
    <3> QED
      BY <3>1
  <2>3. x = ahead.next /\ y = back.last /\ z = l.content
    BY <1>10 DEF x, y, z
  <2> HIDE DEF m
  <2> QED
    BY <2>2, <2>3
<1> HIDE DEF m
<1>12. /\ first.next \in [LL!Entity -> Cell \cup {NIL}] /\ ahead.next \in [LL!Entity -> Cell \cup {NIL}]
       /\ end.last \in [LL!Entity -> Cell \cup {NIL}] /\ back.last \in [LL!Entity -> Cell \cup {NIL}]
  <2>1. first.next \in [LL!Entity -> Cell \cup {NIL}] /\ end.last \in [LL!Entity -> Cell \cup {NIL}]
    BY <1>1, <1>2, <1>7, <1>8
  <2>2. behind \in Cell \cup {NIL} /\ before \in Cell \cup {NIL}
    BY <1>2
  <2>3. ahead.next \in [LL!Entity -> Cell \cup {NIL}]
    BY <1>9, <2>1, <2>2
  <2>4. back.last \in [LL!Entity -> Cell \cup {NIL}]
    BY <1>10, <2>1, <2>2
  <2> QED
    BY <2>1, <2>3, <2>4
<1>13. m \in Lists
  BY <1>1, <1>2, <1>11, <1>12 DEF Lists
<1>14. /\ m.next[e] = NIL
       /\ m.next[HEAD] = (IF k = 1 THEN behind ELSE l.next[HEAD])
       /\ k > 1 => m.next[before] = behind
       /\ \A c \in LL!Entity : c # e /\ c # HEAD /\ (k > 1 => c # before) => m.next[c] = l.next[c]
  <2>1. \A c \in LL!Entity : first.next[c] = IF k = 1 /\ c = HEAD THEN behind ELSE l.next[c]
    BY <1>1, <1>7
  <2>2. \A c \in LL!Entity : ahead.next[c] = IF k > 1 /\ c = before THEN behind ELSE first.next[c]
    BY <1>9, <1>12
  <2>3. \A c \in LL!Entity : m.next[c] = IF c = e THEN NIL ELSE ahead.next[c]
    BY <1>11, <1>12
  <2>4. k > 1 => before \in LL!Entity
    BY <1>1, <1>2, <1>5
  <2> QED
    BY <1>1, <1>2, <1>3, <1>5, <2>1, <2>2, <2>3, <2>4
<1>15. /\ m.last[HEAD] = (IF k = Len(s) THEN before ELSE l.last[HEAD])
       /\ k < Len(s) => m.last[behind] = before
       /\ \A c \in LL!Entity : c # e /\ c # HEAD /\ (k < Len(s) => c # behind) => m.last[c] = l.last[c]
  <2>1. \A c \in LL!Entity : end.last[c] = IF k = Len(s) /\ c = HEAD THEN before ELSE l.last[c]
    BY <1>1, <1>8
  <2>2. \A c \in LL!Entity : back.last[c] = IF k < Len(s) /\ c = behind THEN before ELSE end.last[c]
    BY <1>10, <1>12
  <2>3. \A c \in LL!Entity : m.last[c] = IF c = e THEN NIL ELSE back.last[c]
    BY <1>11, <1>12
  <2>4. k < Len(s) => behind \in LL!Entity
    BY <1>1, <1>2, <1>5
  <2> QED
    BY <1>1, <1>2, <1>3, <1>5, <2>1, <2>2, <2>3, <2>4
<1>16. GoesOut(k, s, l.next, l.last, m.next, m.last, NIL)
  <2>1. k > 1 => m.next[s[k - 1]] = ElementAt(s, k + 1, NIL)
    BY <1>3, <1>14 DEF behind
  <2>2. k < Len(s) => m.last[s[k + 1]] = ElementAt(s, k - 1, NIL)
    BY <1>3, <1>15 DEF before
  <2>3. ASSUME NEW i \in 1 .. Len(s), i # k - 1, i # k PROVE m.next[s[i]] = l.next[s[i]]
    <3>1. s[i] # e /\ s[i] # HEAD /\ s[i] \in LL!Entity
      BY <2>3, CellsAre DEF e
    <3>2. k > 1 => s[i] # before
      <4>1. k > 1 => k - 1 \in 1 .. Len(s)
        BY <1>1
      <4> QED
        BY <1>3, <2>3, <4>1, CellsAre
    <3> QED
      BY <1>14, <3>1, <3>2
  <2>4. ASSUME NEW i \in 1 .. Len(s), i # k + 1, i # k PROVE m.last[s[i]] = l.last[s[i]]
    <3>1. s[i] # e /\ s[i] # HEAD /\ s[i] \in LL!Entity
      BY <2>4, CellsAre DEF e
    <3>2. k < Len(s) => s[i] # behind
      <4>1. k < Len(s) => k + 1 \in 1 .. Len(s)
        BY <1>1
      <4> QED
        BY <1>3, <2>4, <4>1, CellsAre
    <3> QED
      BY <1>15, <3>1, <3>2
  <2>5. Chained(s, l.next, l.last, NIL)
    BY DEF OfCells
  <2> QED
    BY <2>1, <2>2, <2>3, <2>4, <2>5 DEF GoesOut
<1>17. \A c \in Cell \ Elements(s) : m.next[c] = l.next[c]
  <2> SUFFICES ASSUME NEW c \in Cell \ Elements(s) PROVE m.next[c] = l.next[c]
    OBVIOUS
  <2>1. c # e /\ c \in LL!Entity /\ c # HEAD
    BY <1>1 DEF Elements, e
  <2>2. k > 1 => c # before
    <3>1. k > 1 => k - 1 \in 1 .. Len(s)
      BY <1>1
    <3> QED
      BY <1>3, <3>1 DEF Elements
  <2> QED
    BY <1>14, <2>1, <2>2
<1>18. m.next[HEAD] = IF k = 1 THEN ElementAt(s, 2, NIL) ELSE l.next[HEAD]
  BY <1>14 DEF behind
<1>19. m.last[HEAD] = IF k = Len(s) THEN ElementAt(s, Len(s) - 1, NIL) ELSE l.last[HEAD]
  BY <1>15 DEF before
<1> QED
  BY <1>6, <1>13, <1>14, <1>16, <1>17, <1>18, <1>19, CellOut DEF e

(* The last cell popped. *)
LEMMA PoppedIs ==
    ASSUME NEW l, NEW s, OfCells(l, s), Len(s) # 0
    PROVE  \E t : OfCells(LL!Popped(l), t) /\ Len(t) = Len(s) - 1
<1> DEFINE k == Len(s)
<1> DEFINE e == l.last[HEAD]
<1> DEFINE before == l.last[e]
<1> DEFINE pre == IF l.last[e] = NIL THEN HEAD ELSE l.last[e]
<1> DEFINE cut == [l EXCEPT !.last[HEAD] = l.last[e], !.next[pre] = NIL]
<1> DEFINE m == [cut EXCEPT !.next[e] = NIL, !.last[e] = NIL, !.content[e] = NULL]
<1>0. LL!Popped(l) = m
  BY DEF LL!Popped, LL!Release
<1>1. /\ k \in Nat /\ k # 0 /\ k \in 1 .. Len(s) /\ l \in Lists /\ l.next \in [LL!Entity -> Cell \cup {NIL}]
      /\ l.last \in [LL!Entity -> Cell \cup {NIL}] /\ l.content \in [LL!Entity -> Item \cup {NULL}]
      /\ HEAD \in LL!Entity /\ Cell \subseteq LL!Entity /\ HEAD \notin Cell /\ NIL \notin LL!Entity /\ HEAD # NIL
      /\ l = [next |-> l.next, last |-> l.last, content |-> l.content]
  BY CellsAre DEF Lists
<1>2. e = s[k] /\ e \in Cell /\ e # HEAD /\ before = ElementAt(s, k - 1, NIL) /\ before \in Cell \cup {NIL} /\ ElementAt(s, k + 1, NIL) = NIL
  BY <1>1, CellsAre
<1>3. /\ before = (IF k > 1 THEN s[k - 1] ELSE NIL) /\ before # e /\ (before # NIL <=> k > 1)
      /\ k > 1 => k - 1 \in 1 .. Len(s)
  <2>1. k > 1 => k - 1 \in 1 .. Len(s) /\ k - 1 # k
    BY <1>1
  <2>2. ~(k > 1) => k - 1 \notin 1 .. Len(s)
    BY <1>1
  <2>3. k > 1 => s[k - 1] # s[k] /\ s[k - 1] # NIL
    <3> SUFFICES ASSUME k > 1 PROVE s[k - 1] # s[k] /\ s[k - 1] # NIL
      OBVIOUS
    <3>1. k \in 1 .. Len(s) /\ k - 1 \in 1 .. Len(s) /\ k - 1 # k
      BY <1>1, <2>1
    <3> HIDE DEF k
    <3> QED
      BY <1>1, <3>1, CellsAre
  <2>4. before = IF k > 1 THEN s[k - 1] ELSE NIL
    BY <1>2, <2>1, <2>2 DEF ElementAt
  <2> QED
    BY <1>1, <1>2, <2>1, <2>3, <2>4
<1>4. pre = (IF k > 1 THEN s[k - 1] ELSE HEAD) /\ pre \in LL!Entity /\ pre # e
  BY <1>1, <1>2, <1>3
<1> HIDE DEF k, e, pre
<1>5. /\ cut.next = [l.next EXCEPT ![pre] = NIL] /\ cut.last = [l.last EXCEPT ![HEAD] = before]
      /\ cut.content = l.content /\ cut = [next |-> cut.next, last |-> cut.last, content |-> cut.content]
  <2>1. cut = [l EXCEPT !.last[HEAD] = before, !.next[pre] = NIL]
    BY DEF pre, e
  <2> HIDE DEF cut, before
  <2> DEFINE x == l.next
  <2> DEFINE y == l.last
  <2> DEFINE z == l.content
  <2>2. l = [next |-> x, last |-> y, content |-> z]
    BY <1>1
  <2> HIDE DEF x, y, z
  <2>3. cut = [next |-> [x EXCEPT ![pre] = NIL], last |-> [y EXCEPT ![HEAD] = before], content |-> z]
    BY <2>1, <2>2
  <2> QED
    BY <2>3 DEF x, y, z
<1> HIDE DEF cut, before
<1>6. /\ m.next = [cut.next EXCEPT ![e] = NIL] /\ m.last = [cut.last EXCEPT ![e] = NIL]
      /\ m.content = [l.content EXCEPT ![e] = NULL]
      /\ m = [next |-> m.next, last |-> m.last, content |-> m.content]
  <2> DEFINE x == cut.next
  <2> DEFINE y == cut.last
  <2> DEFINE z == cut.content
  <2>1. cut = [next |-> x, last |-> y, content |-> z]
    BY <1>5
  <2> HIDE DEF x, y, z
  <2>2. m = [next |-> [x EXCEPT ![e] = NIL], last |-> [y EXCEPT ![e] = NIL], content |-> [z EXCEPT ![e] = NULL]]
    <3>1. m = [[next |-> x, last |-> y, content |-> z] EXCEPT !.next[e] = NIL, !.last[e] = NIL, !.content[e] = NULL]
      BY <2>1, Zenon
    <3> HIDE DEF m
    <3> QED
      BY <3>1
  <2>3. x = cut.next /\ y = cut.last /\ z = l.content
    BY <1>5 DEF x, y, z
  <2> HIDE DEF m
  <2> QED
    BY <2>2, <2>3
<1> HIDE DEF m
<1>7. cut.next \in [LL!Entity -> Cell \cup {NIL}] /\ cut.last \in [LL!Entity -> Cell \cup {NIL}]
  BY <1>1, <1>2, <1>4, <1>5
<1>8. m \in Lists
  BY <1>1, <1>2, <1>6, <1>7 DEF Lists
<1>9. \A c \in LL!Entity : /\ m.next[c] = (IF c \in {e, pre} THEN NIL ELSE l.next[c])
                           /\ c # e /\ c # HEAD => m.last[c] = l.last[c]
  BY <1>1, <1>2, <1>4, <1>5, <1>6, <1>7
<1>10. m.last[HEAD] = before /\ e \in LL!Entity
  BY <1>1, <1>2, <1>5, <1>6, <1>7
<1>11. GoesOut(k, s, l.next, l.last, m.next, m.last, NIL)
  <2>1. k > 1 => m.next[s[k - 1]] = ElementAt(s, k + 1, NIL)
    BY <1>2, <1>4, <1>9
  <2>2. ~(k < Len(s))
    BY <1>1 DEF k
  <2>3. ASSUME NEW i \in 1 .. Len(s), i # k - 1, i # k PROVE m.next[s[i]] = l.next[s[i]]
    <3>1. s[i] # e /\ s[i] # HEAD /\ s[i] \in LL!Entity
      BY <1>1, <1>2, <2>3, CellsAre
    <3>2. s[i] # pre
      BY <1>3, <1>4, <2>3, <3>1, CellsAre
    <3> QED
      BY <1>9, <3>1, <3>2
  <2>4. ASSUME NEW i \in 1 .. Len(s), i # k PROVE m.last[s[i]] = l.last[s[i]]
    <3>1. s[i] # e /\ s[i] # HEAD /\ s[i] \in LL!Entity
      BY <1>1, <1>2, <2>4, CellsAre
    <3> QED
      BY <1>9, <3>1
  <2>5. Chained(s, l.next, l.last, NIL)
    BY DEF OfCells
  <2> QED
    BY <2>1, <2>2, <2>3, <2>4, <2>5 DEF GoesOut
<1>12. \A c \in Cell \ Elements(s) : m.next[c] = l.next[c]
  <2> SUFFICES ASSUME NEW c \in Cell \ Elements(s) PROVE m.next[c] = l.next[c]
    OBVIOUS
  <2>1. c # e /\ c # pre
    BY <1>1, <1>2, <1>3, <1>4 DEF Elements
  <2> QED
    BY <1>1, <1>9, <2>1
<1>13. m.next[HEAD] = IF k = 1 THEN ElementAt(s, 2, NIL) ELSE l.next[HEAD]
  <2>1. CASE k = 1
    BY <1>1, <1>2, <1>4, <1>9, <2>1
  <2>2. CASE k # 1
    <3>1. HEAD # pre /\ HEAD # e
      BY <1>1, <1>2, <1>3, <1>4, <2>2, CellsAre
    <3> QED
      BY <1>1, <1>9, <2>2, <3>1
  <2> QED
    BY <2>1, <2>2
<1>14. m.last[HEAD] = ElementAt(s, Len(s) - 1, NIL) /\ k = Len(s)
  BY <1>2, <1>10 DEF k
<1>15. m.next[s[k]] = NIL
  BY <1>2, <1>9, <1>10
<1> QED
  BY <1>0, <1>1, <1>8, <1>11, <1>12, <1>13, <1>14, <1>15, CellOut

(* A list in use, with as many cells as there may be. *)
ListKept(l) == \E s : OfCells(l, s) /\ Len(s) <= MaxLength

LEMMA EmptyIs == ListKept(LL!Empty)
<1>1. Len(<<>>) = 0 /\ \A i \in 1 .. 0 : FALSE
  OBVIOUS
<1>2. Elements(<<>>) = {} /\ ElementAt(<<>>, 1, NIL) = NIL /\ ElementAt(<<>>, Len(<<>>), NIL) = NIL
  BY <1>1 DEF Elements, ElementAt
<1>3. LL!Empty \in Lists
  BY DEF LL!Empty, Lists
<1>4. Chained(<<>>, LL!Empty.next, LL!Empty.last, NIL)
  BY <1>1 DEF Chained, NoTwice
<1>5. /\ LL!Empty.next[HEAD] = NIL /\ LL!Empty.last[HEAD] = NIL
      /\ \A c \in Cell : LL!Empty.next[c] = NIL
  BY DEF LL!Empty, LL!Entity
<1>6. OfCells(LL!Empty, <<>>)
  BY <1>2, <1>3, <1>4, <1>5 DEF OfCells
<1> QED
  BY <1>1, <1>6, ListAssumption DEF ListKept

(* The content of a cell is none of its links. *)
LEMMA ContentIs ==
    ASSUME NEW l, NEW s, OfCells(l, s), NEW e \in Cell, NEW x \in Item \cup {NULL}
    PROVE  OfCells([l EXCEPT !.content[e] = x], s)
<1> DEFINE m == [l EXCEPT !.content[e] = x]
<1>1. l \in Lists /\ l.content \in [LL!Entity -> Item \cup {NULL}]
  BY CellsAre
<1>2. m.next = l.next /\ m.last = l.last /\ m \in Lists
  BY <1>1 DEF Lists
<1> HIDE DEF m
<1>3. OfCells(m, s)
  BY <1>2 DEF OfCells
<1> QED
  BY <1>3 DEF m

(* The cell before a place, as far as the cells go, points to the one there. *)
LEMMA BeforeIs ==
    ASSUME NEW l, NEW s, OfCells(l, s), NEW k \in 1 .. Len(s) + 1
    PROVE  l.next[LL!Before(l, k)] = ElementAt(s, k, NIL)
<1>1. CASE k = 1
  BY <1>1, CellsAre DEF LL!Before
<1>2. CASE k # 1
  <2>1. k - 1 \in 1 .. Len(s) /\ (k - 1) + 1 = k
    BY <1>2, CellsAre
  <2>2. LL!Forward(l) = s
    BY ForwardIs
  <2>3. LL!Before(l, k) = s[k - 1]
    BY <1>2, <2>1, <2>2 DEF LL!Before, LL!EntityAt
  <2> QED
    BY <2>1, <2>3, CellsAre
<1> QED
  BY <1>1, <1>2

(* Each call of the list leaves a list. *)
LEMMA NextList == ListKept(list) /\ [LL!Next]_listVars => ListKept(list')
<1> SUFFICES ASSUME ListKept(list), [LL!Next]_listVars PROVE ListKept(list')
  OBVIOUS
<1>0. PICK s : OfCells(list, s) /\ Len(s) <= MaxLength
  BY DEF ListKept
<1>1. LL!Forward(list) = s /\ Len(s) \in Nat /\ MaxLength \in Nat
  BY <1>0, ForwardIs, ListAssumption
<1>2. ASSUME UNCHANGED list PROVE ListKept(list')
  BY <1>2
<1>3. ASSUME NEW pos \in LL!Position, NEW x \in Item \cup {NULL}, LL!Set(pos, x) PROVE ListKept(list')
  <2> DEFINE l == LL!Expanded(list, pos)
  <2>1. PICK t : OfCells(l, t) /\ Len(t) = IF pos - 1 > Len(s) THEN pos - 1 ELSE Len(s)
    BY <1>0, ExpandedIs
  <2> HIDE DEF l
  <2>2. pos \in 1 .. MaxLength /\ Len(t) <= MaxLength /\ Len(t) \in Nat /\ pos \in 1 .. Len(t) + 1
    BY <1>0, <1>1, <2>1 DEF LL!Position
  <2> DEFINE e == l.next[LL!Before(l, pos)]
  <2>3. e = ElementAt(t, pos, NIL)
    BY <2>1, <2>2, BeforeIs
  <2> HIDE DEF e
  <2>4. list' = IF e = NIL THEN LL!Pushed(l, x) ELSE [l EXCEPT !.content[e] = x]
    BY <1>3 DEF LL!Set, l, e
  <2>5. CASE pos \in 1 .. Len(t)
    <3>1. e \in Cell /\ e # NIL
      BY <2>1, <2>3, <2>5, CellsAre
    <3> QED
      BY <2>1, <2>2, <2>4, <3>1, ContentIs DEF ListKept
  <2>6. CASE pos \notin 1 .. Len(t)
    <3>0. pos = Len(t) + 1 /\ Len(t) < MaxLength
      BY <1>1, <2>2, <2>6
    <3>1. pos = Len(t) + 1 /\ Len(t) < MaxLength /\ e = NIL
      BY <2>3, <2>6, <3>0 DEF ElementAt
    <3>2. PICK u : OfCells(LL!Pushed(l, x), u) /\ Len(u) = Len(t) + 1
      BY <2>1, <3>1, PushedIs
    <3> QED
      BY <2>2, <2>4, <3>1, <3>2 DEF ListKept
  <2> QED
    BY <2>5, <2>6
<1>4. ASSUME NEW pos \in LL!Position, NEW x \in Item \cup {NULL}, LL!Insert(pos, x) PROVE ListKept(list')
  <2> DEFINE l == LL!Expanded(list, pos)
  <2>0. Len(s) < MaxLength /\ list' = LL!Inserted(l, pos, x)
    BY <1>1, <1>4 DEF LL!Insert
  <2>1. PICK t : OfCells(l, t) /\ Len(t) = IF pos - 1 > Len(s) THEN pos - 1 ELSE Len(s)
    BY <1>0, ExpandedIs
  <2> HIDE DEF l
  <2>2. Len(t) < MaxLength /\ Len(t) \in Nat /\ pos \in 1 .. Len(t) + 1
    BY <1>0, <1>1, <2>0, <2>1 DEF LL!Position
  <2>3. PICK u : OfCells(LL!Inserted(l, pos, x), u) /\ Len(u) = Len(t) + 1
    BY <2>1, <2>2, InsertedIs
  <2> QED
    BY <1>1, <2>0, <2>2, <2>3 DEF ListKept
<1>5. ASSUME NEW pos \in LL!Position, LL!RemoveItem(pos) PROVE ListKept(list')
  <2> DEFINE e == LL!EntityAt(list, pos)
  <2>1. e = IF pos \in 1 .. Len(s) THEN s[pos] ELSE NIL
    BY <1>1 DEF LL!EntityAt
  <2> HIDE DEF e
  <2>2. list' = IF e = NIL THEN list ELSE LL!Removed(list, e)
    BY <1>5 DEF LL!RemoveItem, e
  <2>3. CASE e = NIL
    BY <2>2, <2>3
  <2>4. CASE e # NIL
    <3>1. pos \in 1 .. Len(s) /\ e = s[pos]
      BY <2>1, <2>4
    <3>2. PICK u : OfCells(LL!Removed(list, s[pos]), u) /\ Len(u) = Len(s) - 1
      BY <1>0, <3>1, RemovedIs
    <3> QED
      BY <1>0, <1>1, <2>2, <2>4, <3>1, <3>2 DEF ListKept
  <2> QED
    BY <2>3, <2>4
<1>6. ASSUME NEW x \in Item \cup {NULL}, LL!Push(x) PROVE ListKept(list')
  <2>1. Len(s) < MaxLength /\ list' = LL!Pushed(list, x)
    BY <1>1, <1>6 DEF LL!Push
  <2>2. PICK u : OfCells(LL!Pushed(list, x), u) /\ Len(u) = Len(s) + 1
    BY <1>0, <2>1, PushedIs
  <2> QED
    BY <1>1, <2>1, <2>2 DEF ListKept
<1>7. ASSUME LL!Pop PROVE ListKept(list')
  <2>1. list' = IF list.last[HEAD] = NIL THEN list ELSE LL!Popped(list)
    BY <1>7 DEF LL!Pop
  <2>2. CASE list.last[HEAD] = NIL
    BY <2>1, <2>2
  <2>3. CASE list.last[HEAD] # NIL
    <3>1. Len(s) # 0
      BY <1>0, <2>3, CellsAre
    <3>2. PICK u : OfCells(LL!Popped(list), u) /\ Len(u) = Len(s) - 1
      BY <1>0, <3>1, PoppedIs
    <3> QED
      BY <1>0, <1>1, <2>1, <2>3, <3>2 DEF ListKept
  <2> QED
    BY <2>2, <2>3
<1>8. ASSUME LL!Clear PROVE ListKept(list')
  BY <1>8, EmptyIs DEF LL!Clear
<1>9. CASE LL!Next
  <2>1. ASSUME NEW pos \in LL!Position, NEW x \in Item \cup {NULL}, LL!Set(pos, x) \/ LL!Insert(pos, x) PROVE ListKept(list')
    BY <1>3, <1>4, <2>1
  <2>2. ASSUME NEW pos \in LL!Position, LL!RemoveItem(pos) \/ LL!Get(pos) PROVE ListKept(list')
    <3>1. CASE LL!RemoveItem(pos)
      BY <1>5, <3>1
    <3>2. CASE LL!Get(pos)
      BY <1>2, <3>2 DEF LL!Get
    <3> QED
      BY <2>2, <3>1, <3>2
  <2>3. ASSUME (\E x \in Item : LL!Find(x)) \/ LL!Count PROVE ListKept(list')
    BY <1>2, <2>3 DEF LL!Find, LL!Count
  <2> QED
    BY <1>6, <1>7, <1>8, <1>9, <2>1, <2>2, <2>3 DEF LL!Next
<1>10. CASE UNCHANGED listVars
  BY <1>2, <1>10 DEF listVars
<1> QED
  BY <1>9, <1>10

(* Such a list reads the same from both its ends. *)
LEMMA ListBothWays == ListKept(list) => LL!LinkedBothWays
<1> SUFFICES ASSUME NEW s, OfCells(list, s) PROVE LL!LinkedBothWays
  BY DEF ListKept
<1> QED
  BY ForwardIs, BackwardIs DEF LL!LinkedBothWays

-----------------------------------------------------------------------------
(* The intrusive list: the nodes in their order, and no link elsewhere.       *)
OfNodes(h, nx, pv, s) ==
    /\ nx \in [Node -> Node \cup {NIL}] /\ pv \in [Node -> Node \cup {NIL}]
    /\ s \in Seq(Node) /\ Chained(s, nx, pv, NIL) /\ h = ElementAt(s, 1, NIL)
    /\ \A n \in Node \ Elements(s) : nx[n] = NIL /\ pv[n] = NIL

(* What is known of such a list. *)
LEMMA NodesAre ==
    ASSUME NEW h, NEW nx, NEW pv, NEW s, OfNodes(h, nx, pv, s)
    PROVE  /\ Len(s) \in Nat /\ s \in Seq(Node) /\ NIL \notin Node
           /\ NL!Walk(h, nx) = s /\ NL!Range(s) = Elements(s)
           /\ \A i \in 1 .. Len(s) : /\ s[i] \in Node /\ s[i] # NIL /\ s[i] \in Elements(s)
                                     /\ nx[s[i]] = ElementAt(s, i + 1, NIL) /\ pv[s[i]] = ElementAt(s, i - 1, NIL)
                                     /\ ElementAt(s, i, NIL) = s[i]
           /\ \A i, j \in 1 .. Len(s) : s[i] = s[j] => i = j
           /\ \A i : ElementAt(s, i, NIL) = NIL <=> i \notin 1 .. Len(s)
<1>1. Len(s) \in Nat /\ s \in Seq(Node) /\ NIL \notin Node /\ Chained(s, nx, pv, NIL) /\ nx \in [Node -> Node \cup {NIL}]
  BY NodeAssumption DEF OfNodes
<1>2. \A i \in 1 .. Len(s) : s[i] \in Node /\ nx[s[i]] = ElementAt(s, i + 1, NIL) /\ pv[s[i]] = ElementAt(s, i - 1, NIL)
  BY <1>1 DEF Chained
<1>3. \A i, j \in 1 .. Len(s) : s[i] = s[j] => i = j
  BY <1>1 DEF Chained, NoTwice
<1>4. \A i : ElementAt(s, i, NIL) = NIL <=> i \notin 1 .. Len(s)
  BY <1>1, <1>2 DEF ElementAt
<1>5. \A i \in 1 .. Len(s) : ElementAt(s, i, NIL) = s[i] /\ s[i] \in Elements(s) /\ s[i] # NIL
  BY <1>1, <1>2 DEF ElementAt, Elements
<1>6. NL!Range(s) = Elements(s)
  BY <1>1 DEF NL!Range, Elements
<1>7. NL!Walk(h, nx) = s
  <2> DEFINE E == Node \cup {NIL}
  <2>1. NIL \in E /\ E \ {NIL} = Node
    BY <1>1
  <2> HIDE DEF E
  <2>2. nx \in [E \ {NIL} -> E] /\ s \in Seq(E \ {NIL})
    BY <1>1, <2>1 DEF E
  <2>3. Len(s) <= Cardinality(Node) /\ Cardinality(Node) \in Nat
    BY <1>1, AsManyAsCells, NodeAssumption DEF Chained
  <2>4. LET walk[n \in 0 .. Cardinality(Node)] == [e \in E |->
                 IF e = NIL \/ n = 0 THEN <<>> ELSE <<e>> \o walk[n - 1][nx[e]]]
        IN walk[Cardinality(Node)][ElementAt(s, 1, NIL)] = s
    <3>1. \A i \in 1 .. Len(s) : nx[s[i]] = ElementAt(s, i + 1, NIL)
      BY <1>2
    <3>2. NIL \in E /\ Len(s) <= Cardinality(Node) /\ Cardinality(Node) \in Nat
      BY <2>1, <2>3
    <3> QED
      BY <2>2, <3>1, <3>2, WalkIs
  <2> QED
    BY <2>4, CountsAlike, Zenon DEF NL!Walk, E, OfNodes
<1> QED
  BY <1>1, <1>2, <1>3, <1>4, <1>5, <1>6, <1>7

(* A node linked in at a place. *)
LEMMA NodeIn ==
    ASSUME NEW h, NEW nx, NEW pv, NEW s, OfNodes(h, nx, pv, s), NEW x \in Node \ Elements(s), NEW k \in 1 .. Len(s) + 1,
           NEW nx1 \in [Node -> Node \cup {NIL}], NEW pv1 \in [Node -> Node \cup {NIL}],
           \A n \in Node : nx1[n] = IF n = x THEN ElementAt(s, k, NIL) ELSE IF n = ElementAt(s, k - 1, NIL) THEN x ELSE nx[n],
           \A n \in Node : pv1[n] = IF n = x THEN ElementAt(s, k - 1, NIL) ELSE IF n = ElementAt(s, k, NIL) THEN x ELSE pv[n]
    PROVE  \E t : OfNodes(IF k = 1 THEN x ELSE h, nx1, pv1, t)
<1>1. s \in Seq(Node) /\ NIL \notin Node /\ Chained(s, nx, pv, NIL) /\ Len(s) \in Nat /\ h = ElementAt(s, 1, NIL)
  BY NodesAre DEF OfNodes
<1>2. GoesIn(x, k, s, nx, pv, nx1, pv1, NIL)
  <2>1. k > 1 => k - 1 \in 1 .. Len(s)
    BY <1>1
  <2>2. k <= Len(s) => k \in 1 .. Len(s)
    BY <1>1
  <2>3. k > 1 => nx1[s[k - 1]] = x
    BY <2>1, NodesAre
  <2>4. k <= Len(s) => pv1[s[k]] = x
    BY <2>2, NodesAre
  <2>5. ASSUME NEW i \in 1 .. Len(s), i # k - 1 PROVE nx1[s[i]] = nx[s[i]]
    <3>1. s[i] # x /\ s[i] \in Node
      BY NodesAre
    <3>2. s[i] # ElementAt(s, k - 1, NIL)
      BY <1>1, <2>5, NodesAre DEF ElementAt
    <3> QED
      BY <3>1, <3>2
  <2>6. ASSUME NEW i \in 1 .. Len(s), i # k PROVE pv1[s[i]] = pv[s[i]]
    <3>1. s[i] # x /\ s[i] \in Node
      BY NodesAre
    <3>2. s[i] # ElementAt(s, k, NIL)
      BY <1>1, <2>6, NodesAre DEF ElementAt
    <3> QED
      BY <3>1, <3>2
  <2> QED
    BY <1>1, <2>3, <2>4, <2>5, <2>6 DEF GoesIn
<1>3. PICK t \in Seq(Node) : Chained(t, nx1, pv1, NIL) /\ IsIn(x, k, s, t, NIL)
  BY <1>1, <1>2, LinkedIn
<1>4. ASSUME NEW n \in Node \ Elements(t) PROVE nx1[n] = NIL /\ pv1[n] = NIL
  <2>1. n \notin Elements(s) /\ n # x
    BY <1>3 DEF IsIn
  <2>2. n # ElementAt(s, k, NIL) /\ n # ElementAt(s, k - 1, NIL)
    BY <1>1, <2>1 DEF ElementAt, Elements
  <2> QED
    BY <2>1, <2>2 DEF OfNodes
<1>5. (IF k = 1 THEN x ELSE h) = ElementAt(t, 1, NIL)
  BY <1>1, <1>3 DEF IsIn
<1> QED
  BY <1>3, <1>4, <1>5 DEF OfNodes

(* A node linked out. *)
LEMMA NodeOut ==
    ASSUME NEW h, NEW nx, NEW pv, NEW s, OfNodes(h, nx, pv, s), NEW k \in 1 .. Len(s),
           NEW nx1 \in [Node -> Node \cup {NIL}], NEW pv1 \in [Node -> Node \cup {NIL}],
           \A n \in Node : nx1[n] = IF n = s[k] THEN NIL ELSE IF n = ElementAt(s, k - 1, NIL) THEN ElementAt(s, k + 1, NIL) ELSE nx[n],
           \A n \in Node : pv1[n] = IF n = s[k] THEN NIL ELSE IF n = ElementAt(s, k + 1, NIL) THEN ElementAt(s, k - 1, NIL) ELSE pv[n]
    PROVE  \E t : OfNodes(IF k = 1 THEN ElementAt(s, 2, NIL) ELSE h, nx1, pv1, t) /\ Elements(t) = Elements(s) \ {s[k]}
<1>1. s \in Seq(Node) /\ NIL \notin Node /\ Chained(s, nx, pv, NIL) /\ Len(s) \in Nat /\ h = ElementAt(s, 1, NIL)
  BY NodesAre DEF OfNodes
<1>2. GoesOut(k, s, nx, pv, nx1, pv1, NIL)
  <2>1. k > 1 => k - 1 \in 1 .. Len(s) /\ k - 1 # k
    BY <1>1
  <2>2. k < Len(s) => k + 1 \in 1 .. Len(s) /\ k + 1 # k
    BY <1>1
  <2>3. k > 1 => nx1[s[k - 1]] = ElementAt(s, k + 1, NIL)
    BY <2>1, NodesAre
  <2>4. k < Len(s) => pv1[s[k + 1]] = ElementAt(s, k - 1, NIL)
    BY <2>2, NodesAre
  <2>5. ASSUME NEW i \in 1 .. Len(s), i # k - 1, i # k PROVE nx1[s[i]] = nx[s[i]]
    <3>1. s[i] # s[k] /\ s[i] \in Node
      BY <2>5, NodesAre
    <3>2. s[i] # ElementAt(s, k - 1, NIL)
      BY <1>1, <2>5, NodesAre DEF ElementAt
    <3> QED
      BY <3>1, <3>2
  <2>6. ASSUME NEW i \in 1 .. Len(s), i # k + 1, i # k PROVE pv1[s[i]] = pv[s[i]]
    <3>1. s[i] # s[k] /\ s[i] \in Node
      BY <2>6, NodesAre
    <3>2. s[i] # ElementAt(s, k + 1, NIL)
      BY <1>1, <2>6, NodesAre DEF ElementAt
    <3> QED
      BY <3>1, <3>2
  <2> QED
    BY <1>1, <2>3, <2>4, <2>5, <2>6 DEF GoesOut
<1>3. PICK t \in Seq(Node) : Chained(t, nx1, pv1, NIL) /\ IsOut(k, s, t, NIL)
  BY <1>1, <1>2, LinkedOut
<1>4. ASSUME NEW n \in Node \ Elements(t) PROVE nx1[n] = NIL /\ pv1[n] = NIL
  <2>1. CASE n = s[k]
    BY <2>1
  <2>2. CASE n # s[k]
    <3>1. n \notin Elements(s)
      BY <1>3, <2>2 DEF IsOut
    <3>2. n # ElementAt(s, k + 1, NIL) /\ n # ElementAt(s, k - 1, NIL)
      BY <1>1, <3>1 DEF ElementAt, Elements
    <3> QED
      BY <2>2, <3>1, <3>2 DEF OfNodes
  <2> QED
    BY <2>1, <2>2
<1>5. (IF k = 1 THEN ElementAt(s, 2, NIL) ELSE h) = ElementAt(t, 1, NIL) /\ Elements(t) = Elements(s) \ {s[k]}
  BY <1>1, <1>3 DEF IsOut
<1> QED
  BY <1>3, <1>4, <1>5 DEF OfNodes

(* Unplugging takes a node out, one that is in no list leaves it as it is. *)
LEMMA UnpluggedIs ==
    ASSUME NEW h, NEW nx, NEW pv, NEW s, OfNodes(h, nx, pv, s), NEW n \in Node
    PROVE  LET u == NL!Unplugged(h, nx, pv, n)
           IN  \E t : OfNodes(u.head, u.next, u.prev, t) /\ Elements(t) = Elements(s) \ {n}
<1> DEFINE joined == IF n # h /\ pv[n] # NIL THEN [nx EXCEPT ![pv[n]] = nx[n]] ELSE nx
<1> DEFINE backed == IF nx[n] # NIL THEN [pv EXCEPT ![nx[n]] = IF n = h THEN NIL ELSE pv[n]] ELSE pv
<1> DEFINE nx1 == [joined EXCEPT ![n] = NIL]
<1> DEFINE pv1 == [backed EXCEPT ![n] = NIL]
<1> DEFINE h1 == IF n = h THEN nx[n] ELSE h
<1> DEFINE u == NL!Unplugged(h, nx, pv, n)
<1>1. u.head = h1 /\ u.next = nx1 /\ u.prev = pv1
  BY DEF NL!Unplugged
<1> HIDE DEF u
<1> SUFFICES \E t : OfNodes(h1, nx1, pv1, t) /\ Elements(t) = Elements(s) \ {n}
  BY <1>1, Zenon DEF u
<1>2. s \in Seq(Node) /\ NIL \notin Node /\ Len(s) \in Nat /\ h = ElementAt(s, 1, NIL)
      /\ nx \in [Node -> Node \cup {NIL}] /\ pv \in [Node -> Node \cup {NIL}]
  BY NodesAre DEF OfNodes
<1>3. CASE n \in Elements(s)
  <2>1. PICK k \in 1 .. Len(s) : n = s[k]
    BY <1>3 DEF Elements
  <2>2. nx[n] = ElementAt(s, k + 1, NIL) /\ pv[n] = ElementAt(s, k - 1, NIL) /\ (n = h <=> k = 1) /\ (n = h => pv[n] = NIL)
    <3>1. 1 \in 1 .. Len(s) /\ (k = 1 => k - 1 \notin 1 .. Len(s))
      BY <1>2, <2>1
    <3> QED
      BY <1>2, <2>1, <3>1, NodesAre
  <2>3. \A m \in Node : joined[m] = IF m = ElementAt(s, k - 1, NIL) THEN ElementAt(s, k + 1, NIL) ELSE nx[m]
    BY <1>2, <2>2
  <2>4. \A m \in Node : backed[m] = IF m = ElementAt(s, k + 1, NIL) THEN ElementAt(s, k - 1, NIL) ELSE pv[m]
    BY <1>2, <2>2
  <2>5. joined \in [Node -> Node \cup {NIL}] /\ backed \in [Node -> Node \cup {NIL}]
    BY <1>2
  <2> HIDE DEF joined, backed
  <2>6. nx1 \in [Node -> Node \cup {NIL}] /\ pv1 \in [Node -> Node \cup {NIL}]
    BY <2>5
  <2>7. \A m \in Node : nx1[m] = IF m = s[k] THEN NIL ELSE IF m = ElementAt(s, k - 1, NIL) THEN ElementAt(s, k + 1, NIL) ELSE nx[m]
    BY <2>1, <2>3, <2>5
  <2>8. \A m \in Node : pv1[m] = IF m = s[k] THEN NIL ELSE IF m = ElementAt(s, k + 1, NIL) THEN ElementAt(s, k - 1, NIL) ELSE pv[m]
    BY <2>1, <2>4, <2>5
  <2> HIDE DEF nx1, pv1
  <2>9. \E t : OfNodes(IF k = 1 THEN ElementAt(s, 2, NIL) ELSE h, nx1, pv1, t) /\ Elements(t) = Elements(s) \ {s[k]}
    BY <2>6, <2>7, <2>8, NodeOut
  <2>10. h1 = IF k = 1 THEN ElementAt(s, 2, NIL) ELSE h
    BY <2>2
  <2> QED
    BY <2>1, <2>9, <2>10
<1>4. CASE n \notin Elements(s)
  <2>1. n # h /\ nx[n] = NIL /\ pv[n] = NIL
    BY <1>2, <1>4 DEF OfNodes, ElementAt, Elements
  <2>2. nx1 = nx /\ pv1 = pv /\ h1 = h /\ Elements(s) = Elements(s) \ {n}
    BY <1>2, <1>4, <2>1
  <2> QED
    BY <2>2
<1> QED
  BY <1>3, <1>4

NodesKept(h, nx, pv) == \E s : OfNodes(h, nx, pv, s)

(* Each call of the intrusive list leaves such a list. *)
LEMMA NextNodes == NodesKept(head, next, prev) /\ [NL!Next]_nodeVars => NodesKept(head', next', prev')
<1> SUFFICES ASSUME NodesKept(head, next, prev), [NL!Next]_nodeVars PROVE NodesKept(head', next', prev')
  OBVIOUS
<1>0. PICK s : OfNodes(head, next, prev, s)
  BY DEF NodesKept
<1>1. /\ NL!Chain = s /\ NL!Range(s) = Elements(s) /\ s \in Seq(Node) /\ Len(s) \in Nat /\ NIL \notin Node
      /\ next \in [Node -> Node \cup {NIL}] /\ prev \in [Node -> Node \cup {NIL}] /\ head = ElementAt(s, 1, NIL)
      /\ \A n \in Node \ Elements(s) : next[n] = NIL /\ prev[n] = NIL
      /\ \A n : NL!Included(n) <=> n \in Elements(s)
  BY <1>0, NodesAre DEF OfNodes, NL!Chain, NL!Included
<1>2. ASSUME UNCHANGED <<head, next, prev>> PROVE NodesKept(head', next', prev')
  BY <1>2
<1>3. ASSUME NEW n \in Node, NL!Push(n) PROVE NodesKept(head', next', prev')
  <2>1. n \in Node \ Elements(s)
    BY <1>1, <1>3 DEF NL!Push
  <2> DEFINE k == Len(s) + 1
  <2>2. k \in 1 .. Len(s) + 1 /\ k - 1 = Len(s) /\ k \notin 1 .. Len(s) /\ ElementAt(s, k, NIL) = NIL
    BY <1>1 DEF ElementAt
  <2> HIDE DEF k
  <2>3. CASE Len(s) = 0
    <3>1. head = NIL /\ ElementAt(s, k - 1, NIL) = NIL /\ k = 1
      BY <1>1, <2>3 DEF ElementAt, k
    <3>2. head' = n /\ next' = next /\ prev' = prev
      BY <1>3, <3>1 DEF NL!Push
    <3>3. \A m \in Node : /\ next'[m] = (IF m = n THEN ElementAt(s, k, NIL) ELSE IF m = ElementAt(s, k - 1, NIL) THEN n ELSE next[m])
                          /\ prev'[m] = (IF m = n THEN ElementAt(s, k - 1, NIL) ELSE IF m = ElementAt(s, k, NIL) THEN n ELSE prev[m])
      BY <1>1, <2>1, <2>2, <3>1, <3>2
    <3>4. next' \in [Node -> Node \cup {NIL}] /\ prev' \in [Node -> Node \cup {NIL}]
      BY <1>1, <3>2
    <3>5. \E t : OfNodes(IF k = 1 THEN n ELSE head, next', prev', t)
      BY <1>0, <2>1, <2>2, <3>3, <3>4, NodeIn
    <3> QED
      BY <3>1, <3>2, <3>5 DEF NodesKept
  <2>4. CASE Len(s) # 0
    <3>1. 1 \in 1 .. Len(s) /\ Len(s) \in 1 .. Len(s) /\ k # 1
      BY <1>1, <2>4 DEF k
    <3>2. head # NIL /\ NL!Last(s) = ElementAt(s, k - 1, NIL) /\ ElementAt(s, k - 1, NIL) \in Node
      BY <1>0, <1>1, <2>2, <3>1, NodesAre DEF NL!Last
    <3>3. head' = head /\ next' = [next EXCEPT ![ElementAt(s, k - 1, NIL)] = n] /\ prev' = [prev EXCEPT ![n] = ElementAt(s, k - 1, NIL)]
      BY <1>1, <1>3, <3>2 DEF NL!Push
    <3>a. ElementAt(s, k - 1, NIL) # n
      BY <1>1, <2>1, <2>2, <3>1 DEF ElementAt, Elements
    <3>4. \A m \in Node : /\ next'[m] = (IF m = n THEN ElementAt(s, k, NIL) ELSE IF m = ElementAt(s, k - 1, NIL) THEN n ELSE next[m])
                          /\ prev'[m] = (IF m = n THEN ElementAt(s, k - 1, NIL) ELSE IF m = ElementAt(s, k, NIL) THEN n ELSE prev[m])
      BY <1>1, <2>1, <2>2, <3>2, <3>3, <3>a
    <3>5. next' \in [Node -> Node \cup {NIL}] /\ prev' \in [Node -> Node \cup {NIL}]
      BY <1>1, <3>2, <3>3
    <3>6. \E t : OfNodes(IF k = 1 THEN n ELSE head, next', prev', t)
      BY <1>0, <2>1, <2>2, <3>4, <3>5, NodeIn
    <3> QED
      BY <3>1, <3>3, <3>6 DEF NodesKept
  <2> QED
    BY <2>3, <2>4
<1>4. ASSUME NEW n \in Node, NL!PushFront(n) PROVE NodesKept(head', next', prev')
  <2>1. n \in Node \ Elements(s) /\ head # n
    BY <1>1, <1>4 DEF NL!PushFront, ElementAt, Elements
  <2>2. 1 \in 1 .. Len(s) + 1 /\ ElementAt(s, 1 - 1, NIL) = NIL /\ head = ElementAt(s, 1, NIL) /\ head \in Node \cup {NIL}
    BY <1>1 DEF ElementAt
  <2>3. head' = n /\ next' = [next EXCEPT ![n] = head] /\ prev' = IF head = NIL THEN prev ELSE [prev EXCEPT ![head] = n]
    BY <1>4 DEF NL!PushFront
  <2>4. next' \in [Node -> Node \cup {NIL}] /\ prev' \in [Node -> Node \cup {NIL}]
    BY <1>1, <2>2, <2>3
  <2>5. \A m \in Node : next'[m] = IF m = n THEN ElementAt(s, 1, NIL) ELSE IF m = ElementAt(s, 1 - 1, NIL) THEN n ELSE next[m]
    BY <1>1, <2>2, <2>3
  <2>6. \A m \in Node : prev'[m] = IF m = n THEN ElementAt(s, 1 - 1, NIL) ELSE IF m = ElementAt(s, 1, NIL) THEN n ELSE prev[m]
    <3>1. CASE head = NIL
      BY <1>1, <2>1, <2>2, <2>3, <3>1
    <3>2. CASE head # NIL
      BY <1>1, <2>1, <2>2, <2>3, <3>2
    <3> QED
      BY <3>1, <3>2
  <2>7. \E t : OfNodes(IF 1 = 1 THEN n ELSE head, next', prev', t)
    BY <1>0, <2>1, <2>2, <2>4, <2>5, <2>6, NodeIn
  <2> QED
    BY <2>3, <2>7 DEF NodesKept
<1>5. ASSUME NEW n \in Node, NEW k \in 1 .. Cardinality(Node), NL!SetAt(k, n) PROVE NodesKept(head', next', prev')
  <2>0. k \in Nat /\ k >= 1
    BY NodeAssumption, FS_CardinalityType
  <2>1. CASE k > Len(s) + 1
    BY <1>1, <1>2, <1>5, <2>1 DEF NL!SetAt
  <2>2. CASE k = Len(s) + 1
    <3>1. ~(k > Len(s) + 1)
      BY <1>1, <2>2
    <3> QED
      BY <1>1, <1>3, <1>5, <2>2, <3>1 DEF NL!SetAt
  <2>3. CASE k \in 1 .. Len(s)
    <3> DEFINE after == s[k]
    <3> DEFINE before == prev[after]
    <3>1. ~(k > Len(s) + 1) /\ k # Len(s) + 1 /\ k \in 1 .. Len(s) + 1
      BY <1>1, <2>3
    <3>2. /\ after = ElementAt(s, k, NIL) /\ before = ElementAt(s, k - 1, NIL) /\ after \in Node /\ before \in Node \cup {NIL}
          /\ (after = head <=> k = 1) /\ (before = NIL <=> k - 1 \notin 1 .. Len(s))
      <4>1. 1 \in 1 .. Len(s)
        BY <1>1, <2>3
      <4> QED
        BY <1>0, <1>1, <2>3, <4>1, NodesAre
    <3>3. /\ n \notin Elements(s)
          /\ head' = IF after = head THEN n ELSE head
          /\ next' = IF before # NIL THEN [next EXCEPT ![before] = n, ![n] = after] ELSE [next EXCEPT ![n] = after]
          /\ prev' = IF before # NIL THEN [prev EXCEPT ![n] = before, ![after] = n] ELSE [prev EXCEPT ![after] = n]
      BY <1>1, <1>5, <3>1 DEF NL!SetAt
    <3>4. n # after /\ n # before
      BY <1>1, <2>3, <3>2, <3>3 DEF ElementAt, Elements
    <3> HIDE DEF after, before
    <3>5. next' \in [Node -> Node \cup {NIL}] /\ prev' \in [Node -> Node \cup {NIL}]
      BY <1>1, <3>2, <3>3
    <3>6. \A m \in Node : next'[m] = IF m = n THEN after ELSE IF m = before THEN n ELSE next[m]
      BY <1>1, <3>2, <3>3, <3>4
    <3>7. \A m \in Node : prev'[m] = IF m = n THEN before ELSE IF m = after THEN n ELSE prev[m]
      BY <1>1, <3>2, <3>3, <3>4
    <3>a. \A m \in Node : /\ next'[m] = (IF m = n THEN ElementAt(s, k, NIL) ELSE IF m = ElementAt(s, k - 1, NIL) THEN n ELSE next[m])
                          /\ prev'[m] = (IF m = n THEN ElementAt(s, k - 1, NIL) ELSE IF m = ElementAt(s, k, NIL) THEN n ELSE prev[m])
      BY <3>2, <3>6, <3>7
    <3>8. \E t : OfNodes(IF k = 1 THEN n ELSE head, next', prev', t)
      <4>1. n \in Node \ Elements(s)
        BY <3>3
      <4> QED
        BY <1>0, <3>1, <3>5, <3>a, <4>1, NodeIn
    <3> QED
      BY <3>2, <3>3, <3>8 DEF NodesKept
  <2> QED
    BY <1>1, <2>0, <2>1, <2>2, <2>3
<1>6. ASSUME NL!Pop PROVE NodesKept(head', next', prev')
  <2>1. head # NIL /\ head' = next[head] /\ next' = [next EXCEPT ![head] = NIL]
        /\ prev' = IF next[head] = NIL THEN prev ELSE [prev EXCEPT ![next[head]] = NIL]
    BY <1>6 DEF NL!Pop
  <2>2. 1 \in 1 .. Len(s) /\ head = s[1] /\ next[head] = ElementAt(s, 2, NIL) /\ prev[head] = NIL /\ ElementAt(s, 1 - 1, NIL) = NIL /\ head \in Node
    <3>1. 1 \in 1 .. Len(s) /\ head = s[1]
      BY <1>1, <2>1 DEF ElementAt
    <3>2. 1 + 1 = 2 /\ 1 - 1 \notin 1 .. Len(s)
      OBVIOUS
    <3> QED
      BY <1>0, <3>1, <3>2, NodesAre
  <2>3. next' \in [Node -> Node \cup {NIL}] /\ prev' \in [Node -> Node \cup {NIL}]
    BY <1>1, <2>1
  <2>4. ElementAt(s, 2, NIL) # head /\ ElementAt(s, 1 + 1, NIL) = ElementAt(s, 2, NIL) /\ ElementAt(s, 2, NIL) \in Node \cup {NIL}
    <3>1. 2 \in 1 .. Len(s) => s[2] # s[1]
      BY <1>0, <2>2, NodesAre
    <3> QED
      BY <1>1, <2>1, <2>2, <3>1 DEF ElementAt
  <2>5. \A m \in Node : next'[m] = IF m = s[1] THEN NIL ELSE IF m = ElementAt(s, 1 - 1, NIL) THEN ElementAt(s, 1 + 1, NIL) ELSE next[m]
    BY <1>1, <2>1, <2>2
  <2>6. \A m \in Node : prev'[m] = IF m = s[1] THEN NIL ELSE IF m = ElementAt(s, 1 + 1, NIL) THEN ElementAt(s, 1 - 1, NIL) ELSE prev[m]
    BY <1>1, <2>1, <2>2, <2>4
  <2>7. \E t : OfNodes(IF 1 = 1 THEN ElementAt(s, 2, NIL) ELSE head, next', prev', t) /\ Elements(t) = Elements(s) \ {s[1]}
    BY <1>0, <2>2, <2>3, <2>5, <2>6, NodeOut
  <2> QED
    BY <2>1, <2>2, <2>7 DEF NodesKept
<1>7. ASSUME NEW n \in Node, NL!Become(NL!Unplugged(head, next, prev, n)) PROVE NodesKept(head', next', prev')
  <2>1. PICK t : OfNodes(NL!Unplugged(head, next, prev, n).head, NL!Unplugged(head, next, prev, n).next,
                         NL!Unplugged(head, next, prev, n).prev, t)
    BY <1>0, UnpluggedIs
  <2> QED
    BY <1>7, <2>1 DEF NL!Become, NodesKept
<1>8. ASSUME NL!PopLast PROVE NodesKept(head', next', prev')
  <2>1. Len(s) \in 1 .. Len(s)
    BY <1>1, <1>8 DEF NL!PopLast, ElementAt
  <2>2. NL!Last(s) \in Node
    BY <1>1, <2>1 DEF NL!Last
  <2> QED
    BY <1>1, <1>7, <1>8, <2>2 DEF NL!PopLast
<1>9. ASSUME NEW n \in Node, NL!RemoveIfIncluded(n) PROVE NodesKept(head', next', prev')
  BY <1>2, <1>7, <1>9 DEF NL!RemoveIfIncluded
<1>10. ASSUME NEW n \in Node, NEW x \in Node, NL!InsertBefore(n, x) PROVE NodesKept(head', next', prev')
  <2> DEFINE l == NL!Unplugged(head, next, prev, n)
  <2>1. CASE ~NL!Included(x)
    BY <1>2, <1>10, <2>1 DEF NL!InsertBefore
  <2>2. CASE NL!Included(x)
    <3>1. PICK t : OfNodes(l.head, l.next, l.prev, t) /\ Elements(t) = Elements(s) \ {n}
      BY <1>0, UnpluggedIs
    <3> DEFINE p == CHOOSE p \in NL!Range(NL!Walk(l.head, l.next)) : l.next[p] = x
    <3>2. /\ n # x
          /\ l.head = x => head' = n /\ next' = [l.next EXCEPT ![n] = x] /\ prev' = [l.prev EXCEPT ![x] = n, ![n] = NIL]
          /\ l.head # x => /\ head' = l.head /\ next' = [l.next EXCEPT ![p] = n, ![n] = x]
                           /\ prev' = [l.prev EXCEPT ![x] = n, ![n] = p]
      BY <1>10, <2>2 DEF NL!InsertBefore
    <3> DEFINE h == l.head
    <3> DEFINE nx == l.next
    <3> DEFINE pv == l.prev
    <3>3. OfNodes(h, nx, pv, t)
      BY <3>1
    <3>4. /\ h = x => head' = n /\ next' = [nx EXCEPT ![n] = x] /\ prev' = [pv EXCEPT ![x] = n, ![n] = NIL]
          /\ h # x => head' = h /\ next' = [nx EXCEPT ![p] = n, ![n] = x] /\ prev' = [pv EXCEPT ![x] = n, ![n] = p]
          /\ p = CHOOSE q \in NL!Range(NL!Walk(h, nx)) : nx[q] = x
      BY <3>2
    <3> HIDE DEF h, nx, pv, p
    <3>5. /\ NL!Range(NL!Walk(h, nx)) = Elements(t) /\ nx \in [Node -> Node \cup {NIL}] /\ pv \in [Node -> Node \cup {NIL}]
          /\ h = ElementAt(t, 1, NIL) /\ Len(t) \in Nat /\ t \in Seq(Node)
      BY <3>3, NodesAre DEF OfNodes
    <3>6. n \in Node \ Elements(t) /\ x \in Elements(t)
      BY <1>1, <2>2, <3>1, <3>2
    <3>7. PICK k \in 1 .. Len(t) : x = t[k]
      BY <3>6 DEF Elements
    <3>8. x = ElementAt(t, k, NIL) /\ (h = x <=> k = 1) /\ 1 \in 1 .. Len(t) /\ k \in 1 .. Len(t) + 1
      <4>1. 1 \in 1 .. Len(t) /\ k \in 1 .. Len(t) + 1
        BY <3>5, <3>7
      <4> QED
        BY <3>3, <3>5, <3>7, <4>1, NodesAre
    <3>9. IF k = 1 THEN ElementAt(t, k - 1, NIL) = NIL ELSE p = ElementAt(t, k - 1, NIL) /\ p \in Node /\ p # n
      <4>1. CASE k = 1
        BY <4>1 DEF ElementAt
      <4>2. CASE k # 1
        <5>1. k - 1 \in 1 .. Len(t) /\ (k - 1) + 1 = k
          BY <3>5, <3>7, <4>2
        <5>2. nx[t[k - 1]] = x /\ t[k - 1] \in Elements(t)
          BY <3>3, <3>8, <5>1, NodesAre
        <5>3. p \in Elements(t) /\ nx[p] = x
          BY <3>4, <3>5, <5>2
        <5>4. PICK j \in 1 .. Len(t) : p = t[j]
          BY <5>3 DEF Elements
        <5>5. ElementAt(t, j + 1, NIL) = t[k]
          BY <3>3, <3>7, <5>3, <5>4, NodesAre
        <5>6. j + 1 \in 1 .. Len(t) /\ t[j + 1] = t[k]
          <6>1. t[k] # NIL
            BY <3>3, NodesAre
          <6> QED
            BY <5>5, <6>1 DEF ElementAt
        <5>7. j + 1 = k
          BY <3>3, <5>6, NodesAre
        <5>8. p = t[k - 1]
          BY <3>5, <5>4, <5>7
        <5> QED
          BY <3>3, <3>6, <4>2, <5>1, <5>3, <5>8, NodesAre
      <4> QED
        BY <4>1, <4>2
    <3>10. next' \in [Node -> Node \cup {NIL}] /\ prev' \in [Node -> Node \cup {NIL}]
      <4>1. CASE k = 1
        BY <3>4, <3>5, <3>6, <3>8, <4>1
      <4>2. CASE k # 1
        <5>1. next' = [nx EXCEPT ![p] = n, ![n] = x] /\ prev' = [pv EXCEPT ![x] = n, ![n] = p] /\ p \in Node
          BY <3>4, <3>8, <3>9, <4>2
        <5>2. n \in Node /\ x \in Node
          OBVIOUS
        <5> HIDE DEF p
        <5>3. next' \in [Node -> Node \cup {NIL}]
          BY <3>5, <5>1, <5>2
        <5>4. prev' \in [Node -> Node \cup {NIL}]
          BY <3>5, <5>1, <5>2
        <5> QED
          BY <5>3, <5>4
      <4> QED
        BY <4>1, <4>2
    <3>11. \A m \in Node : next'[m] = IF m = n THEN ElementAt(t, k, NIL) ELSE IF m = ElementAt(t, k - 1, NIL) THEN n ELSE nx[m]
      <4>1. CASE k = 1
        <5>1. next' = [nx EXCEPT ![n] = x] /\ ElementAt(t, k - 1, NIL) = NIL
          BY <3>4, <3>8, <3>9, <4>1
        <5> QED
          BY <1>1, <3>5, <3>8, <5>1
      <4>2. CASE k # 1
        <5>1. next' = [nx EXCEPT ![p] = n, ![n] = x] /\ p = ElementAt(t, k - 1, NIL) /\ p # n
          BY <3>4, <3>8, <3>9, <4>2
        <5> QED
          BY <3>5, <3>8, <5>1
      <4> QED
        BY <4>1, <4>2
    <3>12. \A m \in Node : prev'[m] = IF m = n THEN ElementAt(t, k - 1, NIL) ELSE IF m = ElementAt(t, k, NIL) THEN n ELSE pv[m]
      BY <3>2, <3>4, <3>5, <3>6, <3>8, <3>9
    <3>13. \E u : OfNodes(IF k = 1 THEN n ELSE h, next', prev', u)
      BY <3>3, <3>6, <3>8, <3>10, <3>11, <3>12, NodeIn
    <3> QED
      BY <3>4, <3>8, <3>13 DEF NodesKept
  <2> QED
    BY <2>1, <2>2
<1>11. ASSUME NEW n \in Node, NEW p \in Node, NL!InsertAfter(n, p) PROVE NodesKept(head', next', prev')
  <2> DEFINE l == NL!Unplugged(head, next, prev, n)
  <2>1. CASE ~NL!Included(p)
    BY <1>2, <1>11, <2>1 DEF NL!InsertAfter
  <2>2. CASE NL!Included(p)
    <3>1. PICK t : OfNodes(l.head, l.next, l.prev, t) /\ Elements(t) = Elements(s) \ {n}
      BY <1>0, UnpluggedIs
    <3> DEFINE h == l.head
    <3> DEFINE nx == l.next
    <3> DEFINE pv == l.prev
    <3> DEFINE x == nx[p]
    <3>2. /\ n # p /\ head' = h /\ next' = [nx EXCEPT ![n] = x, ![p] = n]
          /\ prev' = IF x # NIL THEN [pv EXCEPT ![x] = n, ![n] = p] ELSE [pv EXCEPT ![n] = p]
      BY <1>11, <2>2 DEF NL!InsertAfter
    <3>3. OfNodes(h, nx, pv, t)
      BY <3>1
    <3> HIDE DEF h, nx, pv
    <3>5. nx \in [Node -> Node \cup {NIL}] /\ pv \in [Node -> Node \cup {NIL}] /\ Len(t) \in Nat /\ t \in Seq(Node)
      BY <3>3, NodesAre DEF OfNodes
    <3>6. n \in Node \ Elements(t) /\ p \in Elements(t)
      BY <1>1, <2>2, <3>1, <3>2
    <3>7. PICK j \in 1 .. Len(t) : p = t[j]
      BY <3>6 DEF Elements
    <3> DEFINE k == j + 1
    <3>8. k \in 1 .. Len(t) + 1 /\ k - 1 = j /\ k # 1
      BY <3>5, <3>7
    <3>9. p = ElementAt(t, k - 1, NIL) /\ x = ElementAt(t, k, NIL) /\ x \in Node \cup {NIL} /\ x # n
      <4>1. p = ElementAt(t, k - 1, NIL) /\ x = ElementAt(t, k, NIL)
        BY <3>3, <3>7, <3>8, NodesAre
      <4>2. x # n
        BY <1>1, <3>6, <4>1 DEF ElementAt, Elements
      <4> QED
        BY <3>5, <4>1, <4>2
    <3> HIDE DEF k, x
    <3>10. next' \in [Node -> Node \cup {NIL}] /\ prev' \in [Node -> Node \cup {NIL}]
      BY <3>2, <3>5, <3>9
    <3>11. \A m \in Node : next'[m] = IF m = n THEN ElementAt(t, k, NIL) ELSE IF m = ElementAt(t, k - 1, NIL) THEN n ELSE nx[m]
      BY <3>2, <3>5, <3>6, <3>9
    <3>12. \A m \in Node : prev'[m] = IF m = n THEN ElementAt(t, k - 1, NIL) ELSE IF m = ElementAt(t, k, NIL) THEN n ELSE pv[m]
      BY <1>1, <3>2, <3>5, <3>6, <3>9
    <3>13. \E u : OfNodes(IF k = 1 THEN n ELSE h, next', prev', u)
      BY <3>3, <3>6, <3>8, <3>10, <3>11, <3>12, NodeIn
    <3> QED
      BY <3>2, <3>8, <3>13 DEF NodesKept
  <2> QED
    BY <2>1, <2>2
<1>12. CASE NL!Next
  <2>1. ASSUME NEW n \in Node, NL!Refused(n) \/ NL!Position(n) PROVE NodesKept(head', next', prev')
    BY <1>2, <2>1 DEF NL!Refused, NL!Position
  <2>2. ASSUME NL!Count PROVE NodesKept(head', next', prev')
    BY <1>2, <2>2 DEF NL!Count
  <2>3. NL!Cardinality(Node) = Cardinality(Node)
    BY CountsAlike
  <2>4. ASSUME NEW n \in Node, \E pos \in 1 .. NL!Cardinality(Node) : NL!SetAt(pos, n) PROVE NodesKept(head', next', prev')
    BY <1>5, <2>3, <2>4
  <2>5. ASSUME NEW n \in Node, \E x \in Node : NL!InsertBefore(n, x) \/ NL!InsertAfter(n, x)
        PROVE  NodesKept(head', next', prev')
    BY <1>10, <1>11, <2>5
  <2> QED
    BY <1>3, <1>4, <1>6, <1>8, <1>9, <1>12, <2>1, <2>2, <2>4, <2>5 DEF NL!Next
<1>13. CASE UNCHANGED nodeVars
  BY <1>2, <1>13 DEF nodeVars
<1> QED
  BY <1>12, <1>13

(* Such a list is well linked. *)
LEMMA NodesWellLinked == NodesKept(head, next, prev) => NL!WellLinked
<1> SUFFICES ASSUME NEW s, OfNodes(head, next, prev, s) PROVE NL!WellLinked
  BY DEF NodesKept
<1>1. /\ NL!Chain = s /\ NL!Range(s) = Elements(s) /\ Len(s) \in Nat /\ NIL \notin Node /\ head = ElementAt(s, 1, NIL)
      /\ \A n \in Node \ Elements(s) : next[n] = NIL /\ prev[n] = NIL
  BY NodesAre DEF OfNodes, NL!Chain
<1>2. ASSUME NEW n \in Node, next[n] # NIL PROVE prev[next[n]] = n
  <2>1. PICK i \in 1 .. Len(s) : n = s[i]
    BY <1>1, <1>2 DEF Elements
  <2>2. next[n] = ElementAt(s, i + 1, NIL) /\ i + 1 \in 1 .. Len(s) /\ (i + 1) - 1 = i
    BY <1>1, <1>2, <2>1, NodesAre
  <2>3. next[n] = s[i + 1] /\ ElementAt(s, i, NIL) = n
    BY <2>1, <2>2, NodesAre
  <2>4. prev[s[i + 1]] = ElementAt(s, (i + 1) - 1, NIL)
    BY <2>2, NodesAre
  <2> QED
    BY <2>2, <2>3, <2>4
<1>3. ASSUME NEW n \in Node, prev[n] # NIL PROVE next[prev[n]] = n
  <2>1. PICK i \in 1 .. Len(s) : n = s[i]
    BY <1>1, <1>3 DEF Elements
  <2>2. prev[n] = ElementAt(s, i - 1, NIL) /\ i - 1 \in 1 .. Len(s) /\ (i - 1) + 1 = i
    BY <1>1, <1>3, <2>1, NodesAre
  <2>3. prev[n] = s[i - 1] /\ ElementAt(s, i, NIL) = n
    BY <2>1, <2>2, NodesAre
  <2>4. next[s[i - 1]] = ElementAt(s, (i - 1) + 1, NIL)
    BY <2>2, NodesAre
  <2> QED
    BY <2>2, <2>3, <2>4
<1>4. head # NIL => prev[head] = NIL
  <2>1. CASE 1 \in 1 .. Len(s)
    <3>1. head = s[1] /\ 1 - 1 \notin 1 .. Len(s)
      BY <1>1, <2>1 DEF ElementAt
    <3> QED
      BY <2>1, <3>1, NodesAre
  <2>2. CASE 1 \notin 1 .. Len(s)
    BY <1>1, <2>2 DEF ElementAt
  <2> QED
    BY <2>1, <2>2
<1> QED
  BY <1>1, <1>2, <1>3, <1>4 DEF NL!WellLinked, NL!Linked

-----------------------------------------------------------------------------
(* The vector list: a vector by its fields, whatever its items are.           *)
Vector(items, last, size, room, touched, rate, shrink, crowded) ==
    [items |-> items, last |-> last, size |-> size, slots |-> room,
     touched |-> touched, rate |-> rate, shrink |-> shrink, crowded |-> crowded]

(* The last element is before the end, which is the slot behind it unless the *)
(* vector still has the slots it was created with.                            *)
Fits(last, size, room, touched, rate) ==
    /\ last \in Nat /\ size \in Nat /\ room \in Nat /\ touched \in Nat /\ rate \in Nat
    /\ last < size /\ rate >= 1
    /\ room = size + 1 \/ (room = size /\ room = DefaultSize)
    /\ touched < room \/ (touched = room /\ room = DefaultSize)

VectorKept(v) ==
    /\ v = Vector(v.items, v.last, v.size, v.slots, v.touched, v.rate, v.shrink, v.crowded)
    /\ Fits(v.last, v.size, v.slots, v.touched, v.rate)

LEMMA VectorOf ==
    ASSUME NEW items, NEW last, NEW size, NEW room, NEW touched, NEW rate, NEW shrink, NEW crowded,
           Fits(last, size, room, touched, rate)
    PROVE  VectorKept(Vector(items, last, size, room, touched, rate, shrink, crowded))
BY DEF VectorKept, Vector

(* Touching a slot of the vector, or the one behind those it was created with. *)
LEMMA TouchKept ==
    ASSUME NEW v, VectorKept(v), NEW i \in Nat, i <= v.size
    PROVE  /\ VectorKept(VL!Touch(v, i))
           /\ VL!Touch(v, i) = Vector(v.items, v.last, v.size, v.slots, IF i > v.touched THEN i ELSE v.touched, v.rate, v.shrink, v.crowded)
<1>1. VL!Touch(v, i) = Vector(v.items, v.last, v.size, v.slots, IF i > v.touched THEN i ELSE v.touched, v.rate, v.shrink, v.crowded)
  BY DEF VL!Touch, VectorKept, Vector
<1>2. Fits(v.last, v.size, v.slots, IF i > v.touched THEN i ELSE v.touched, v.rate)
  BY VectorAssumption DEF VectorKept, Fits
<1> QED
  BY <1>1, <1>2, VectorOf

(* A resize leaves the elements where they are. *)
LEMMA ResizedKept ==
    ASSUME NEW v, VectorKept(v), NEW n \in Nat
    PROVE  LET r == VL!Resized(v, n)
           IN  /\ VectorKept(r) /\ r.last = v.last /\ r.rate = v.rate
               /\ v.last < n - 1 /\ v.size # n - 1 => r.size = n - 1 /\ r.slots = n
<1>1. CASE ~VL!CanResize(v, n) \/ v.size = n - 1
  <2>1. VL!Resized(v, n) = v
    BY <1>1 DEF VL!Resized
  <2>2. ~(v.last < n - 1 /\ v.size # n - 1)
    BY <1>1 DEF VL!CanResize, VectorKept, Fits
  <2> QED
    BY <2>1, <2>2
<1>2. CASE VL!CanResize(v, n) /\ v.size # n - 1
  <2> DEFINE items == [i \in VL!Index |-> IF i < VL!Smaller(v.size, n) THEN v.items[i] ELSE NULL]
  <2>1. VL!Resized(v, n) = [v EXCEPT !.size = n - 1, !.slots = n, !.touched = n - 1, !.items = items]
    BY <1>2 DEF VL!Resized
  <2> HIDE DEF items
  <2>2. VL!Resized(v, n) = Vector(items, v.last, n - 1, n, n - 1, v.rate, v.shrink, v.crowded)
    BY <2>1 DEF VectorKept, Vector
  <2>3. Fits(v.last, n - 1, n, n - 1, v.rate)
    BY <1>2 DEF VL!CanResize, VectorKept, Fits
  <2>4. VectorKept(Vector(items, v.last, n - 1, n, n - 1, v.rate, v.shrink, v.crowded))
    BY <2>3, VectorOf
  <2> QED
    BY <2>2, <2>4 DEF Vector
<1> QED
  BY <1>1, <1>2

LEMMA AdjustedKept ==
    ASSUME NEW v, VectorKept(v)
    PROVE  VectorKept(VL!Adjusted(v))
<1>1. v.size + v.rate + 1 \in Nat /\ v.last + v.rate + 1 \in Nat
  BY DEF VectorKept, Fits
<1> QED
  BY <1>1, ResizedKept DEF VL!Adjusted

(* An element placed behind the end makes the vector as large as it needs.    *)
LEMMA PlacedKept ==
    ASSUME NEW v, VectorKept(v), NEW pos \in Nat, NEW x
    PROVE  VectorKept(VL!Placed(v, pos, x))
<1> DEFINE room == IF pos >= v.size THEN VL!Resized(v, pos + 2) ELSE v
<1>0. v.last \in Nat /\ v.size \in Nat /\ v.last < v.size
  BY DEF VectorKept, Fits
<1>1. VectorKept(room) /\ pos < room.size
  <2>1. CASE pos >= v.size
    <3>1. pos + 2 \in Nat /\ v.last < (pos + 2) - 1 /\ v.size # (pos + 2) - 1 /\ pos < (pos + 2) - 1
      BY <1>0, <2>1
    <3> QED
      BY <2>1, <3>1, ResizedKept
  <2>2. CASE ~(pos >= v.size)
    BY <1>0, <2>2
  <2> QED
    BY <2>1, <2>2
<1> HIDE DEF room
<1> DEFINE t == VL!Touch(room, pos)
<1>2. VectorKept(t) /\ t.size = room.size
  <2>1. pos <= room.size
    BY <1>1 DEF VectorKept, Fits
  <2> QED
    BY <1>1, <2>1, TouchKept DEF Vector
<1> HIDE DEF t
<1> DEFINE last == IF pos > t.last THEN pos ELSE t.last
<1>3. VL!Placed(v, pos, x) = [t EXCEPT !.items[pos] = x, !.last = IF pos > @ THEN pos ELSE @]
  BY DEF VL!Placed, t, room
<1>4. VL!Placed(v, pos, x) = Vector([t.items EXCEPT ![pos] = x], last, t.size, t.slots, t.touched, t.rate, t.shrink, t.crowded)
  BY <1>2, <1>3 DEF VectorKept, Vector
<1>5. Fits(last, t.size, t.slots, t.touched, t.rate)
  BY <1>1, <1>2 DEF VectorKept, Fits
<1> HIDE DEF last
<1> QED
  BY <1>4, <1>5, VectorOf

(* Making room for one element makes room for the slot a shift touches, or    *)
(* makes none with a rate of 1.                                               *)
LEMMA RoomyKept ==
    ASSUME VectorKept(vector)
    PROVE  /\ VectorKept(VL!Roomy) /\ VL!Roomy.last = vector.last /\ VL!Roomy.rate = vector.rate
           /\ VL!Roomy.size \in Nat /\ VL!Roomy.slots \in Nat
           /\ IF VL!NoRoom THEN /\ vector.last + 1 = VL!Roomy.size /\ vector.rate = 1
                                /\ VL!Roomy.touched <= VL!Roomy.slots /\ VL!Roomy.size <= VL!Roomy.slots
                           ELSE vector.last + 2 <= VL!Roomy.size
<1>0. /\ vector.last \in Nat /\ vector.size \in Nat /\ vector.rate \in Nat /\ vector.rate >= 1
      /\ vector.last < vector.size
  BY DEF VectorKept, Fits
<1>1. CASE vector.last = vector.size - 1
  <2> DEFINE n == vector.size + vector.rate
  <2>1. n \in Nat /\ vector.last < n - 1
    BY <1>0, <1>1
  <2>2. vector.rate # 1 => vector.size # n - 1 /\ vector.last + 2 <= n - 1
    BY <1>0, <1>1
  <2>3. vector.rate = 1 => n - 1 = vector.size
    BY <1>0
  <2>4. VL!Roomy = VL!Resized(vector, n)
    BY <1>1 DEF VL!Roomy
  <2> HIDE DEF n
  <2>5. VectorKept(VL!Roomy) /\ VL!Roomy.last = vector.last /\ VL!Roomy.rate = vector.rate
    BY <2>1, <2>4, ResizedKept
  <2>6. VL!Roomy.size \in Nat /\ VL!Roomy.slots \in Nat /\ VL!Roomy.touched <= VL!Roomy.slots /\ VL!Roomy.size <= VL!Roomy.slots
    BY <2>5 DEF VectorKept, Fits
  <2>7. CASE vector.rate = 1
    <3>1. VL!Roomy = vector
      BY <2>3, <2>4, <2>7 DEF VL!Resized
    <3> QED
      BY <1>0, <1>1, <2>5, <2>6, <2>7, <3>1 DEF VL!NoRoom
  <2>8. CASE vector.rate # 1
    <3>1. VL!Roomy.size = n - 1
      BY <2>1, <2>2, <2>4, <2>8, ResizedKept
    <3>2. ~VL!NoRoom
      BY <2>2, <2>8, <3>1 DEF VL!NoRoom
    <3> QED
      BY <2>2, <2>5, <2>6, <2>8, <3>1, <3>2
  <2> QED
    BY <2>7, <2>8
<1>2. CASE vector.last # vector.size - 1
  <2>1. vector.last + 2 <= vector.size
    BY <1>0, <1>2
  <2>2. VL!Roomy = vector /\ ~VL!NoRoom
    BY <1>2 DEF VL!Roomy, VL!NoRoom
  <2>3. vector.slots \in Nat
    BY DEF VectorKept, Fits
  <2> QED
    BY <1>0, <2>1, <2>2, <2>3
<1> QED
  BY <1>1, <1>2

(* A vector fits, or is crowded and not followed any more. *)
VectorIs(v) ==
    \/ VectorKept(v)
    \/ v.crowded /\ v.rate = 1 /\ v.touched <= v.slots + 1

(* An element added without room. *)
LEMMA CrowdedIs ==
    ASSUME VectorKept(vector), VL!NoRoom, NEW i \in {vector.last + 1, vector.last + 2}, NEW w,
           LET t == VL!Touch(VL!Roomy, i)
           IN  w.crowded = VL!NoRoom /\ w.rate = t.rate /\ w.touched = t.touched /\ w.slots = t.slots
    PROVE  VectorIs(w)
<1> DEFINE r == VL!Roomy
<1> DEFINE t == VL!Touch(r, i)
<1>1. vector.last \in Nat
  BY DEF VectorKept, Fits
<1>2. /\ r = Vector(r.items, r.last, r.size, r.slots, r.touched, r.rate, r.shrink, r.crowded)
      /\ r.rate = 1 /\ r.size \in Nat /\ r.slots \in Nat /\ r.touched \in Nat /\ vector.last + 1 = r.size
      /\ r.touched <= r.slots /\ r.size <= r.slots
  BY RoomyKept DEF VectorKept, Fits
<1> HIDE DEF r
<1>3. t.rate = r.rate /\ t.slots = r.slots /\ t.touched = IF i > r.touched THEN i ELSE r.touched
  BY <1>2 DEF VL!Touch, Vector
<1>4. t.touched <= r.slots + 1
  BY <1>1, <1>2, <1>3
<1>5. w.rate = t.rate /\ w.touched = t.touched /\ w.slots = t.slots /\ w.crowded
  BY DEF t, r
<1> HIDE DEF t
<1> QED
  BY <1>2, <1>3, <1>4, <1>5 DEF VectorIs

(* Each call of the vector list. *)
LEMMA NextVector == VectorIs(vector) /\ [VL!Next]_vectorVars => VectorIs(vector')
<1>s. ASSUME VectorIs(vector), ~VectorKept(vector), [VL!Next]_vectorVars PROVE VectorIs(vector')
  <2>1. ~VL!Next
    BY <1>s DEF VectorIs, VL!Next
  <2> QED
    BY <1>s, <2>1 DEF vectorVars
<1> SUFFICES ASSUME VectorKept(vector), [VL!Next]_vectorVars PROVE VectorIs(vector')
  BY <1>s
<1>0. /\ vector.last \in Nat /\ vector.size \in Nat /\ vector.last < vector.size
      /\ vector = Vector(vector.items, vector.last, vector.size, vector.slots, vector.touched, vector.rate, vector.shrink, vector.crowded)
  BY DEF VectorKept, Fits
<1>a. \A pos \in VL!Position : pos \in Nat /\ pos >= 1
  BY ListAssumption DEF VL!Position
<1>1. ASSUME UNCHANGED vector PROVE VectorKept(vector')
  BY <1>1
<1>2. ASSUME NEW pos \in VL!Position, NEW x, vector' = VL!Placed(vector, pos, x) PROVE VectorKept(vector')
  BY <1>2, <1>a, PlacedKept
<1>3. ASSUME NEW r, VectorKept(r), r.last = vector.last, vector.last + 2 <= r.size, NEW i \in {vector.last + 1, vector.last + 2}
      PROVE  LET t == VL!Touch(r, i)
             IN  /\ VectorKept(t) /\ Fits(t.last + 1, t.size, t.slots, t.touched, t.rate)
                 /\ t.last \in Nat
  <2>1. i \in Nat /\ i <= r.size
    BY <1>0, <1>3 DEF VectorKept, Fits
  <2>2. VectorKept(VL!Touch(r, i)) /\ VL!Touch(r, i) =
          Vector(r.items, r.last, r.size, r.slots, IF i > r.touched THEN i ELSE r.touched, r.rate, r.shrink, r.crowded)
    BY <1>3, <2>1, TouchKept
  <2> DEFINE t == VL!Touch(r, i)
  <2> HIDE DEF t
  <2>3. /\ t = Vector(r.items, r.last, r.size, r.slots, t.touched, r.rate, r.shrink, r.crowded)
        /\ t.last = r.last /\ t.size = r.size /\ t.slots = r.slots /\ t.rate = r.rate
    BY <2>2 DEF Vector, t
  <2>4. Fits(r.last, r.size, r.slots, t.touched, r.rate)
    BY <2>2, <2>3 DEF VectorKept, t
  <2>5. Fits(r.last + 1, r.size, r.slots, t.touched, r.rate)
    BY <1>0, <1>3, <2>4 DEF Fits
  <2> QED
    BY <2>2, <2>3, <2>4, <2>5 DEF t, Fits
<1>4. ASSUME NEW pos \in VL!Position, NEW x \in Item \cup {NULL}, VL!Insert(pos, x) PROVE VectorIs(vector')
  <2>1. CASE pos > vector.last
    BY <1>2, <1>4, <2>1 DEF VL!Insert, VectorIs
  <2>2. CASE ~(pos > vector.last)
    <3> DEFINE r == VL!Roomy
    <3> DEFINE t == VL!Touch(r, vector.last + 2)
    <3>1. VectorKept(r) /\ r.last = vector.last /\ (~VL!NoRoom => vector.last + 2 <= r.size)
      BY RoomyKept
    <3>2. ~VL!NoRoom => VectorKept(t) /\ Fits(t.last + 1, t.size, t.slots, t.touched, t.rate) /\ t.last \in Nat
      BY <1>3, <3>1
    <3>r. r = Vector(r.items, r.last, r.size, r.slots, r.touched, r.rate, r.shrink, r.crowded)
      BY <3>1 DEF VectorKept
    <3>t. t = Vector(t.items, t.last, t.size, t.slots, t.touched, t.rate, t.shrink, t.crowded)
      <4> HIDE DEF r
      <4> QED
        BY <3>r DEF VL!Touch, Vector
    <3> DEFINE items == [i \in VL!Index |-> IF i = pos THEN x ELSE IF i \in pos + 1 .. vector.last + 2 THEN t.items[i - 1]
                                             ELSE t.items[i]]
    <3>3. vector' = [t EXCEPT !.last = @ + 1, !.crowded = VL!NoRoom, !.items = items]
      BY <1>4, <2>2 DEF VL!Insert
    <3> HIDE DEF items
    <3>4. vector' = Vector(items, t.last + 1, t.size, t.slots, t.touched, t.rate, t.shrink, VL!NoRoom)
      <4> HIDE DEF t
      <4> QED
        BY <3>t, <3>3 DEF Vector
    <3>5. CASE VL!NoRoom
      <4>1. /\ vector'.crowded = VL!NoRoom /\ vector'.rate = t.rate
            /\ vector'.touched = t.touched /\ vector'.slots = t.slots
        <5> HIDE DEF t
        <5> QED
          BY <3>4 DEF Vector
      <4> QED
        BY <3>5, <4>1, CrowdedIs
    <3>6. CASE ~VL!NoRoom
      <4> HIDE DEF t
      <4> QED
        BY <3>2, <3>4, <3>6, VectorOf DEF VectorIs
    <3> QED
      BY <3>5, <3>6
  <2> QED
    BY <2>1, <2>2
<1>5. ASSUME NEW x, VL!Push(x) PROVE VectorIs(vector')
  <2> DEFINE r == VL!Roomy
  <2> DEFINE t == VL!Touch(r, vector.last + 1)
  <2>1. VectorKept(r) /\ r.last = vector.last /\ (~VL!NoRoom => vector.last + 2 <= r.size)
    BY RoomyKept
  <2>2. ~VL!NoRoom => VectorKept(t) /\ Fits(t.last + 1, t.size, t.slots, t.touched, t.rate) /\ t.last \in Nat
    BY <1>3, <2>1
  <2>r. r = Vector(r.items, r.last, r.size, r.slots, r.touched, r.rate, r.shrink, r.crowded)
    BY <2>1 DEF VectorKept
  <2>t. t = Vector(t.items, t.last, t.size, t.slots, t.touched, t.rate, t.shrink, t.crowded)
    <3> HIDE DEF r
    <3> QED
      BY <2>r DEF VL!Touch, Vector
  <2>3. vector' = [t EXCEPT !.last = @ + 1, !.crowded = VL!NoRoom, !.items[vector.last + 1] = x]
    BY <1>5 DEF VL!Push
  <2>4. vector' = Vector([t.items EXCEPT ![vector.last + 1] = x], t.last + 1, t.size, t.slots, t.touched, t.rate, t.shrink, VL!NoRoom)
    <3> HIDE DEF t
    <3> QED
      BY <2>t, <2>3 DEF Vector
  <2>5. CASE VL!NoRoom
    <3>1. /\ vector'.crowded = VL!NoRoom /\ vector'.rate = t.rate
          /\ vector'.touched = t.touched /\ vector'.slots = t.slots
      <4> HIDE DEF t
      <4> QED
        BY <2>4 DEF Vector
    <3> QED
      BY <2>5, <3>1, CrowdedIs
  <2>6. CASE ~VL!NoRoom
    <3> HIDE DEF t
    <3> QED
      BY <2>2, <2>4, <2>6, VectorOf DEF VectorIs
  <2> QED
    BY <2>5, <2>6
<1>6. ASSUME NEW pos \in VL!Position, VL!RemoveItem(pos) PROVE VectorKept(vector')
  <2>1. CASE pos > vector.last
    BY <1>1, <1>6, <2>1 DEF VL!RemoveItem
  <2>2. CASE ~(pos > vector.last)
    <3>1. vector.last + 1 \in Nat /\ vector.last + 1 <= vector.size /\ vector.last >= 1
      BY <1>0, <1>a, <2>2
    <3> DEFINE t == VL!Touch(vector, vector.last + 1)
    <3>2. VectorKept(t) /\ t.last = vector.last
      BY <3>1, TouchKept DEF Vector
    <3> DEFINE items == [i \in VL!Index |-> IF i = vector.last THEN NULL ELSE IF i \in pos .. vector.last THEN t.items[i + 1]
                                             ELSE t.items[i]]
    <3>3. vector' = VL!Adjusted([t EXCEPT !.last = @ - 1, !.items = items])
      BY <1>6, <2>2 DEF VL!RemoveItem
    <3> HIDE DEF t, items
    <3>4. [t EXCEPT !.last = @ - 1, !.items = items] = Vector(items, t.last - 1, t.size, t.slots, t.touched, t.rate, t.shrink, t.crowded)
      <4> DEFINE less == t.last - 1
      <4>1. [t EXCEPT !.last = @ - 1, !.items = items] = [t EXCEPT !.last = less, !.items = items]
        BY Zenon
      <4> HIDE DEF less
      <4>2. [t EXCEPT !.last = less, !.items = items] = Vector(items, less, t.size, t.slots, t.touched, t.rate, t.shrink, t.crowded)
        <5> SUFFICES ASSUME NEW m, m = [t EXCEPT !.last = less, !.items = items]
                     PROVE  m = Vector(items, less, t.size, t.slots, t.touched, t.rate, t.shrink, t.crowded)
          OBVIOUS
        <5> QED
          BY <3>2 DEF VectorKept, Vector
      <4> QED
        BY <4>1, <4>2 DEF less
    <3>5. Fits(t.last - 1, t.size, t.slots, t.touched, t.rate)
      BY <3>1, <3>2 DEF VectorKept, Fits
    <3> QED
      BY <3>3, <3>4, <3>5, VectorOf, AdjustedKept
  <2> QED
    BY <2>1, <2>2
<1>7. ASSUME VL!Pop PROVE VectorKept(vector')
  <2>1. CASE vector.last = 0
    BY <1>1, <1>7, <2>1 DEF VL!Pop
  <2>2. CASE vector.last # 0
    <3> DEFINE items == [vector.items EXCEPT ![vector.last] = NULL]
    <3>1. vector' = VL!Adjusted([vector EXCEPT !.items[vector.last] = NULL, !.last = @ - 1])
      BY <1>7, <2>2 DEF VL!Pop
    <3>2. [vector EXCEPT !.items[vector.last] = NULL, !.last = @ - 1]
            = Vector(items, vector.last - 1, vector.size, vector.slots, vector.touched, vector.rate, vector.shrink, vector.crowded)
      <4> DEFINE less == vector.last - 1
      <4>1. [vector EXCEPT !.items[vector.last] = NULL, !.last = @ - 1] = [vector EXCEPT !.items = items, !.last = less]
        BY Zenon
      <4> HIDE DEF less, items
      <4>2. [vector EXCEPT !.items = items, !.last = less]
              = Vector(items, less, vector.size, vector.slots, vector.touched, vector.rate, vector.shrink, vector.crowded)
        <5> SUFFICES ASSUME NEW m, m = [vector EXCEPT !.items = items, !.last = less]
                     PROVE  m = Vector(items, less, vector.size, vector.slots, vector.touched, vector.rate, vector.shrink, vector.crowded)
          OBVIOUS
        <5> QED
          BY <1>0 DEF Vector
      <4> QED
        BY <4>1, <4>2 DEF less
    <3>3. Fits(vector.last - 1, vector.size, vector.slots, vector.touched, vector.rate)
      BY <1>0, <2>2 DEF VectorKept, Fits
    <3> HIDE DEF items
    <3> QED
      BY <3>1, <3>2, <3>3, VectorOf, AdjustedKept
  <2> QED
    BY <2>1, <2>2
<1>8. ASSUME VL!Clear PROVE VectorKept(vector')
  <2>1. vector.size - 1 \in Nat /\ vector.size - 1 <= vector.size
    BY <1>0
  <2> DEFINE t == VL!Touch(vector, vector.size - 1)
  <2>2. VectorKept(t)
    BY <2>1, TouchKept
  <2> DEFINE items == [i \in VL!Index |-> IF i < vector.size THEN NULL ELSE t.items[i]]
  <2>3. vector' = [t EXCEPT !.last = 0, !.items = items]
    BY <1>8 DEF VL!Clear
  <2> HIDE DEF t, items
  <2>4. vector' = Vector(items, 0, t.size, t.slots, t.touched, t.rate, t.shrink, t.crowded)
    BY <2>2, <2>3 DEF VectorKept, Vector
  <2>5. Fits(0, t.size, t.slots, t.touched, t.rate)
    BY <2>2 DEF VectorKept, Fits
  <2> QED
    BY <2>4, <2>5, VectorOf
<1>9. CASE VL!Next
  <2>1. ASSUME NEW pos \in VL!Position, NEW x \in Item \cup {NULL}, VL!Set(pos, x) PROVE VectorKept(vector')
    BY <1>2, <2>1 DEF VL!Set
  <2>2. ASSUME NEW pos \in VL!Position, VL!Get(pos) PROVE VectorKept(vector')
    BY <1>1, <2>2 DEF VL!Get
  <2>3. ASSUME (\E x \in Item : VL!Find(x)) \/ VL!Count PROVE VectorKept(vector')
    BY <1>1, <2>3 DEF VL!Find, VL!Count
  <2> QED
    BY <1>4, <1>5, <1>6, <1>7, <1>8, <1>9, <2>1, <2>2, <2>3 DEF VL!Next, VectorIs
<1>10. CASE UNCHANGED vectorVars
  BY <1>1, <1>10 DEF vectorVars, VectorIs
<1> QED
  BY <1>9, <1>10

LEMMA VectorInSlots == VectorIs(vector) => VL!WithinSlots
BY DEF VectorIs, VectorKept, Fits, VL!WithinSlots

-----------------------------------------------------------------------------
(* The buffer: memory of some capacity that begins with the bytes put into it. *)
Holds(s, b, cap) ==
    /\ s \in Seq(Byte) /\ b \in Seq(Byte) /\ cap \in Nat
    /\ Len(b) <= cap /\ cap <= Len(s)
    /\ \A i \in 1 .. Len(b) : s[i] = b[i]

Memories == [mem : Seq(Byte), cap : Nat]
LargeEnough(m) == m.cap <= Len(m.mem)

BufferKept ==
    /\ Holds(start, bytes, capacity) /\ length = Len(bytes)
    /\ cached \in Seq(Memories) /\ \A i \in 1 .. Len(cached) : LargeEnough(cached[i])

LEMMA ZerosHold ==
    ASSUME NEW n \in Nat, NEW c \in Nat, c <= n
    PROVE  Holds(BU!Zeros(n), <<>>, c) /\ BU!Zeros(n) \in Seq(Byte) /\ Len(BU!Zeros(n)) = n
<1>1. BU!Zeros(n) = [i \in 1 .. n |-> ZERO]
  BY DEF BU!Zeros
<1>2. ZERO \in Byte
  BY BufferAssumption
<1>3. BU!Zeros(n) \in Seq(Byte) /\ Len(BU!Zeros(n)) = n
  BY <1>1, <1>2
<1>4. Len(<<>>) = 0 /\ <<>> \in Seq(Byte)
  OBVIOUS
<1> QED
  BY <1>3, <1>4 DEF Holds

(* Bytes written behind those that are there. *)
LEMMA WrittenHolds ==
    ASSUME NEW s, NEW b, NEW cap, Holds(s, b, cap), NEW d \in Seq(Byte), Len(b) + Len(d) <= cap
    PROVE  Holds(BU!Written(s, Len(b), d), b \o d, cap)
<1> DEFINE w == BU!Written(s, Len(b), d)
<1> DEFINE at == Len(b)
<1>1. s \in Seq(Byte) /\ b \in Seq(Byte) /\ cap \in Nat /\ at \in Nat /\ Len(d) \in Nat /\ Len(s) \in Nat
      /\ at + Len(d) <= Len(s) /\ at + Len(d) <= cap /\ cap <= Len(s)
  BY DEF Holds
<1>2. w = [i \in 1 .. Len(s) |-> IF i \in at + 1 .. at + Len(d) THEN d[i - at] ELSE s[i]]
  BY DEF BU!Written
<1>3. \A i \in 1 .. at : s[i] = b[i]
  BY DEF Holds
<1> HIDE DEF w
<1>4. \A i \in 1 .. Len(s) : (IF i \in at + 1 .. at + Len(d) THEN d[i - at] ELSE s[i]) \in Byte
  <2> SUFFICES ASSUME NEW i \in 1 .. Len(s) PROVE (IF i \in at + 1 .. at + Len(d) THEN d[i - at] ELSE s[i]) \in Byte
    OBVIOUS
  <2>1. i \in at + 1 .. at + Len(d) => i - at \in 1 .. Len(d)
    BY <1>1
  <2> HIDE DEF at
  <2> QED
    BY <1>1, <2>1
<1>5. w \in Seq(Byte) /\ Len(w) = Len(s)
  BY <1>1, <1>2, <1>4
<1>6. b \o d \in Seq(Byte) /\ Len(b \o d) = at + Len(d)
      /\ \A i \in 1 .. at + Len(d) : (b \o d)[i] = IF i <= at THEN b[i] ELSE d[i - at]
  BY <1>1, ConcatProperties
<1>7. ASSUME NEW i \in 1 .. at + Len(d) PROVE w[i] = (b \o d)[i]
  <2>1. i \in 1 .. Len(s) /\ (i \in at + 1 .. at + Len(d) <=> ~(i <= at)) /\ (i <= at => i \in 1 .. at)
    BY <1>1
  <2> HIDE DEF at
  <2> QED
    BY <1>2, <1>3, <1>6, <2>1
<1>8. Holds(w, b \o d, cap)
  BY <1>1, <1>5, <1>6, <1>7 DEF Holds
<1> QED
  BY <1>8 DEF w

(* The bytes with zeroes behind them. *)
LEMMA RoomHolds ==
    ASSUME NEW s, NEW b, NEW cap, Holds(s, b, cap), NEW n \in Nat, NEW c \in Nat, Len(b) <= c, c <= Len(b) + n
    PROVE  Holds(SubSeq(s, 1, Len(b)) \o BU!Zeros(n), b, c)
<1> DEFINE k == Len(b)
<1> DEFINE a == SubSeq(s, 1, k)
<1> DEFINE z == BU!Zeros(n)
<1>1. s \in Seq(Byte) /\ b \in Seq(Byte) /\ k \in Nat /\ k <= Len(s) /\ Len(s) \in Nat /\ \A i \in 1 .. k : s[i] = b[i]
  BY DEF Holds
<1>2. z \in Seq(Byte) /\ Len(z) = n
  BY ZerosHold
<1> HIDE DEF z
<1>3. a \in Seq(Byte) /\ Len(a) = k /\ \A i \in 1 .. k : a[i] = b[i]
  <2>0. 1 \in 1 .. k + 1 /\ k \in 0 .. Len(s)
    BY <1>1
  <2> HIDE DEF k
  <2>1. a \in Seq(Byte) /\ Len(a) = k /\ \A i \in 1 .. k : a[i] = s[i]
    BY <1>1, <2>0
  <2> QED
    BY <1>1, <2>1
<1> HIDE DEF a, k
<1>4. a \o z \in Seq(Byte) /\ Len(a \o z) = k + n /\ \A i \in 1 .. k : (a \o z)[i] = b[i]
  <2>1. \A i \in 1 .. k : i \in 1 .. Len(a) + Len(z) /\ i <= Len(a)
    BY <1>1, <1>2, <1>3
  <2> QED
    BY <1>1, <1>2, <1>3, <2>1, ConcatProperties
<1> QED
  BY <1>1, <1>4 DEF Holds, k, a, z

(* Each call of the buffer. *)
LEMMA NextBuffer == BufferKept /\ [BU!Next]_bufferVars => BufferKept'
<1> SUFFICES ASSUME BufferKept, [BU!Next]_bufferVars PROVE BufferKept'
  OBVIOUS
<1>0. /\ Holds(start, bytes, capacity) /\ length = Len(bytes) /\ length \in Nat /\ capacity \in Nat /\ length <= capacity
      /\ start \in Seq(Byte) /\ bytes \in Seq(Byte) /\ Len(start) \in Nat /\ capacity <= Len(start)
      /\ \A i \in 1 .. length : start[i] = bytes[i]
  BY DEF BufferKept, Holds
<1>1. ASSUME UNCHANGED cached, Holds(start', bytes', capacity'), length' = Len(bytes') PROVE BufferKept'
  BY <1>1 DEF BufferKept
<1>2. \A d \in BU!Data : d \in Seq(Byte) /\ Len(d) \in Nat /\ <<>> \o d = d
  BY BufferAssumption DEF BU!Data
<1>3. ASSUME NEW s \in Seq(Byte), NEW c \in Nat, c <= Len(s), NEW n \in Nat
      PROVE  /\ Holds(BU!Adapted(s, c, n), <<>>, BU!AdaptedCapacity(c, n))
             /\ n <= BU!AdaptedCapacity(c, n)
  <2>1. CASE c >= n
    <3>1. <<>> \in Seq(Byte) /\ Len(<<>>) = 0
      OBVIOUS
    <3> QED
      BY <1>3, <2>1, <3>1 DEF Holds, BU!Adapted, BU!AdaptedCapacity
  <2>2. CASE ~(c >= n)
    <3>1. n + 1 \in Nat /\ n <= n + 1
      OBVIOUS
    <3> QED
      BY <2>2, <3>1, ZerosHold DEF BU!Adapted, BU!AdaptedCapacity
  <2> QED
    BY <2>1, <2>2
<1>4. ASSUME NEW size \in 0 .. MaxSize, BU!Renew(size) PROVE BufferKept'
  <2> DEFINE entry == [mem |-> BU!Zeros(Len(start)), cap |-> capacity]
  <2> DEFINE left == IF capacity # 0 /\ Len(cached) < CacheSlots THEN Append(cached, entry) ELSE cached
  <2> DEFINE hit == size > 0 /\ left # <<>>
  <2> DEFINE mem == IF hit THEN left[Len(left)].mem ELSE <<>>
  <2> DEFINE cap == IF hit THEN left[Len(left)].cap ELSE 0
  <2> DEFINE rest == SubSeq(left, 1, Len(left) - 1)
  <2>1. /\ cached' = IF hit THEN rest ELSE left
        /\ start' = IF size = 0 THEN <<>> ELSE BU!Adapted(mem, cap, size)
        /\ capacity' = IF size = 0 THEN 0 ELSE BU!AdaptedCapacity(cap, size)
        /\ length' = 0 /\ bytes' = <<>>
    BY <1>4 DEF BU!Renew
  <2>2. entry \in Memories /\ LargeEnough(entry)
    <3>1. BU!Zeros(Len(start)) \in Seq(Byte) /\ Len(BU!Zeros(Len(start))) = Len(start)
      BY <1>0, ZerosHold
    <3> QED
      BY <1>0, <3>1 DEF Memories, LargeEnough
  <2> HIDE DEF entry
  <2>3. left \in Seq(Memories) /\ \A i \in 1 .. Len(left) : LargeEnough(left[i])
    <3>1. cached \in Seq(Memories) /\ \A i \in 1 .. Len(cached) : LargeEnough(cached[i])
      BY DEF BufferKept
    <3>2. ASSUME NEW i \in 1 .. Len(Append(cached, entry)) PROVE LargeEnough(Append(cached, entry)[i])
      <4>1. CASE i = Len(cached) + 1
        BY <2>2, <3>1, <4>1
      <4>2. CASE i # Len(cached) + 1
        BY <3>1, <4>2
      <4> QED
        BY <4>1, <4>2
    <3> QED
      BY <2>2, <3>1, <3>2
  <2> HIDE DEF left
  <2>4. ASSUME hit PROVE /\ left[Len(left)] \in Memories /\ LargeEnough(left[Len(left)])
                         /\ rest \in Seq(Memories) /\ \A i \in 1 .. Len(rest) : LargeEnough(rest[i])
    <3>1. Len(left) \in 1 .. Len(left) /\ Len(left) \in Nat
      BY <2>3, <2>4
    <3>2. /\ rest \in Seq(Memories) /\ Len(rest) = Len(left) - 1
          /\ \A i \in 1 .. Len(left) - 1 : rest[i] = left[i]
      <4> DEFINE m == Len(left) - 1
      <4>1. m \in Nat /\ m <= Len(left) /\ 1 \in Int /\ m \in Int /\ (IF 1 <= m THEN m - 1 + 1 ELSE 0) = m /\ m - 1 + 1 = m
            /\ \A i \in 1 .. m : i \in 1 .. Len(left) /\ 1 + i - 1 = i
        <5>1. m \in Nat /\ m <= Len(left) /\ Len(left) \in Nat
          BY <3>1
        <5> HIDE DEF m
        <5> QED
          BY <5>1
      <4> HIDE DEF m
      <4>2. \A i \in 1 .. m : left[i] \in Memories
        BY <2>3, <4>1
      <4>3. /\ SubSeq(left, 1, m) \in Seq(Memories) /\ Len(SubSeq(left, 1, m)) = IF 1 <= m THEN m - 1 + 1 ELSE 0
            /\ \A i \in 1 .. m - 1 + 1 : SubSeq(left, 1, m)[i] = left[1 + i - 1]
        BY <4>1, <4>2, SubSeqProperties
      <4> QED
        BY <4>1, <4>3 DEF m, rest
    <3> QED
      BY <2>3, <3>1, <3>2
  <2>5. mem \in Seq(Byte) /\ cap \in Nat /\ cap <= Len(mem)
    BY <2>4 DEF Memories, LargeEnough
  <2>6. cached' \in Seq(Memories) /\ \A i \in 1 .. Len(cached') : LargeEnough(cached'[i])
    BY <2>1, <2>3, <2>4
  <2> HIDE DEF mem, cap, hit
  <2>7. Holds(start', bytes', capacity')
    <3>1. CASE size = 0
      <4>1. start' = <<>> /\ bytes' = <<>> /\ capacity' = 0
        BY <2>1, <3>1
      <4>2. <<>> \in Seq(Byte) /\ Len(<<>>) = 0
        OBVIOUS
      <4> QED
        BY <4>1, <4>2 DEF Holds
    <3>2. CASE size # 0
      <4>1. size \in Nat
        BY BufferAssumption
      <4> QED
        BY <1>3, <2>1, <2>5, <3>2, <4>1
    <3> QED
      BY <3>1, <3>2
  <2> QED
    BY <2>1, <2>6, <2>7 DEF BufferKept
<1>5. ASSUME NEW d \in BU!Data, BU!Set(d) PROVE BufferKept'
  <2> DEFINE a == BU!Adapted(start, capacity, Len(d))
  <2> DEFINE c == BU!AdaptedCapacity(capacity, Len(d))
  <2>1. Holds(a, <<>>, c) /\ Len(d) <= c
    BY <1>0, <1>2, <1>3
  <2>2. UNCHANGED cached /\ start' = BU!Written(a, 0, d) /\ capacity' = c /\ length' = Len(d) /\ bytes' = d
    BY <1>5 DEF BU!Set
  <2> HIDE DEF a, c
  <2>3. Len(<<>>) = 0 /\ 0 + Len(d) <= c
    BY <1>2, <2>1
  <2>4. Holds(BU!Written(a, 0, d), <<>> \o d, c)
    BY <1>2, <2>1, <2>3, WrittenHolds
  <2> QED
    BY <1>1, <1>2, <2>2, <2>4
<1>6. ASSUME NEW d \in BU!Data, BU!Push(d) PROVE BufferKept'
  <2> DEFINE total == length + Len(d)
  <2> DEFINE room == IF capacity < total THEN SubSeq(start, 1, length) \o BU!Zeros(total + 1 - length) ELSE start
  <2> DEFINE c == IF capacity < total THEN total ELSE capacity
  <2>1. start' = BU!Written(room, length, d) /\ capacity' = c /\ length' = total /\ bytes' = bytes \o d /\ UNCHANGED cached
    BY <1>6 DEF BU!Push
  <2>2. Holds(room, bytes, c)
    <3>1. CASE capacity < total
      <4>1. total + 1 - length \in Nat /\ total \in Nat /\ Len(bytes) <= total /\ total <= Len(bytes) + (total + 1 - length)
        BY <1>0, <1>2
      <4> HIDE DEF total
      <4> QED
        BY <1>0, <3>1, <4>1, RoomHolds
    <3>2. CASE ~(capacity < total)
      BY <1>0, <3>2
    <3> QED
      BY <3>1, <3>2
  <2>3. Len(bytes) + Len(d) <= c /\ Len(bytes \o d) = total
    BY <1>0, <1>2
  <2> HIDE DEF room, c
  <2>4. Holds(BU!Written(room, length, d), bytes \o d, c)
    BY <1>0, <1>2, <2>2, <2>3, WrittenHolds
  <2> QED
    BY <1>1, <2>1, <2>3, <2>4
<1>7. ASSUME NEW n \in Nat PROVE Holds(BU!Extended(n), bytes, capacity + n)
  <2>1. BU!Extended(n) = SubSeq(start, 1, Len(bytes)) \o BU!Zeros(capacity + n - length)
    BY <1>0 DEF BU!Extended
  <2>2. capacity + n - length \in Nat /\ capacity + n \in Nat /\ Len(bytes) <= capacity + n
        /\ capacity + n <= Len(bytes) + (capacity + n - length)
    BY <1>0
  <2> QED
    BY <1>0, <2>1, <2>2, RoomHolds
<1>8. ASSUME NEW n \in 1 .. MaxCapacity, BU!Extend(n) PROVE BufferKept'
  <2>1. n \in Nat
    BY BufferAssumption
  <2>2. start' = BU!Extended(n) /\ capacity' = capacity + n /\ length' = length /\ bytes' = bytes /\ UNCHANGED cached
    BY <1>8 DEF BU!Extend
  <2> QED
    BY <1>0, <1>1, <1>7, <2>1, <2>2
<1>9. ASSUME NEW d \in BU!Data, BU!Concat(d) PROVE BufferKept'
  <2> DEFINE n == length + Len(d)
  <2>1. n \in Nat /\ Len(bytes) + Len(d) <= capacity + n /\ Len(bytes \o d) = n
    BY <1>0, <1>2
  <2>2. start' = BU!Written(BU!Extended(n), length, d) /\ capacity' = capacity + length + Len(d) /\ length' = n
        /\ bytes' = bytes \o d /\ UNCHANGED cached
    BY <1>9 DEF BU!Concat
  <2>3. capacity' = capacity + n
    BY <1>0, <1>2, <2>2
  <2> HIDE DEF n
  <2>4. Holds(BU!Extended(n), bytes, capacity + n)
    BY <1>7, <2>1
  <2>5. Holds(BU!Written(BU!Extended(n), length, d), bytes \o d, capacity + n)
    BY <1>0, <1>2, <2>1, <2>4, WrittenHolds
  <2> QED
    BY <1>1, <2>1, <2>2, <2>3, <2>5
<1>10. Len(<<>>) = 0 /\ Holds(BU!Zeros(Len(start)), <<>>, capacity)
  BY <1>0, ZerosHold
<1>11. ASSUME BU!Clear PROVE BufferKept'
  BY <1>1, <1>10, <1>11 DEF BU!Clear
<1>12. ASSUME NEW n \in 1 .. MaxCapacity, BU!Shift(n) PROVE BufferKept'
  <2>1. CASE n = length
    BY <1>11, <1>12, <2>1 DEF BU!Shift
  <2>2. CASE n # length
    <3> DEFINE a == SubSeq(start, n + 1, length)
    <3> DEFINE b == SubSeq(bytes, n + 1, length)
    <3>1. n \in 1 .. length /\ start' = BU!Written(BU!Zeros(Len(start)), 0, a) /\ length' = length - n
          /\ bytes' = b /\ capacity' = capacity /\ cached' = cached
      BY <1>0, <1>12, <2>2 DEF BU!Shift
    <3>2. n + 1 \in 1 .. Len(start) + 1 /\ n + 1 \in 1 .. Len(bytes) + 1 /\ length \in n .. Len(start) /\ length \in n .. Len(bytes)
          /\ length - n \in Nat /\ (length - (n + 1)) + 1 = length - n /\ n \in Nat /\ length - n <= capacity
      BY <1>0, <3>1
    <3>3. a \in Seq(Byte) /\ Len(a) = length - n /\ \A i \in 1 .. length - n : a[i] = start[i + n]
      BY <1>0, <3>1, <3>2
    <3>4. b \in Seq(Byte) /\ Len(b) = length - n /\ \A i \in 1 .. length - n : b[i] = bytes[i + n]
      BY <1>0, <3>1, <3>2
    <3> HIDE DEF a, b
    <3>5. ASSUME NEW i \in 1 .. length - n PROVE a[i] = b[i]
      <4>1. i + n \in 1 .. length
        BY <1>0, <3>1
      <4> QED
        BY <1>0, <3>3, <3>4, <4>1
    <3>6. a = b
      BY <3>3, <3>4, <3>5, SeqEqual
    <3>7. 0 + Len(a) <= capacity /\ <<>> \o a = a
      BY <3>2, <3>3
    <3>8. Holds(BU!Written(BU!Zeros(Len(start)), 0, a), <<>> \o a, capacity)
      BY <1>10, <3>3, <3>7, WrittenHolds
    <3> QED
      BY <1>1, <3>1, <3>3, <3>6, <3>7, <3>8
  <2> QED
    BY <2>1, <2>2
<1>13. CASE BU!Next
  BY <1>4, <1>5, <1>6, <1>8, <1>9, <1>11, <1>12, <1>13 DEF BU!Next
<1>14. CASE UNCHANGED bufferVars
  BY <1>14 DEF bufferVars, BufferKept
<1> QED
  BY <1>13, <1>14

LEMMA BufferHolds == BufferKept => BU!HoldsBytes
<1> SUFFICES ASSUME BufferKept PROVE BU!HoldsBytes
  OBVIOUS
<1> DEFINE a == SubSeq(start, 1, length)
<1>1. /\ length = Len(bytes) /\ length \in Nat /\ capacity \in Nat /\ length <= capacity
      /\ start \in Seq(Byte) /\ bytes \in Seq(Byte) /\ Len(start) \in Nat /\ capacity <= Len(start)
      /\ \A i \in 1 .. length : start[i] = bytes[i]
  BY DEF BufferKept, Holds
<1>2. a \in Seq(Byte) /\ Len(a) = length /\ \A i \in 1 .. length : a[i] = start[i]
  BY <1>1
<1> HIDE DEF a
<1>3. a = bytes
  BY <1>1, <1>2, SeqEqual
<1>4. \A i \in DOMAIN cached : cached[i].cap <= Len(cached[i].mem)
  BY DEF BufferKept, LargeEnough
<1> QED
  BY <1>1, <1>3, <1>4 DEF BU!HoldsBytes, a

-----------------------------------------------------------------------------
(* The four of them, of which one takes a step.                               *)
Together == ListKept(list) /\ NodesKept(head, next, prev) /\ VectorIs(vector) /\ BufferKept

LEMMA InitTogether == Init => Together
<1> SUFFICES ASSUME Init PROVE Together
  OBVIOUS
<1>1. ListKept(list)
  BY EmptyIs DEF Init, LL!Init
<1>2. NodesKept(head, next, prev)
  <2>1. Len(<<>>) = 0 /\ <<>> \in Seq(Node) /\ \A i \in 1 .. 0 : FALSE
    OBVIOUS
  <2>2. head = NIL /\ next = [n \in Node |-> NIL] /\ prev = [n \in Node |-> NIL]
    BY DEF Init, NL!Init
  <2>3. Elements(<<>>) = {} /\ ElementAt(<<>>, 1, NIL) = NIL
    BY <2>1 DEF Elements, ElementAt
  <2>4. Chained(<<>>, next, prev, NIL)
    BY <2>1 DEF Chained, NoTwice
  <2>5. OfNodes(head, next, prev, <<>>)
    BY <2>1, <2>2, <2>3, <2>4 DEF OfNodes
  <2> QED
    BY <2>5 DEF NodesKept
<1>3. VectorIs(vector)
  <2>1. PICK rate \in Rates, shrink \in BOOLEAN :
          vector = Vector([i \in VL!Index |-> NULL], 0, DefaultSize, DefaultSize, 0, rate, shrink, FALSE)
    BY DEF Init, VL!Init, Vector
  <2>2. Fits(0, DefaultSize, DefaultSize, 0, rate)
    BY VectorAssumption DEF Fits
  <2> QED
    BY <2>1, <2>2, VectorOf DEF VectorIs
<1>4. BufferKept
  <2>1. <<>> \in Seq(Byte) /\ <<>> \in Seq(Memories) /\ Len(<<>>) = 0
    OBVIOUS
  <2>2. start = <<>> /\ length = 0 /\ capacity = 0 /\ cached = <<>> /\ bytes = <<>>
    BY DEF Init, BU!Init
  <2> QED
    BY <2>1, <2>2 DEF BufferKept, Holds
<1> QED
  BY <1>1, <1>2, <1>3, <1>4 DEF Together

LEMMA NextTogether == Together /\ [Next]_vars => Together'
<1> SUFFICES ASSUME Together, [Next]_vars PROVE Together'
  OBVIOUS
<1>1. ([LL!Next]_listVars /\ [NL!Next]_nodeVars) /\ ([VL!Next]_vectorVars /\ [BU!Next]_bufferVars)
  BY DEF Next, vars, ListStep, VectorStep, NodeStep, DictStep, TableStep, BufferStep, CacheStep, ItemStep
<1>2. ListKept(list') /\ NodesKept(head', next', prev')
  BY <1>1, NextList, NextNodes DEF Together
<1>3. VectorIs(vector') /\ BufferKept'
  BY <1>1, NextVector, NextBuffer DEF Together
<1> QED
  BY <1>2, <1>3 DEF Together, ListKept, NodesKept, VectorIs, VectorKept

(* The memory of the containers hangs together: the two chained lists are the *)
(* same read from either end and leave no link behind, the vector list keeps  *)
(* to its slots but for the one index behind those it was created with, the   *)
(* buffer holds what was put into it (dtn_linked_list.c, dtn_node.c,          *)
(* dtn_vector_list.c, dtn_buffer.c).                                          *)
THEOREM StructureCorrect == Spec => []Structure
<1>1. Init => Together
  BY InitTogether
<1>2. Together /\ [Next]_vars => Together'
  BY NextTogether
<1>3. Together => Structure
  BY ListBothWays, NodesWellLinked, VectorInSlots, BufferHolds DEF Together, Structure
<1> QED
  BY <1>1, <1>2, <1>3, PTL DEF Spec

-----------------------------------------------------------------------------
(* The dictionary owns what its pairs mention, and no object is in two pairs. *)
DictPair == [key : Key, value : Value \cup {NULL}]
DictKept == OfPairs(DI!Slots, DictPair, NULL, chains, owned, freed)

(* The place of a key is one of its chain, or none.                           *)
LEMMA MatchIs ==
    ASSUME chains \in [DI!Slots -> Seq(DictPair)], NEW c \in KeyName
    PROVE  /\ SlotOf[c] \in DI!Slots
           /\ DI!MatchAt(c) # 0 => DI!MatchAt(c) \in 1 .. Len(chains[SlotOf[c]])
<1> DEFINE at == {i \in 1 .. Len(chains[SlotOf[c]]) : KeyOf[chains[SlotOf[c]][i].key] = c}
<1>0. SlotOf[c] \in DI!Slots
  BY DEF DI!Slots, KeyName
<1>1. DI!MatchAt(c) = IF at = {} THEN 0 ELSE CHOOSE i \in at : \A j \in at : i <= j
  BY DEF DI!MatchAt, DI!Chain
<1>2. Len(chains[SlotOf[c]]) \in Nat /\ at \in SUBSET Nat
  BY <1>0
<1>3. at # {} => \E i \in at : \A j \in at : i <= j
  BY <1>2, LeastElement, Zenon
<1>4. at # {} => DI!MatchAt(c) \in at
  BY <1>1, <1>3, Zenon
<1> QED
  BY <1>0, <1>1, <1>4, Zenon

(* Setting a pair, removing one and clearing keep the pairs apart.            *)
LEMMA NextDict == DictKept /\ [DI!Next]_dictVars => DictKept'
<1> SUFFICES ASSUME DictKept, [DI!Next]_dictVars PROVE DictKept'
  OBVIOUS
<1>0. chains \in [DI!Slots -> Seq(DictPair)]
  BY DEF DictKept, OfPairs
<1>1. ASSUME NEW k \in Key, NEW v \in Value \cup {NULL}, NEW wants \in BOOLEAN, DI!Set(k, v, wants) PROVE DictKept'
  <2> DEFINE c == KeyOf[k]
  <2> DEFINE i == DI!MatchAt(c)
  <2> DEFINE p == [key |-> k, value |-> v]
  <2>1. c \in KeyName /\ p \in DictPair /\ p.key = k /\ p.value = v /\ k \notin owned /\ v \notin owned
    BY <1>1 DEF KeyName, SlotOf, DictPair, DI!Set, DI!Mine
  <2>2. SlotOf[c] \in DI!Slots /\ (i # 0 => i \in 1 .. Len(chains[SlotOf[c]]))
    BY <1>0, <2>1, MatchIs
  <2>3. CASE i = 0
    <3>1. /\ chains' = [chains EXCEPT ![SlotOf[c]] = Append(@, p)]
          /\ owned' = owned \cup ({k, v} \ {NULL}) /\ freed' = freed \ {k, v}
      BY <1>1, <2>3 DEF DI!Set
    <3> HIDE DEF p, i, c
    <3>2. OfPairs(DI!Slots, DictPair, NULL, [chains EXCEPT ![SlotOf[c]] = Append(@, p)],
                  owned \cup ({k, v} \ {NULL}), freed \ {k, v})
      BY <2>1, <2>2, PairPut DEF DictKept
    <3> QED
      BY <3>1, <3>2 DEF DictKept
  <2>4. CASE i # 0
    <3> DEFINE old == chains[SlotOf[c]][i]
    <3> DEFINE drop == {old.key} \cup (IF wants THEN {} ELSE {old.value} \ {NULL})
    <3>1. /\ chains' = [chains EXCEPT ![SlotOf[c]][i] = p]
          /\ owned' = (owned \ {old.key, old.value}) \cup ({k, v} \ {NULL})
          /\ freed' = (freed \ {k, v}) \cup drop
      BY <1>1, <2>4 DEF DI!Set, DI!Chain
    <3>2. drop \subseteq {old.key, old.value}
      OBVIOUS
    <3> HIDE DEF p, i, c, drop
    <3>3. OfPairs(DI!Slots, DictPair, NULL, [chains EXCEPT ![SlotOf[c]][i] = p],
                  (owned \ {old.key, old.value}) \cup ({k, v} \ {NULL}), (freed \ {k, v}) \cup drop)
      BY <2>1, <2>2, <2>4, <3>2, PairPut DEF DictKept
    <3> QED
      BY <3>1, <3>3 DEF DictKept
  <2> QED
    BY <2>3, <2>4
<1>2. ASSUME NEW c \in KeyName, NEW also \in BOOLEAN, DI!RemoveKey(c, also) PROVE DictKept'
  <2> DEFINE i == DI!MatchAt(c)
  <2>2. SlotOf[c] \in DI!Slots /\ (i # 0 => i \in 1 .. Len(chains[SlotOf[c]]))
    BY <1>0, MatchIs
  <2>3. CASE i = 0
    BY <1>2, <2>3 DEF DI!RemoveKey, DictKept
  <2>4. CASE i # 0
    <3> DEFINE old == chains[SlotOf[c]][i]
    <3> DEFINE drop == {old.key} \cup (IF also THEN {old.value} \ {NULL} ELSE {})
    <3>1. /\ chains' = [chains EXCEPT ![SlotOf[c]] = Without(@, i)]
          /\ owned' = owned \ {old.key, old.value} /\ freed' = freed \cup drop
      BY <1>2, <2>4 DEF DI!RemoveKey, DI!Chain, DI!RemoveAt, Without
    <3>2. drop \subseteq {old.key, old.value}
      OBVIOUS
    <3> HIDE DEF i, drop
    <3>3. OfPairs(DI!Slots, DictPair, NULL, [chains EXCEPT ![SlotOf[c]] = Without(@, i)],
                  owned \ {old.key, old.value}, freed \cup drop)
      BY <2>2, <2>4, <3>2, PairOut DEF DictKept
    <3> QED
      BY <3>1, <3>3 DEF DictKept
  <2> QED
    BY <2>3, <2>4
<1>3. CASE DI!Clear
  <2>1. chains' = [s \in DI!Slots |-> <<>>] /\ owned' = {}
    BY <1>3 DEF DI!Clear
  <2>2. chains' \in [DI!Slots -> Seq(DictPair)] /\ \A s \in DI!Slots : Len(chains'[s]) = 0
    BY <2>1
  <2>3. \A s \in DI!Slots : \A i \in 1 .. Len(chains'[s]) : FALSE
    BY <2>2
  <2> QED
    BY <2>1, <2>2, <2>3 DEF DictKept, OfPairs, Apart, OnlyAt
<1>4. CASE UNCHANGED <<chains, freed, owned>>
  BY <1>4 DEF DictKept
<1> QED
  BY <1>1, <1>2, <1>3, <1>4 DEF DI!Next, DI!Get, DI!IsSet, DI!GetKeys, dictVars, KeyName, DI!KeyNames

(* So what a dictionary holds it owns, and has not freed.                     *)
LEMMA DictOwns == DictKept => DI!OwnsItsPairs
<1> SUFFICES ASSUME DictKept PROVE DI!OwnsItsPairs
  OBVIOUS
<1>1. \A s \in DI!Slots : \A p : p \in DI!Range(chains[s]) <=> \E i \in 1 .. Len(chains[s]) : p = chains[s][i]
  <2>1. \A s \in DI!Slots : DOMAIN chains[s] = 1 .. Len(chains[s])
    BY DEF DictKept, OfPairs
  <2> QED
    BY <2>1 DEF DI!Range
<1>2. \A p : p \in DI!Pairs <=> \E s \in DI!Slots : \E i \in 1 .. Len(chains[s]) : p = chains[s][i]
  <2>1. DI!Pairs = UNION {DI!Range(chains[s]) : s \in DI!Slots}
    BY DEF DI!Pairs
  <2>2. \A p : p \in DI!Pairs <=> \E s \in DI!Slots : p \in DI!Range(chains[s])
    BY <2>1
  <2> SUFFICES ASSUME NEW p PROVE p \in DI!Pairs <=> \E s \in DI!Slots : \E i \in 1 .. Len(chains[s]) : p = chains[s][i]
    OBVIOUS
  <2>3. \A s \in DI!Slots : p \in DI!Range(chains[s]) <=> \E i \in 1 .. Len(chains[s]) : p = chains[s][i]
    BY <1>1
  <2>4. (\E s \in DI!Slots : p \in DI!Range(chains[s])) <=> \E s \in DI!Slots : \E i \in 1 .. Len(chains[s]) : p = chains[s][i]
    <3> HIDE DEF DI!Slots
    <3> QED
      BY <2>3
  <2> QED
    BY <2>2, <2>4
<1>3. \A o : o \in owned <=> o # NULL /\ \E p \in DI!Pairs : Mentions(p, o)
  BY <1>2 DEF DictKept, OfPairs
<1>4. owned = ({p.key : p \in DI!Pairs} \cup {p.value : p \in DI!Pairs}) \ {NULL}
  BY <1>3 DEF Mentions
<1> QED
  BY <1>4 DEF DI!OwnsItsPairs, DictKept, OfPairs

-----------------------------------------------------------------------------
(* The hash table has as many copies of keys as entries.                      *)
Entry == [key : KeyName, value : Value \cup {NULL}]
TableKept ==
    /\ buckets \in [HT!Buckets -> Seq(Entry)]
    /\ IsFiniteSet(Filled(HT!Buckets, buckets)) /\ copies = Cardinality(Filled(HT!Buckets, buckets))

(* The place of a key is in its bucket, or the one behind the last.           *)
LEMMA PlaceInTable ==
    ASSUME TableKept, NEW k \in KeyName
    PROVE  /\ BucketOf[k] \in HT!Buckets /\ buckets[BucketOf[k]] \in Seq(Entry)
           /\ HT!HasNext(k) => HT!EntryBefore(k) + 1 \in 1 .. Len(buckets[BucketOf[k]])
<1> DEFINE at == {i \in 1 .. Len(HT!Entries(k)) : HT!Entries(k)[i].key = k}
<1>1. BucketOf[k] \in HT!Buckets
  BY DEF HT!Buckets
<1>2. buckets[BucketOf[k]] \in Seq(Entry) /\ HT!Entries(k) = buckets[BucketOf[k]]
  BY <1>1 DEF TableKept, HT!Entries
<1>3. HT!EntryBefore(k) = IF at = {} THEN Len(HT!Entries(k)) ELSE HT!Min(at) - 1
  BY DEF HT!EntryBefore
<1>4. Len(HT!Entries(k)) \in Nat /\ at \in SUBSET Nat /\ at \subseteq 1 .. Len(HT!Entries(k))
  BY <1>2
<1>5. at # {} => HT!Min(at) \in at
  BY <1>4, LeastElement DEF HT!Min
<1> HIDE DEF at
<1>6. ASSUME HT!HasNext(k) PROVE HT!EntryBefore(k) + 1 \in 1 .. Len(buckets[BucketOf[k]])
  <2>1. at # {}
    BY <1>3, <1>4, <1>6 DEF HT!HasNext
  <2>2. HT!Min(at) \in 1 .. Len(HT!Entries(k)) /\ HT!EntryBefore(k) = HT!Min(at) - 1
    BY <1>3, <1>4, <1>5, <2>1
  <2> QED
    BY <1>2, <1>4, <2>2
<1> QED
  BY <1>1, <1>2, <1>6

(* The copies to account for are as many as the places in the buckets.        *)
LEMMA HeldIs == HT!Held = Cardinality(Filled(HT!Buckets, buckets))
BY DEF HT!Held, HT!Cardinality, Cardinality, Filled

(* The buckets are sequences.                                                 *)
LEMMA SequencesIn == \A f \in [HT!Buckets -> Seq(Entry)] : InSequences(HT!Buckets, f)
BY DEF InSequences

(* As many copies as entries, whatever is set or removed.                     *)
LEMMA NextTable == TableKept /\ [HT!Next]_tableVars => TableKept'
<1> SUFFICES ASSUME TableKept, [HT!Next]_tableVars PROVE TableKept'
  OBVIOUS
<1> DEFINE B == HT!Buckets
<1>1. ASSUME NEW k \in KeyName, NEW v \in Value \cup {NULL}, HT!Set(k, v) PROVE TableKept'
  <2> DEFINE s == buckets[BucketOf[k]]
  <2> DEFINE j == HT!EntryBefore(k) + 1
  <2>0. /\ BucketOf[k] \in B /\ s \in Seq(Entry) /\ buckets \in [B -> Seq(Entry)]
        /\ (HT!HasNext(k) => j \in 1 .. Len(s))
        /\ IsFiniteSet(Filled(B, buckets))
    BY PlaceInTable DEF TableKept
  <2>1. CASE HT!HasNext(k)
    <3> DEFINE e == [s[j] EXCEPT !.value = v]
    <3>1. buckets' = [buckets EXCEPT ![BucketOf[k]] = [s EXCEPT ![j] = e]] /\ copies' = copies
      BY <1>1, <2>1 DEF HT!Set
    <3>2. e \in Entry
      <4>1. s[j] \in Entry
        BY <2>0, <2>1
      <4> QED
        BY <4>1 DEF Entry
    <3> HIDE DEF e, j
    <3>3. [s EXCEPT ![j] = e] \in Seq(Entry) /\ Len([s EXCEPT ![j] = e]) = Len(s)
      BY <2>0, <2>1, <3>2, ExceptSeq
    <3>4. buckets' \in [B -> Seq(Entry)] /\ Len(buckets'[BucketOf[k]]) = Len(s) /\ \A c \in B \ {BucketOf[k]} : buckets'[c] = buckets[c]
      BY <2>0, <3>1, <3>3
    <3>5. Filled(B, buckets') = Filled(B, buckets)
      BY <2>0, <3>4, FilledOne, SequencesIn
    <3> QED
      BY <3>1, <3>4, <3>5 DEF TableKept, B
  <2>2. CASE ~HT!HasNext(k)
    <3> DEFINE e == [key |-> k, value |-> v]
    <3>1. buckets' = [buckets EXCEPT ![BucketOf[k]] = Append(s, e)] /\ copies' = copies + 1
      BY <1>1, <2>2 DEF HT!Set
    <3>2. e \in Entry
      BY DEF Entry
    <3> HIDE DEF e, j
    <3>3. Append(s, e) \in Seq(Entry) /\ Len(Append(s, e)) = Len(s) + 1
      BY <2>0, <3>2
    <3>4. buckets' \in [B -> Seq(Entry)] /\ Len(buckets'[BucketOf[k]]) = Len(s) + 1 /\ \A c \in B \ {BucketOf[k]} : buckets'[c] = buckets[c]
      BY <2>0, <3>1, <3>3
    <3>5. IsFiniteSet(Filled(B, buckets')) /\ Cardinality(Filled(B, buckets')) = Cardinality(Filled(B, buckets)) + 1
      BY <2>0, <3>4, FilledOne, SequencesIn
    <3> QED
      BY <3>1, <3>4, <3>5 DEF TableKept, B
  <2> QED
    BY <2>1, <2>2
<1>2. ASSUME NEW k \in KeyName, HT!RemoveKey(k) PROVE TableKept'
  <2> DEFINE s == buckets[BucketOf[k]]
  <2> DEFINE j == HT!EntryBefore(k) + 1
  <2>0. /\ BucketOf[k] \in B /\ s \in Seq(Entry) /\ buckets \in [B -> Seq(Entry)]
        /\ (HT!HasNext(k) => j \in 1 .. Len(s))
        /\ IsFiniteSet(Filled(B, buckets))
    BY PlaceInTable DEF TableKept
  <2>1. CASE HT!HasNext(k)
    <3>1. buckets' = [buckets EXCEPT ![BucketOf[k]] = Without(s, j)] /\ copies' = copies - 1
      BY <1>2, <2>1 DEF HT!RemoveKey, HT!RemoveAt, Without
    <3> HIDE DEF j
    <3>3. Without(s, j) \in Seq(Entry) /\ Len(Without(s, j)) = Len(s) - 1 /\ Len(s) \in Nat
      BY <2>0, <2>1, LeftOver
    <3>4. buckets' \in [B -> Seq(Entry)] /\ Len(s) = Len(buckets'[BucketOf[k]]) + 1 /\ \A c \in B \ {BucketOf[k]} : buckets'[c] = buckets[c]
      BY <2>0, <3>1, <3>3
    <3>5. IsFiniteSet(Filled(B, buckets')) /\ Cardinality(Filled(B, buckets')) = Cardinality(Filled(B, buckets)) - 1
      BY <2>0, <3>4, FilledOne, SequencesIn
    <3> QED
      BY <3>1, <3>4, <3>5 DEF TableKept, B
  <2>2. CASE ~HT!HasNext(k)
    BY <1>2, <2>2 DEF HT!RemoveKey, TableKept
  <2> QED
    BY <2>1, <2>2
<1>3. CASE HT!Free
  <2>1. buckets' = [b \in B |-> <<>>] /\ copies' = copies - HT!Held
    BY <1>3 DEF HT!Free
  <2>2. copies' = 0
    BY <2>1, HeldIs, FS_CardinalityType DEF TableKept
  <2>3. buckets' \in [B -> Seq(Entry)] /\ \A b \in B : buckets'[b] = <<>>
    BY <2>1
  <2>4. Filled(B, buckets') = {}
    BY <2>3 DEF Filled
  <2> QED
    BY <2>2, <2>3, <2>4, FS_EmptySet DEF TableKept
<1>4. CASE UNCHANGED <<buckets, copies>>
  BY <1>4 DEF TableKept
<1> QED
  BY <1>1, <1>2, <1>3, <1>4 DEF HT!Next, HT!Get, HT!ContainsKey, tableVars

(* So no copy of a key is left behind, and none freed twice.                  *)
LEMMA TableCopies == TableKept => HT!CopiesFreed
BY HeldIs DEF TableKept, HT!CopiesFreed

-----------------------------------------------------------------------------
(* The registered cache: one thread at most is between setting the flag and   *)
(* clearing it, and every object is in one place.                             *)
CachePc == {"idle", "get", "put", "locked_get", "take", "locked_put", "count",
            "clear_get", "clear_put", "return_get", "return_put"}
HasFlag(t) == pc[t] \in {"locked_get", "take", "clear_get", "locked_put", "count", "clear_put"}
CacheTypes ==
    /\ next_free \in Nat /\ slots \in Nat /\ next_free <= slots /\ slots <= Capacity + Extension
    /\ elements \in [0 .. Capacity + Extension - 1 -> Object \cup {NONE}]
    /\ pc \in [Thread -> CachePc] /\ object \in [Thread -> Object \cup {NONE}]
    /\ held \in [Thread -> SUBSET Object] /\ heap \in SUBSET Object /\ in_use \in BOOLEAN
FlagIsHeld == \A t \in Thread : HasFlag(t) => in_use /\ \A u \in Thread : HasFlag(u) => u = t
SlotsHold ==
    /\ \A i \in 0 .. next_free - 1 : elements[i] \in Object
    /\ \A t \in Thread :
         /\ pc[t] \in {"idle", "get", "locked_get", "take"} => object[t] = NONE
         /\ pc[t] \in {"put", "locked_put", "count"} => object[t] \in Object
         /\ pc[t] = "take" => next_free < slots /\ elements[next_free] \in Object
         /\ pc[t] = "count" => next_free < slots /\ elements[next_free] = object[t]
Takers == {t \in Thread : pc[t] = "take"}
InPlaces(w) == Whereabouts(Object, Thread, elements, next_free, elements[next_free], Takers, object, held, heap, w)
CacheKept == CacheTypes /\ FlagIsHeld /\ SlotsHold /\ \E w : InPlaces(w)

(* A step of a thread that is not about to take an object, nor has just done  *)
(* so, leaves the takers alone.                                               *)
LEMMA SameTakers ==
    ASSUME CacheTypes, NEW t \in Thread, NEW q, pc' = [pc EXCEPT ![t] = q], pc[t] # "take", q # "take"
    PROVE  Takers' = Takers
BY DEF Takers, CacheTypes

(* While one thread has the flag and does not take, no thread takes.          *)
LEMMA NoTakers ==
    ASSUME FlagIsHeld, NEW t \in Thread, HasFlag(t), pc[t] # "take"
    PROVE  Takers = {}
BY DEF Takers, FlagIsHeld, HasFlag

(* Every step of a thread in get and put, and of extend and free, keeps each  *)
(* object in one place.                                                       *)
LEMMA NextCache == CacheKept /\ [RC!Next]_cacheVars => CacheKept'
<1> SUFFICES ASSUME CacheKept, [RC!Next]_cacheVars PROVE CacheKept'
  OBVIOUS
<1>0. PICK w : InPlaces(w)
  BY DEF CacheKept
<1> USE DEF CacheKept
<1> DEFINE K == CacheTypes' /\ FlagIsHeld' /\ SlotsHold'
<1>a. DOMAIN object = Thread /\ DOMAIN held = Thread /\ NONE \notin Object /\ next_free \in Nat
  BY OwnersAssumption DEF CacheTypes
<1>1. ASSUME RC!Extend PROVE CacheKept'
  <2>1. K
    BY <1>1, OwnersAssumption DEF RC!Extend, CacheTypes, FlagIsHeld, SlotsHold, HasFlag
  <2>2. InPlaces(w)'
    BY <1>0, <1>1 DEF RC!Extend, InPlaces, Takers
  <2> QED
    BY <2>1, <2>2
<1>2. ASSUME RC!FreeAll PROVE CacheKept'
  BY <1>2 DEF RC!FreeAll, CacheTypes, FlagIsHeld, SlotsHold, HasFlag, InPlaces, Takers
<1>3. ASSUME RC!FreeCache PROVE CacheKept'
  <2>1. CASE in_use
    BY <1>3, <2>1 DEF RC!FreeCache, CacheTypes, FlagIsHeld, SlotsHold, HasFlag, InPlaces, Takers
  <2>2. CASE ~in_use
    <3> DEFINE released == {elements[i] : i \in 0 .. next_free - 1}
    <3>0. /\ in_use' = TRUE /\ heap' = heap \cup released /\ next_free' = 0 /\ slots' = 0
          /\ UNCHANGED <<elements, pc, object, held>>
      BY <1>3, <2>2 DEF RC!FreeCache
    <3>1. \A t \in Thread : ~HasFlag(t)
      BY <2>2 DEF FlagIsHeld
    <3>2. Takers = {} /\ Takers' = {}
      BY <3>0, <3>1 DEF Takers, HasFlag
    <3>3. K
      BY <3>0, <3>1, OwnersAssumption DEF CacheTypes, FlagIsHeld, SlotsHold, HasFlag
    <3>4. \E v : Whereabouts(Object, Thread, elements, 0, elements[0], {}, object, held, heap \cup released, v)
      <4>1. \A x : x \in released <=> \E i \in 0 .. next_free - 1 : x = elements[i]
        OBVIOUS
      <4> HIDE DEF released
      <4> QED
        BY <1>0, <1>a, <3>2, <4>1, SlotsAreFreed DEF InPlaces
    <3>5. \E v : InPlaces(v)'
      BY <3>0, <3>2, <3>4 DEF InPlaces
    <3> QED
      BY <3>3, <3>5
  <2> QED
    BY <2>1, <2>2
<1>4. ASSUME NEW t \in Thread, RC!Call(t) PROVE CacheKept'
  <2>0. pc[t] = "idle" /\ UNCHANGED <<elements, next_free, slots, in_use, heap>>
    BY <1>4 DEF RC!Call
  <2>1. CASE pc' = [pc EXCEPT ![t] = "get"] /\ UNCHANGED <<object, held>>
    <3>1. K
      BY <2>0, <2>1 DEF CacheTypes, FlagIsHeld, SlotsHold, HasFlag, CachePc
    <3>2. Takers' = Takers
      BY <2>0, <2>1, SameTakers
    <3>3. InPlaces(w)'
      BY <1>0, <2>0, <2>1, <3>2 DEF InPlaces
    <3> QED
      BY <3>1, <3>3
  <2>2. ASSUME NEW o \in held[t], object' = [object EXCEPT ![t] = o], held' = [held EXCEPT ![t] = @ \ {o}],
               pc' = [pc EXCEPT ![t] = "put"]
        PROVE  CacheKept'
    <3>0. o \in Object /\ object[t] = NONE
      BY <2>0 DEF CacheTypes, SlotsHold
    <3>1. K
      BY <2>0, <2>2, <3>0 DEF CacheTypes, FlagIsHeld, SlotsHold, HasFlag, CachePc
    <3>2. Takers' = Takers
      BY <2>0, <2>2, SameTakers
    <3>3. \E v : Whereabouts(Object, Thread, elements, next_free, elements[next_free], Takers,
                            [object EXCEPT ![t] = o], [held EXCEPT ![t] = @ \ {o}], heap, v)
      BY <1>0, <1>a, <3>0, CallTakes DEF InPlaces
    <3>4. \E v : InPlaces(v)'
      BY <2>0, <2>2, <3>2, <3>3 DEF InPlaces
    <3> QED
      BY <3>1, <3>4
  <2> QED
    BY <1>4, <2>1, <2>2 DEF RC!Call
<1>5. ASSUME NEW t \in Thread, RC!TestAndSet(t) PROVE CacheKept'
  <2>0. /\ pc[t] \in {"get", "put"} /\ in_use' = TRUE /\ UNCHANGED <<elements, next_free, slots, object, held, heap>>
        /\ \E q \in {"return_get", "return_put", "locked_get", "locked_put"} :
             /\ pc' = [pc EXCEPT ![t] = q]
             /\ q \in {"locked_get", "locked_put"} => ~in_use
             /\ q = "locked_get" => pc[t] = "get"
             /\ q = "locked_put" => pc[t] = "put"
    BY <1>5 DEF RC!TestAndSet, CacheTypes
  <2>1. PICK q \in {"return_get", "return_put", "locked_get", "locked_put"} :
             /\ pc' = [pc EXCEPT ![t] = q]
             /\ q \in {"locked_get", "locked_put"} => ~in_use
             /\ q = "locked_get" => pc[t] = "get"
             /\ q = "locked_put" => pc[t] = "put"
    BY <2>0
  <2>2. CacheTypes' /\ FlagIsHeld'
    BY <2>0, <2>1 DEF CacheTypes, FlagIsHeld, HasFlag, CachePc
  <2>3. SlotsHold'
    BY <2>0, <2>1 DEF CacheTypes, SlotsHold
  <2>4. Takers' = Takers
    BY <2>0, <2>1, SameTakers
  <2>5. InPlaces(w)'
    BY <1>0, <2>0, <2>4 DEF InPlaces
  <2> QED
    BY <2>2, <2>3, <2>5
<1>6. ASSUME NEW t \in Thread, RC!LockedGet(t) PROVE CacheKept'
  <2>0. HasFlag(t) /\ pc[t] = "locked_get" /\ UNCHANGED <<elements, slots, in_use, object, held, heap>>
    BY <1>6 DEF RC!LockedGet, HasFlag
  <2>1. Takers = {}
    BY <2>0, NoTakers
  <2>2. CASE next_free = 0
    <3>0. pc' = [pc EXCEPT ![t] = "clear_get"] /\ UNCHANGED next_free
      BY <1>6, <2>2 DEF RC!LockedGet
    <3>1. K
      BY <2>0, <3>0 DEF CacheTypes, FlagIsHeld, SlotsHold, HasFlag, CachePc
    <3>2. Takers' = Takers
      BY <2>0, <3>0, SameTakers
    <3>3. InPlaces(w)'
      BY <1>0, <2>0, <3>0, <3>2 DEF InPlaces
    <3> QED
      BY <3>1, <3>3
  <2>3. CASE next_free # 0
    <3>0. pc' = [pc EXCEPT ![t] = "take"] /\ next_free' = next_free - 1 /\ elements[next_free - 1] \in Object
      BY <1>6, <2>3 DEF RC!LockedGet, SlotsHold, CacheTypes
    <3>1. K
      BY <2>0, <2>3, <3>0 DEF CacheTypes, FlagIsHeld, SlotsHold, HasFlag, CachePc
    <3>2. Takers' = {t}
      BY <2>1, <3>0 DEF Takers, CacheTypes
    <3>3. \E v : Whereabouts(Object, Thread, elements, next_free - 1, elements[next_free - 1], {t}, object, held, heap, v)
      BY <1>0, <1>a, <2>1, <2>3, <3>0, SlotIsTaken DEF InPlaces
    <3>4. \E v : InPlaces(v)'
      BY <2>0, <3>0, <3>2, <3>3 DEF InPlaces
    <3> QED
      BY <3>1, <3>4
  <2> QED
    BY <2>2, <2>3
<1>7. ASSUME NEW t \in Thread, RC!Take(t) PROVE CacheKept'
  <2> DEFINE o == elements[next_free]
  <2>0. /\ HasFlag(t) /\ pc[t] = "take" /\ UNCHANGED <<elements, next_free, slots, in_use, held, heap>>
        /\ object' = [object EXCEPT ![t] = o] /\ pc' = [pc EXCEPT ![t] = "clear_get"]
        /\ o \in Object /\ object[t] = NONE
    BY <1>7 DEF RC!Take, HasFlag, SlotsHold
  <2>1. Takers = {t} /\ Takers' = {}
    BY <2>0 DEF Takers, CacheTypes, FlagIsHeld, HasFlag
  <2>2. K
    BY <2>0 DEF CacheTypes, FlagIsHeld, SlotsHold, HasFlag, CachePc
  <2>3. \E v : Whereabouts(Object, Thread, elements, next_free, o, {}, [object EXCEPT ![t] = o], held, heap, v)
    BY <1>0, <1>a, <2>0, <2>1, TakenIsRead DEF InPlaces
  <2>4. \E v : InPlaces(v)'
    BY <2>0, <2>1, <2>3 DEF InPlaces
  <2> QED
    BY <2>2, <2>4
<1>8. ASSUME NEW t \in Thread, RC!LockedPut(t) PROVE CacheKept'
  <2>0. HasFlag(t) /\ pc[t] = "locked_put" /\ object[t] \in Object /\ UNCHANGED <<next_free, slots, in_use, object, held, heap>>
    BY <1>8 DEF RC!LockedPut, HasFlag, SlotsHold
  <2>1. Takers = {}
    BY <2>0, NoTakers
  <2>2. CASE next_free = slots
    <3>0. pc' = [pc EXCEPT ![t] = "clear_put"] /\ UNCHANGED elements
      BY <1>8, <2>2 DEF RC!LockedPut
    <3>1. K
      BY <2>0, <3>0 DEF CacheTypes, FlagIsHeld, SlotsHold, HasFlag, CachePc
    <3>2. Takers' = Takers
      BY <2>0, <3>0, SameTakers
    <3>3. InPlaces(w)'
      BY <1>0, <2>0, <3>0, <3>2 DEF InPlaces
    <3> QED
      BY <3>1, <3>3
  <2>3. CASE next_free # slots
    <3>0. pc' = [pc EXCEPT ![t] = "count"] /\ elements' = [elements EXCEPT ![next_free] = object[t]]
      BY <1>8, <2>3 DEF RC!LockedPut
    <3>a. next_free \in 0 .. Capacity + Extension - 1 /\ next_free < slots
      BY <2>3, OwnersAssumption DEF CacheTypes
    <3>b. /\ elements' \in [0 .. Capacity + Extension - 1 -> Object \cup {NONE}] /\ elements'[next_free] = object[t]
          /\ \A i \in 0 .. next_free - 1 : elements'[i] = elements[i]
      BY <2>0, <3>0, <3>a, OwnersAssumption DEF CacheTypes
    <3>1. CacheTypes' /\ FlagIsHeld'
      BY <2>0, <3>0, <3>b DEF CacheTypes, FlagIsHeld, HasFlag, CachePc
    <3>2. SlotsHold'
      BY <2>0, <2>1, <3>0, <3>a, <3>b DEF CacheTypes, FlagIsHeld, HasFlag, SlotsHold
    <3>3. Takers' = {}
      BY <2>0, <2>1, <3>0, SameTakers
    <3>4. Whereabouts(Object, Thread, elements', next_free, elements'[next_free], {}, object, held, heap, w)
      BY <1>0, <1>a, <2>1, <3>b, SameSlots DEF InPlaces
    <3>5. InPlaces(w)'
      BY <2>0, <3>3, <3>4 DEF InPlaces
    <3> QED
      BY <3>1, <3>2, <3>5
  <2> QED
    BY <2>2, <2>3
<1>9. ASSUME NEW t \in Thread, RC!CountUp(t) PROVE CacheKept'
  <2> DEFINE o == object[t]
  <2>0. /\ HasFlag(t) /\ pc[t] = "count" /\ UNCHANGED <<elements, slots, in_use, held, heap>>
        /\ object' = [object EXCEPT ![t] = NONE] /\ pc' = [pc EXCEPT ![t] = "clear_put"]
        /\ next_free' = next_free + 1 /\ next_free < slots /\ elements[next_free] = o /\ o \in Object
    BY <1>9 DEF RC!CountUp, HasFlag, SlotsHold
  <2>1. Takers = {} /\ Takers' = {}
    BY <2>0, NoTakers, SameTakers
  <2>2. CacheTypes' /\ FlagIsHeld'
    BY <2>0 DEF CacheTypes, FlagIsHeld, HasFlag, CachePc
  <2>3. SlotsHold'
    BY <2>0, <2>1 DEF CacheTypes, FlagIsHeld, HasFlag, SlotsHold
  <2>4. \E v : Whereabouts(Object, Thread, elements, next_free + 1, elements[next_free + 1], {},
                          [object EXCEPT ![t] = NONE], held, heap, v)
    BY <1>0, <1>a, <2>0, <2>1, SlotIsFilled DEF InPlaces
  <2>5. \E v : InPlaces(v)'
    BY <2>0, <2>1, <2>4 DEF InPlaces
  <2> QED
    BY <2>2, <2>3, <2>5
<1>10. ASSUME NEW t \in Thread, RC!ClearFlag(t) PROVE CacheKept'
  <2>0. /\ HasFlag(t) /\ pc[t] \in {"clear_get", "clear_put"} /\ UNCHANGED <<elements, next_free, slots, object, held, heap>>
        /\ in_use' = FALSE /\ \E q \in {"return_get", "return_put"} : pc' = [pc EXCEPT ![t] = q]
    BY <1>10 DEF RC!ClearFlag, HasFlag
  <2>1. PICK q \in {"return_get", "return_put"} : pc' = [pc EXCEPT ![t] = q]
    BY <2>0
  <2>2. K
    BY <2>0, <2>1 DEF CacheTypes, FlagIsHeld, SlotsHold, HasFlag, CachePc
  <2>3. Takers' = Takers
    BY <2>0, <2>1, SameTakers
  <2>4. InPlaces(w)'
    BY <1>0, <2>0, <2>3 DEF InPlaces
  <2> QED
    BY <2>2, <2>4
<1>11. ASSUME NEW t \in Thread, RC!Return(t) PROVE CacheKept'
  <2> DEFINE o == object[t]
  <2>0. /\ pc[t] \in {"return_get", "return_put"} /\ UNCHANGED <<elements, next_free, slots, in_use>>
        /\ pc' = [pc EXCEPT ![t] = "idle"] /\ object' = [object EXCEPT ![t] = NONE] /\ o \in Object \cup {NONE}
    BY <1>11 DEF RC!Return, CacheTypes
  <2>1. Takers' = Takers
    BY <2>0, SameTakers
  <2>2. FlagIsHeld' /\ SlotsHold'
    BY <2>0 DEF CacheTypes, FlagIsHeld, SlotsHold, HasFlag
  <2>3. CASE o # NONE /\ held' = [held EXCEPT ![t] = @ \cup {o}] /\ UNCHANGED heap
    <3>1. CacheTypes'
      BY <2>0, <2>3 DEF CacheTypes, CachePc
    <3>2. \E v : Whereabouts(Object, Thread, elements, next_free, elements[next_free], Takers,
                            [object EXCEPT ![t] = NONE], [held EXCEPT ![t] = @ \cup {o}], heap, v)
      BY <1>0, <1>a, <2>0, <2>3, CallGives DEF InPlaces
    <3>3. \E v : InPlaces(v)'
      BY <2>0, <2>1, <2>3, <3>2 DEF InPlaces
    <3> QED
      BY <2>2, <3>1, <3>3
  <2>4. ASSUME NEW p \in heap, o = NONE, held' = [held EXCEPT ![t] = @ \cup {p}], heap' = heap \ {p} PROVE CacheKept'
    <3>0. p \in Object /\ object' = object
      BY <2>0, <2>4 DEF CacheTypes
    <3>1. CacheTypes'
      BY <2>0, <2>4, <3>0 DEF CacheTypes, CachePc
    <3>2. \E v : Whereabouts(Object, Thread, elements, next_free, elements[next_free], Takers,
                            object, [held EXCEPT ![t] = @ \cup {p}], heap \ {p}, v)
      BY <1>0, <1>a, <3>0, ThreadAllocates DEF InPlaces
    <3>3. \E v : InPlaces(v)'
      BY <2>0, <2>1, <2>4, <3>0, <3>2 DEF InPlaces
    <3> QED
      BY <2>2, <3>1, <3>3
  <2>5. CASE o # NONE /\ heap' = heap \cup {o} /\ UNCHANGED held
    <3>1. CacheTypes'
      BY <2>0, <2>5 DEF CacheTypes, CachePc
    <3>2. \E v : Whereabouts(Object, Thread, elements, next_free, elements[next_free], Takers,
                            [object EXCEPT ![t] = NONE], held, heap \cup {o}, v)
      BY <1>0, <1>a, <2>0, <2>5, CallFrees DEF InPlaces
    <3>3. \E v : InPlaces(v)'
      BY <2>0, <2>1, <2>5, <3>2 DEF InPlaces
    <3> QED
      BY <2>2, <3>1, <3>3
  <2>6. CASE o = NONE /\ UNCHANGED <<heap, held>>
    <3>0. object' = object
      BY <2>0, <2>6 DEF CacheTypes
    <3>1. CacheTypes'
      BY <2>0, <2>6, <3>0 DEF CacheTypes, CachePc
    <3>2. InPlaces(w)'
      BY <1>0, <2>0, <2>1, <2>6, <3>0 DEF InPlaces
    <3> QED
      BY <2>2, <3>1, <3>2
  <2>7. CASE pc[t] = "return_get"
    BY <1>11, <2>3, <2>4, <2>7 DEF RC!Return
  <2>8. CASE pc[t] # "return_get"
    <3>1. heap' = heap \cup ({o} \ {NONE}) /\ UNCHANGED held
      BY <1>11, <2>8 DEF RC!Return
    <3> QED
      BY <2>5, <2>6, <3>1
  <2> QED
    BY <2>7, <2>8
<1>12. CASE UNCHANGED cacheVars
  BY <1>12 DEF cacheVars, CacheTypes, FlagIsHeld, SlotsHold, HasFlag, InPlaces, Takers
<1> QED
  BY <1>1, <1>2, <1>3, <1>4, <1>5, <1>6, <1>7, <1>8, <1>9, <1>10, <1>11, <1>12 DEF RC!Next, RC!Continue

(* So an object is counted once over all the places there are.                *)
LEMMA CacheOneOwner == CacheKept => RC!OneOwner
<1> SUFFICES ASSUME CacheKept, NEW o \in Object PROVE RC!Places(o) = 1
  BY DEF RC!OneOwner
<1>1. PICK w : InPlaces(w)
  BY DEF CacheKept
<1>2. next_free \in Nat
  BY DEF CacheKept, CacheTypes
<1>3. Cardinality({i \in 0 .. next_free - 1 : elements[i] = o})
         + Cardinality({t \in Thread : t \in Takers /\ elements[next_free] = o})
         + Cardinality({t \in Thread : object[t] = o}) + Cardinality({t \in Thread : o \in held[t]})
         + (IF o \in heap THEN 1 ELSE 0) = 1
  BY <1>1, <1>2, CountedOnce DEF InPlaces
<1>4. {t \in Thread : t \in Takers /\ elements[next_free] = o} = {t \in Thread : pc[t] = "take" /\ elements[next_free] = o}
  BY DEF Takers
<1> QED
  BY <1>3, <1>4 DEF RC!Places, RC!Cardinality, Cardinality

-----------------------------------------------------------------------------
(* The items of JSON: the containers and what is in them are a forest, and    *)
(* its roots are the items that users hold.                                   *)
Spot == 1 .. MaxItems \cup {"a"}
Live == {n \in Node : kind[n] # "free"}
Edge(c, s, n) ==
    /\ c \in Node /\ s \in Spot /\ n \in Node
    /\ \/ kind[c] = "array" /\ s \in 1 .. Len(entries[c]) /\ entries[c][s] = n
       \/ kind[c] = "object" /\ s = "a" /\ members[c]["a"] = n
Edges == {e \in Node \X Spot \X Node : Edge(e[1], e[2], e[3])}

ItemTypes ==
    /\ kind \in [Node -> {"free", "leaf", "array", "object"}]
    /\ parent \in [Node -> Node \cup {NULL}]
    /\ entries \in [Node -> Seq(Node \cup {NULL})]
    /\ members \in [Node -> [{"a"} -> Node \cup {NULL}]]
    /\ hand \in SUBSET Node /\ found \in Node \cup {NULL}
ItemShape ==
    \A n \in Node : /\ Len(entries[n]) <= MaxItems
                    /\ kind[n] \in {"leaf", "object"} => entries[n] = <<>>
                    /\ kind[n] \in {"leaf", "array"} => members[n]["a"] = NULL
ItemLinks ==
    /\ \A c, s, n : Edge(c, s, n) /\ n \notin stray => parent[n] = c
    /\ \A n \in hand : parent[n] = NULL
    /\ found \in Node => found \in Live \ hand
ItemKept == ItemTypes /\ ItemShape /\ ItemLinks /\ Forest(Live, hand, Edges)

(* The edges, read off the items.                                             *)
LEMMA EdgesAre ==
    /\ \A e : e \in Edges <=> e = <<e[1], e[2], e[3]>> /\ Edge(e[1], e[2], e[3])
    /\ \A c, s, n : <<c, s, n>> \in Edges <=> Edge(c, s, n)
BY DEF Edges, Edge

(* The same after a step.                                                     *)
LEMMA EdgesNext ==
    /\ \A e : e \in Edges' <=> e = <<e[1], e[2], e[3]>> /\ Edge(e[1], e[2], e[3])'
    /\ \A c, s, n : <<c, s, n>> \in Edges' <=> Edge(c, s, n)'
BY DEF Edges, Edge

(* What an item holds is at the end of its edges.                             *)
LEMMA HeldIsBelow ==
    ASSUME ItemTypes, ItemShape, NEW m \in Live, NEW x
    PROVE  x \in ITEM!Held(m) <=> \E s : Edge(m, s, x)
<1>1. m \in Node /\ kind[m] \in {"leaf", "array", "object"} /\ NULL \notin Node /\ MaxItems \in Nat
  BY OwnersAssumption DEF Live, ItemTypes
<1>2. entries[m] \in Seq(Node \cup {NULL}) /\ Len(entries[m]) <= MaxItems /\ members[m] \in [{"a"} -> Node \cup {NULL}]
  BY <1>1 DEF ItemTypes, ItemShape
<1>3. x \in ITEM!Held(m) <=> x # NULL /\ (x = members[m]["a"] \/ \E i \in 1 .. Len(entries[m]) : x = entries[m][i])
  <2>1. DOMAIN entries[m] = 1 .. Len(entries[m]) /\ DOMAIN members[m] = {"a"}
    BY <1>2
  <2> QED
    BY <2>1 DEF ITEM!Held, ITEM!Range
<1>4. ASSUME NEW i \in 1 .. Len(entries[m]), x = entries[m][i], x # NULL PROVE \E s : Edge(m, s, x)
  <2>1. kind[m] = "array"
    BY <1>1, <1>2, <1>4 DEF ItemShape
  <2>2. i \in Spot /\ x \in Node
    BY <1>1, <1>2, <1>4 DEF Spot
  <2> QED
    BY <1>1, <1>4, <2>1, <2>2 DEF Edge
<1>5. ASSUME x = members[m]["a"], x # NULL PROVE \E s : Edge(m, s, x)
  <2>1. kind[m] = "object"
    BY <1>1, <1>5 DEF ItemShape
  <2>2. "a" \in Spot /\ x \in Node
    BY <1>2, <1>5 DEF Spot
  <2> QED
    BY <1>1, <1>5, <2>1, <2>2 DEF Edge
<1>6. ASSUME NEW s, Edge(m, s, x) PROVE x # NULL /\ (x = members[m]["a"] \/ \E i \in 1 .. Len(entries[m]) : x = entries[m][i])
  BY <1>1, <1>6 DEF Edge
<1> QED
  BY <1>3, <1>4, <1>5, <1>6

(* What a free of an item reaches is the item and what is below it.           *)
LEMMA BelowIs ==
    ASSUME ItemKept, NEW n \in Live
    PROVE  Subtree(Live, Edges, n, ITEM!Below(n))
<1> DEFINE Within == [m \in Node |-> ITEM!Held(m)]
<1>1. Live \subseteq Node
  BY DEF Live
<1>2. \A m \in Live : \A x : x \in Within[m] <=> \E e \in Edges : e[1] = m /\ e[3] = x
  <2> SUFFICES ASSUME NEW m \in Live, NEW x PROVE x \in Within[m] <=> \E e \in Edges : e[1] = m /\ e[3] = x
    OBVIOUS
  <2>1. Within[m] = ITEM!Held(m)
    BY <1>1
  <2>2. x \in ITEM!Held(m) <=> \E s : Edge(m, s, x)
    BY HeldIsBelow DEF ItemKept
  <2>3. (\E s : Edge(m, s, x)) <=> \E e \in Edges : e[1] = m /\ e[3] = x
    <3>1. ASSUME NEW s, Edge(m, s, x) PROVE \E e \in Edges : e[1] = m /\ e[3] = x
      <4>1. <<m, s, x>> \in Edges /\ <<m, s, x>>[1] = m /\ <<m, s, x>>[3] = x
        BY <3>1, EdgesAre
      <4> QED
        BY <4>1
    <3> QED
      BY <3>1, EdgesAre
  <2> QED
    BY <2>1, <2>2, <2>3
<1>3. ITEM!Below(n) = Closure(Node, Within, n)
  <2>1. \A s \in SUBSET Node : (\A m \in s : Within[m] \subseteq s) <=> (\A m \in s : ITEM!Held(m) \subseteq s)
    OBVIOUS
  <2> HIDE DEF Within
  <2> QED
    BY <2>1 DEF ITEM!Below, Closure
<1> HIDE DEF Within
<1> QED
  BY <1>1, <1>2, <1>3, LeastClosed DEF ItemKept, HoldsEnds

(* So the items are a tree as the code takes them to be.                      *)
LEMMA ItemIsTree == ItemKept => ITEM!IsTree
<1> SUFFICES ASSUME ItemKept, NEW n \in Node
             PROVE  /\ Cardinality(ITEM!Places(n)) + (IF n \in hand THEN 1 ELSE 0) = (IF kind[n] = "free" THEN 0 ELSE 1)
                    /\ n \notin stray => \A p \in ITEM!Places(n) : parent[n] = p[1]
                    /\ n \in hand => parent[n] = NULL
                    /\ n = found => kind[n] # "free" /\ n \notin hand
  BY DEF ITEM!IsTree, ITEM!Cardinality, Cardinality
<1>1. \A p : p \in ITEM!Places(n) <=> \E e \in Edges : e[3] = n /\ p = <<e[1], e[2]>>
  <2> SUFFICES ASSUME NEW p PROVE p \in ITEM!Places(n) <=> \E e \in Edges : e[3] = n /\ p = <<e[1], e[2]>>
    OBVIOUS
  <2>0. MaxItems \in Nat /\ \A c \in Node : DOMAIN entries[c] = 1 .. Len(entries[c]) /\ Len(entries[c]) \in Nat /\ Len(entries[c]) <= MaxItems
    BY OwnersAssumption DEF ItemKept, ItemTypes, ItemShape
  <2>1. ASSUME p \in ITEM!Places(n) PROVE p = <<p[1], p[2]>> /\ Edge(p[1], p[2], n)
    BY <2>0, <2>1 DEF ITEM!Places, Edge, Spot
  <2>2. ASSUME NEW c, NEW s, Edge(c, s, n), p = <<c, s>> PROVE p \in ITEM!Places(n)
    <3>1. CASE kind[c] = "array" /\ s \in 1 .. Len(entries[c]) /\ entries[c][s] = n
      <4>1. s \in 1 .. MaxItems /\ c \in Node /\ s \in DOMAIN entries[c]
        BY <2>0, <2>2, <3>1 DEF Edge
      <4> QED
        BY <2>2, <3>1, <4>1 DEF ITEM!Places
    <3>2. CASE kind[c] = "object" /\ s = "a" /\ members[c]["a"] = n
      <4>1. c \in Node
        BY <2>2 DEF Edge
      <4> QED
        BY <2>2, <3>2, <4>1 DEF ITEM!Places
    <3> QED
      BY <2>2, <3>1, <3>2 DEF Edge
  <2>3. ASSUME p = <<p[1], p[2]>>, Edge(p[1], p[2], n) PROVE \E e \in Edges : e[3] = n /\ p = <<e[1], e[2]>>
    <3>1. <<p[1], p[2], n>> \in Edges
      BY <2>3, EdgesAre
    <3> QED
      BY <2>3, <3>1
  <2>4. ASSUME NEW e \in Edges, e[3] = n, p = <<e[1], e[2]>> PROVE p \in ITEM!Places(n)
    BY <2>2, <2>4, EdgesAre
  <2> QED
    BY <2>1, <2>3, <2>4
<1>2. Cardinality(ITEM!Places(n)) + (IF n \in hand THEN 1 ELSE 0) = (IF n \in Live THEN 1 ELSE 0)
  BY <1>1, OnlyPlace DEF ItemKept
<1>3. ASSUME n \notin stray, NEW p \in ITEM!Places(n) PROVE parent[n] = p[1]
  <2>1. PICK e \in Edges : e[3] = n /\ p = <<e[1], e[2]>>
    BY <1>1
  <2> QED
    BY <1>3, <2>1, EdgesAre DEF ItemKept, ItemLinks
<1> QED
  BY <1>2, <1>3 DEF ItemKept, ItemLinks, Live

(* Edges are between live items.                                              *)
LEMMA EdgeEnds ==
    ASSUME ItemKept
    PROVE  /\ \A c, s, n : Edge(c, s, n) => c \in Live /\ n \in Live /\ n \notin hand /\ n # NULL
           /\ \A c, s, d, t, n : Edge(c, s, n) /\ Edge(d, t, n) => c = d /\ s = t
<1>1. ASSUME NEW c, NEW s, NEW n, Edge(c, s, n) PROVE c \in Live /\ n \in Live /\ n \notin hand /\ n # NULL
  <2>1. <<c, s, n>> \in Edges /\ <<c, s, n>>[1] = c /\ <<c, s, n>>[3] = n
    BY <1>1, EdgesAre
  <2>2. n \in Node /\ NULL \notin Node
    BY <1>1, OwnersAssumption DEF Edge
  <2> QED
    BY <2>1, <2>2 DEF ItemKept, Forest
<1>2. ASSUME NEW c, NEW s, NEW d, NEW t, NEW n, Edge(c, s, n), Edge(d, t, n) PROVE c = d /\ s = t
  <2>1. <<c, s, n>> \in Edges /\ <<d, t, n>> \in Edges /\ <<c, s, n>>[3] = <<d, t, n>>[3]
    BY <1>2, EdgesAre
  <2>2. <<c, s, n>> = <<d, t, n>>
    BY <2>1 DEF ItemKept, Forest
  <2> QED
    BY <2>2
<1> QED
  BY <1>1, <1>2

(* Nothing is put anywhere, and what is gone is gone from all sets.           *)
LEMMA LinksLess ==
    ASSUME ItemKept, NEW G, Live' = Live \ G, Forest(Live', hand', Edges'), \A c, s, n : Edge(c, s, n)' => Edge(c, s, n),
           stray' = stray \ G, hand' \subseteq hand, parent' = parent, found' = NULL
    PROVE  ItemLinks'
<1>1. ASSUME NEW c, NEW s, NEW n, Edge(c, s, n)', n \notin stray' PROVE parent'[n] = c
  <2>1. <<c, s, n>> \in Edges' /\ <<c, s, n>>[3] = n
    BY <1>1, EdgesNext
  <2>2. n \in Live'
    BY <2>1 DEF Forest
  <2> QED
    BY <1>1, <2>2 DEF ItemKept, ItemLinks
<1> QED
  BY <1>1, OwnersAssumption DEF ItemKept, ItemLinks

(* An item is put into a container, in the place of another or of none.       *)
LEMMA ItemPut ==
    ASSUME ItemKept, NEW n \in hand, NEW c \in Live, c \notin ITEM!Below(n), NEW s, NEW old \in Node \cup {NULL},
           old # NULL => Edge(c, s, old),
           \A d, t, m : Edge(d, t, m)' <=> (Edge(d, t, m) /\ d \notin ITEM!Replaced(old) /\ ~(d = c /\ t = s /\ m = old)) \/ (d = c /\ t = s /\ m = n),
           Live' = Live \ ITEM!Replaced(old), stray' = stray \ ITEM!Replaced(old),
           hand' = hand \ {n}, parent' = [parent EXCEPT ![n] = c], found' = NULL
    PROVE  ItemLinks' /\ Forest(Live', hand', Edges')
<1> DEFINE U == ITEM!Replaced(old)
<1>0. n \in Live /\ n \in Node /\ Subtree(Live, Edges, n, ITEM!Below(n)) /\ NULL \notin Node
  <2>1. n \in Live
    BY DEF ItemKept, Forest
  <2> QED
    BY <2>1, BelowIs, OwnersAssumption DEF Live
<1>1. Forest(Live', hand', Edges')
  <2>1. CASE old = NULL
    <3>1. U = {}
      BY <2>1 DEF ITEM!Replaced
    <3>2. Edges' = Edges \cup {<<c, s, n>>}
      <4>1. \A d, t, m : <<d, t, m>> \in Edges' <=> <<d, t, m>> \in Edges \/ <<d, t, m>> = <<c, s, n>>
        <5>1. \A d, t, m : Edge(d, t, m)' <=> Edge(d, t, m) \/ (d = c /\ t = s /\ m = n)
          BY <2>1, <3>1, EdgeEnds
        <5> QED
          BY <5>1, EdgesAre, EdgesNext, Zenon
      <4>2. \A e \in Edges \cup {<<c, s, n>>} : e = <<e[1], e[2], e[3]>>
        BY EdgesAre
      <4> QED
        BY <4>1, <4>2, EdgesNext
    <3> QED
      BY <1>0, <3>1, <3>2, NodePut DEF ItemKept
  <2>2. CASE old # NULL
    <3> DEFINE e == <<c, s, old>>
    <3>1. e \in Edges /\ e[1] = c /\ e[2] = s /\ e[3] = old /\ old \in Live
      BY <2>2, EdgesAre, EdgeEnds
    <3>2. U = ITEM!Below(old) /\ Subtree(Live, Edges, old, U)
      BY <2>2, <3>1, BelowIs DEF ITEM!Replaced
    <3>3. \A f : f \in Edges' <=> (f \in Edges /\ f[1] \notin U /\ f # e) \/ f = <<c, s, n>>
      <4> HIDE DEF U
      <4>1. ASSUME NEW d, NEW t, NEW m
            PROVE  <<d, t, m>> \in Edges' <=> (<<d, t, m>> \in Edges /\ d \notin U /\ <<d, t, m>> # e) \/ <<d, t, m>> = <<c, s, n>>
        <5>1. Edge(d, t, m)' <=> (Edge(d, t, m) /\ d \notin U /\ ~(d = c /\ t = s /\ m = old)) \/ (d = c /\ t = s /\ m = n)
          BY DEF U
        <5>2. (<<d, t, m>> = e <=> d = c /\ t = s /\ m = old) /\ (<<d, t, m>> = <<c, s, n>> <=> d = c /\ t = s /\ m = n)
          OBVIOUS
        <5>3. (<<d, t, m>> \in Edges <=> Edge(d, t, m)) /\ (<<d, t, m>> \in Edges' <=> Edge(d, t, m)')
          BY EdgesAre, EdgesNext
        <5> HIDE DEF e
        <5> QED
          BY <5>1, <5>2, <5>3
      <4> HIDE DEF e
      <4> SUFFICES ASSUME NEW f PROVE f \in Edges' <=> (f \in Edges /\ f[1] \notin U /\ f # e) \/ f = <<c, s, n>>
        OBVIOUS
      <4>2. f \in Edges' \/ f \in Edges \/ f = <<c, s, n>> => f = <<f[1], f[2], f[3]>>
        BY EdgesAre, EdgesNext
      <4>3. <<f[1], f[2], f[3]>> \in Edges' <=> (<<f[1], f[2], f[3]>> \in Edges /\ f[1] \notin U /\ <<f[1], f[2], f[3]>> # e)
                                               \/ <<f[1], f[2], f[3]>> = <<c, s, n>>
        BY <4>1
      <4> QED
        BY <4>2, <4>3
    <3> HIDE DEF e, U
    <3>4. Forest(Live \ U, hand \ {n}, Edges')
      BY <1>0, <3>1, <3>2, <3>3, NodeReplaced DEF ItemKept
    <3> QED
      BY <3>4 DEF U
  <2> QED
    BY <2>1, <2>2
<1>2. ASSUME NEW d, NEW t, NEW m, Edge(d, t, m)', m \notin stray' PROVE parent'[m] = d
  <2>1. <<d, t, m>> \in Edges' /\ <<d, t, m>>[3] = m
    BY <1>2, EdgesNext
  <2>2. m \in Live'
    BY <1>1, <2>1 DEF Forest
  <2>3. CASE d = c /\ t = s /\ m = n
    BY <1>0, <2>3 DEF ItemKept, ItemTypes
  <2>4. CASE Edge(d, t, m)
    <3>1. m \notin hand /\ parent[m] = d
      BY <1>2, <2>2, <2>4, EdgeEnds DEF ItemKept, ItemLinks
    <3> QED
      BY <3>1 DEF ItemKept, ItemTypes
  <2> QED
    BY <1>2, <2>3, <2>4
<1>3. \A m \in hand' : parent'[m] = NULL
  BY <1>0 DEF ItemKept, ItemLinks, ItemTypes
<1> QED
  BY <1>0, <1>1, <1>2, <1>3 DEF ItemLinks

(* An item is taken out, and the others may move.                             *)
LEMMA ItemTaken ==
    ASSUME ItemKept, NEW c, NEW s, NEW n \in Node \cup {NULL}, n # NULL => Edge(c, s, n),
           \A d, t, m : Edge(d, t, m)' => m # n /\ \E u : Edge(d, u, m),
           \A d, t, m : Edge(d, t, m) /\ m # n => \E u : Edge(d, u, m)',
           \A d, t, u, m : Edge(d, t, m)' /\ Edge(d, u, m)' => t = u,
           Live' = Live, hand' = (hand \cup {n}) \ {NULL}, parent' = ITEM!Taken(n), stray' = stray \ {n}, found' = NULL
    PROVE  ItemLinks' /\ Forest(Live', hand', Edges')
<1> DEFINE S == {e \in Edges : e[3] # n}
<1>0. NULL \notin Node /\ NULL \notin hand
  BY OwnersAssumption DEF ItemKept, ItemTypes
<1>1. Forest(Live, hand', S)
  <2>1. CASE n = NULL
    <3>1. S = Edges /\ hand' = hand
      BY <1>0, <2>1, EdgesAre, EdgeEnds
    <3> QED
      BY <3>1 DEF ItemKept
  <2>2. CASE n # NULL
    <3> DEFINE e == <<c, s, n>>
    <3>1. e \in Edges /\ e[3] = n
      BY <2>2, EdgesAre
    <3>2. S = Edges \ {e}
      BY <3>1 DEF ItemKept, Forest
    <3>3. hand' = hand \cup {n}
      BY <1>0, <2>2
    <3> HIDE DEF e, S
    <3> QED
      BY <3>1, <3>2, <3>3, NodeTaken DEF ItemKept
  <2> QED
    BY <2>1, <2>2
<1>2. \A f \in Edges' : f = <<f[1], f[2], f[3]>> /\ \E e \in S : e[1] = f[1] /\ e[3] = f[3]
  <2> SUFFICES ASSUME NEW f \in Edges' PROVE \E e \in S : e[1] = f[1] /\ e[3] = f[3]
    BY EdgesNext
  <2>1. PICK u : Edge(f[1], u, f[3]) /\ f[3] # n
    BY EdgesNext
  <2>2. <<f[1], u, f[3]>> \in S
    BY <2>1, EdgesAre
  <2> QED
    BY <2>2
<1>3. \A e \in S : \E f \in Edges' : e[1] = f[1] /\ e[3] = f[3]
  <2> SUFFICES ASSUME NEW e \in S PROVE \E f \in Edges' : e[1] = f[1] /\ e[3] = f[3]
    OBVIOUS
  <2>1. PICK u : Edge(e[1], u, e[3])'
    BY EdgesAre
  <2>2. <<e[1], u, e[3]>> \in Edges'
    BY <2>1, EdgesNext
  <2> QED
    BY <2>2
<1>4. ASSUME NEW f \in Edges', NEW g \in Edges', f[3] = g[3] PROVE f = g
  <2>1. PICK u : Edge(f[1], u, f[3])
    BY EdgesNext
  <2>2. PICK v : Edge(g[1], v, g[3])
    BY EdgesNext
  <2>3. f[1] = g[1]
    BY <1>4, <2>1, <2>2, EdgeEnds
  <2>4. f[2] = g[2]
    BY <1>4, <2>3, EdgesNext
  <2> QED
    BY <1>4, <2>3, <2>4, EdgesNext
<1> HIDE DEF S
<1>5. Forest(Live', hand', Edges')
  BY <1>1, <1>2, <1>3, <1>4, PlacesRenamed
<1>6. ASSUME NEW d, NEW t, NEW m, Edge(d, t, m)', m \notin stray' PROVE parent'[m] = d
  <2>1. PICK u : Edge(d, u, m) /\ m # n
    BY <1>6
  <2>2. m \in Node /\ parent[m] = d
    BY <1>6, <2>1 DEF ItemKept, ItemLinks, Edge
  <2> QED
    BY <2>1, <2>2 DEF ITEM!Taken, ItemKept, ItemTypes
<1>7. \A m \in hand' : parent'[m] = NULL
  BY <1>0 DEF ItemKept, ItemLinks, ItemTypes, ITEM!Taken
<1> QED
  BY <1>0, <1>5, <1>6, <1>7 DEF ItemLinks

(* Every kind of step leaves the forest a forest.                             *)
LEMMA ItemCreated ==
    ASSUME ItemKept, NEW n \in Node, NEW k \in {"leaf", "array", "object"}, ITEM!Create(n, k)
    PROVE  ItemKept'
<1>0. /\ n \in Node \ Live /\ kind' = [kind EXCEPT ![n] = k] /\ parent' = [parent EXCEPT ![n] = NULL]
      /\ entries' = [entries EXCEPT ![n] = <<>>] /\ members' = [members EXCEPT ![n] = [x \in {"a"} |-> NULL]]
      /\ hand' = hand \cup {n} /\ found' = NULL /\ stray' = stray
  BY DEF ITEM!Create, ITEM!NoMembers, Live
<1>1. ItemTypes'
  BY <1>0 DEF ItemKept, ItemTypes
<1>2. ItemShape'
  BY <1>0, OwnersAssumption DEF ItemKept, ItemTypes, ItemShape
<1>3. \A c, s, m : Edge(c, s, m)' <=> Edge(c, s, m)
  BY <1>0, OwnersAssumption DEF ItemKept, ItemTypes, Edge, Live
<1>4. Edges' = Edges
  BY <1>3, EdgesAre, EdgesNext
<1>5. Live' = Live \cup {n}
  BY <1>0 DEF Live, ItemKept, ItemTypes
<1>6. Forest(Live', hand', Edges')
  BY <1>0, <1>4, <1>5, NodeCreated DEF ItemKept
<1>7. ItemLinks'
  <2>1. ASSUME NEW c, NEW s, NEW m, Edge(c, s, m), m \notin stray PROVE parent'[m] = c
    BY <1>0, <2>1, EdgeEnds DEF ItemKept, ItemLinks, ItemTypes
  <2>2. \A m \in hand' : parent'[m] = NULL
    BY <1>0 DEF ItemKept, ItemLinks, ItemTypes
  <2> QED
    BY <1>0, <1>3, <2>1, <2>2, OwnersAssumption DEF ItemLinks
<1> QED
  BY <1>1, <1>2, <1>6, <1>7 DEF ItemKept

(* A member set, in the place of an old one or not.                           *)
LEMMA ObjectSetKeeps ==
    ASSUME ItemKept, NEW o \in Node, NEW n \in Node, ITEM!ObjectSet(o, "a", n)
    PROVE  ItemKept'
<1> DEFINE old == members[o]["a"]
<1> DEFINE U == ITEM!Replaced(old)
<1>0. /\ kind[o] = "object" /\ n \in hand /\ o \notin ITEM!Below(n)
      /\ kind' = [x \in Node |-> IF x \in U THEN "free" ELSE kind[x]] /\ stray' = stray \ U
      /\ members' = [members EXCEPT ![o]["a"] = n] /\ parent' = [parent EXCEPT ![n] = o]
      /\ hand' = hand \ {n} /\ found' = NULL /\ entries' = entries
  BY DEF ITEM!ObjectSet, ITEM!MayPut, ITEM!Gone
<1>1. o \in Live /\ old \in Node \cup {NULL} /\ (old # NULL => Edge(o, "a", old)) /\ NULL \notin Node
  BY <1>0, OwnersAssumption DEF ItemKept, ItemTypes, Live, Edge, Spot
<1>2. o \notin U
  <2>1. CASE old = NULL
    BY <2>1 DEF ITEM!Replaced
  <2>2. CASE old # NULL
    <3>1. <<o, "a", old>> \in Edges /\ <<o, "a", old>>[1] = o /\ <<o, "a", old>>[3] = old
      BY <1>1, <2>2, EdgesAre
    <3>2. Subtree(Live, Edges, old, ITEM!Below(old))
      BY <1>1, <2>2, EdgeEnds, BelowIs
    <3> QED
      BY <2>2, <3>1, <3>2, HolderAbove DEF ItemKept, ITEM!Replaced
  <2> QED
    BY <2>1, <2>2
<1> HIDE DEF U
<1>3. ItemTypes'
  BY <1>0 DEF ItemKept, ItemTypes
<1>4. ItemShape'
  BY <1>0, <1>2 DEF ItemKept, ItemTypes, ItemShape
<1>5. \A d, t, m : Edge(d, t, m)' <=> (Edge(d, t, m) /\ d \notin U /\ ~(d = o /\ t = "a" /\ m = old)) \/ (d = o /\ t = "a" /\ m = n)
  <2> SUFFICES ASSUME NEW d, NEW t, NEW m
               PROVE  Edge(d, t, m)' <=> (Edge(d, t, m) /\ d \notin U /\ ~(d = o /\ t = "a" /\ m = old)) \/ (d = o /\ t = "a" /\ m = n)
    OBVIOUS
  <2>1. CASE d = o
    BY <1>0, <1>2, <2>1 DEF ItemKept, ItemTypes, Edge, Spot
  <2>2. CASE d # o
    BY <1>0, <2>2 DEF ItemKept, ItemTypes, Edge
  <2> QED
    BY <2>1, <2>2
<1>6. Live' = Live \ U
  BY <1>0 DEF Live, ItemKept, ItemTypes
<1>7. ItemLinks' /\ Forest(Live', hand', Edges')
  BY <1>0, <1>1, <1>5, <1>6, ItemPut DEF U
<1> QED
  BY <1>3, <1>4, <1>7 DEF ItemKept

(* An item pushed.                                                            *)
LEMMA ArrayPushKeeps ==
    ASSUME ItemKept, NEW a \in Node, NEW n \in Node, ITEM!ArrayPush(a, n)
    PROVE  ItemKept'
<1> DEFINE k == Len(entries[a]) + 1
<1>0. /\ kind[a] = "array" /\ n \in hand /\ a \notin ITEM!Below(n) /\ Len(entries[a]) < MaxItems
      /\ entries' = [entries EXCEPT ![a] = Append(@, n)] /\ parent' = [parent EXCEPT ![n] = a]
      /\ hand' = hand \ {n} /\ found' = NULL /\ UNCHANGED <<kind, members, stray>>
  BY DEF ITEM!ArrayPush, ITEM!MayPut
<1>1. a \in Live /\ NULL \notin Node /\ MaxItems \in Nat /\ entries[a] \in Seq(Node \cup {NULL}) /\ ITEM!Replaced(NULL) = {}
  BY <1>0, OwnersAssumption DEF ItemKept, ItemTypes, Live, ITEM!Replaced
<1>2. /\ entries'[a] \in Seq(Node \cup {NULL}) /\ Len(entries'[a]) = k /\ k \in Spot /\ entries'[a][k] = n
      /\ \A i \in 1 .. Len(entries[a]) : entries'[a][i] = entries[a][i]
      /\ \A i : i \in 1 .. k <=> i \in 1 .. Len(entries[a]) \/ i = k
      /\ k \notin 1 .. Len(entries[a])
  BY <1>0, <1>1 DEF ItemKept, ItemTypes, Spot
<1> HIDE DEF k
<1>3. ItemTypes'
  BY <1>0, <1>2 DEF ItemKept, ItemTypes
<1>4. ItemShape'
  BY <1>0, <1>1, <1>2 DEF ItemKept, ItemTypes, ItemShape, k
<1>5. \A d, t, m : Edge(d, t, m)' <=> Edge(d, t, m) \/ (d = a /\ t = k /\ m = n)
  <2> SUFFICES ASSUME NEW d, NEW t, NEW m PROVE Edge(d, t, m)' <=> Edge(d, t, m) \/ (d = a /\ t = k /\ m = n)
    OBVIOUS
  <2>1. CASE d = a
    BY <1>0, <1>2, <2>1 DEF Edge
  <2>2. CASE d # a
    BY <1>0, <2>2 DEF ItemKept, ItemTypes, Edge
  <2> QED
    BY <2>1, <2>2
<1>6. \A d, t, m : Edge(d, t, m)' <=> (Edge(d, t, m) /\ d \notin ITEM!Replaced(NULL) /\ ~(d = a /\ t = k /\ m = NULL)) \/ (d = a /\ t = k /\ m = n)
  BY <1>1, <1>5, EdgeEnds
<1>7. Live' = Live \ ITEM!Replaced(NULL) /\ stray' = stray \ ITEM!Replaced(NULL)
  BY <1>0, <1>1 DEF Live
<1>8. ItemLinks' /\ Forest(Live', hand', Edges')
  BY <1>0, <1>1, <1>6, <1>7, ItemPut
<1> QED
  BY <1>3, <1>4, <1>8 DEF ItemKept

(* An entry set, in the place of an old one.                                  *)
LEMMA ArraySetKeeps ==
    ASSUME ItemKept, NEW a \in Node, NEW pos \in 1 .. MaxItems, NEW n \in Node, ITEM!ArraySet(a, pos, n)
    PROVE  ItemKept'
<1> DEFINE old == IF pos \in DOMAIN entries[a] THEN entries[a][pos] ELSE NULL
<1> DEFINE size == IF pos > Len(entries[a]) THEN pos ELSE Len(entries[a])
<1> DEFINE grown == [i \in 1 .. size |-> IF i = pos THEN n ELSE IF i \in DOMAIN entries[a] THEN entries[a][i] ELSE NULL]
<1> DEFINE U == ITEM!Replaced(old)
<1>0. /\ kind[a] = "array" /\ n \in hand /\ a \notin ITEM!Below(n)
      /\ kind' = [x \in Node |-> IF x \in U THEN "free" ELSE kind[x]] /\ stray' = stray \ U
      /\ entries' = [entries EXCEPT ![a] = grown] /\ parent' = [parent EXCEPT ![n] = a]
      /\ hand' = hand \ {n} /\ found' = NULL /\ members' = members
  BY DEF ITEM!ArraySet, ITEM!MayPut, ITEM!Gone
<1>1. /\ a \in Live /\ NULL \notin Node /\ MaxItems \in Nat /\ entries[a] \in Seq(Node \cup {NULL}) /\ Len(entries[a]) <= MaxItems
      /\ DOMAIN entries[a] = 1 .. Len(entries[a]) /\ Len(entries[a]) \in Nat /\ pos \in Nat /\ pos \in Spot
      /\ \A i \in 1 .. Len(entries[a]) : entries[a][i] \in Node \cup {NULL}
  BY <1>0, OwnersAssumption DEF ItemKept, ItemTypes, ItemShape, Live, Spot
<1>2. old \in Node \cup {NULL} /\ (old # NULL => Edge(a, pos, old))
  BY <1>0, <1>1 DEF Edge
<1>3. a \notin U
  <2>1. CASE old = NULL
    BY <2>1 DEF ITEM!Replaced
  <2>2. CASE old # NULL
    <3>1. <<a, pos, old>> \in Edges /\ <<a, pos, old>>[1] = a /\ <<a, pos, old>>[3] = old
      BY <1>2, <2>2, EdgesAre
    <3>2. Subtree(Live, Edges, old, ITEM!Below(old))
      BY <1>2, <2>2, EdgeEnds, BelowIs
    <3> HIDE DEF old
    <3> QED
      BY <2>2, <3>1, <3>2, HolderAbove DEF ItemKept, ITEM!Replaced
  <2> QED
    BY <2>1, <2>2
<1>4. size \in Nat /\ size <= MaxItems /\ pos \in 1 .. size /\ 1 .. Len(entries[a]) \subseteq 1 .. size
  BY <1>1
<1>5. /\ grown \in Seq(Node \cup {NULL}) /\ Len(grown) = size /\ grown[pos] = n
      /\ \A i \in 1 .. size : i # pos => grown[i] = (IF i \in 1 .. Len(entries[a]) THEN entries[a][i] ELSE NULL)
  BY <1>1, <1>4
<1> HIDE DEF U, size, grown
<1>6. ItemTypes'
  BY <1>0, <1>5 DEF ItemKept, ItemTypes
<1>7. ItemShape'
  BY <1>0, <1>3, <1>4, <1>5 DEF ItemKept, ItemTypes, ItemShape
<1>8. \A d, t, m : Edge(d, t, m)' <=> (Edge(d, t, m) /\ d \notin U /\ ~(d = a /\ t = pos /\ m = old)) \/ (d = a /\ t = pos /\ m = n)
  <2> SUFFICES ASSUME NEW d, NEW t, NEW m
               PROVE  Edge(d, t, m)' <=> (Edge(d, t, m) /\ d \notin U /\ ~(d = a /\ t = pos /\ m = old)) \/ (d = a /\ t = pos /\ m = n)
    OBVIOUS
  <2>1. CASE d = a
    <3>1. Edge(a, t, m)' <=> t \in Spot /\ m \in Node /\ t \in 1 .. size /\ grown[t] = m
      BY <1>0, <1>3, <1>5 DEF ItemKept, ItemTypes, Edge
    <3>2. Edge(a, t, m) <=> t \in Spot /\ m \in Node /\ t \in 1 .. Len(entries[a]) /\ entries[a][t] = m
      BY <1>0, <1>1 DEF Edge
    <3> QED
      BY <1>1, <1>3, <1>4, <1>5, <2>1, <3>1, <3>2
  <2>2. CASE d # a
    BY <1>0, <2>2 DEF ItemKept, ItemTypes, Edge
  <2> QED
    BY <2>1, <2>2
<1>9. Live' = Live \ U
  BY <1>0 DEF Live, ItemKept, ItemTypes
<1> HIDE DEF old
<1>10. ItemLinks' /\ Forest(Live', hand', Edges')
  BY <1>0, <1>1, <1>2, <1>8, <1>9, ItemPut DEF U
<1> QED
  BY <1>6, <1>7, <1>10 DEF ItemKept

(* A member taken out.                                                        *)
LEMMA ObjectRemoveKeeps ==
    ASSUME ItemKept, NEW o \in Node, ITEM!ObjectRemove(o, "a")
    PROVE  ItemKept'
<1> DEFINE n == members[o]["a"]
<1>0. /\ kind[o] = "object" /\ n # NULL
      /\ members' = [members EXCEPT ![o]["a"] = NULL] /\ parent' = [parent EXCEPT ![n] = NULL]
      /\ hand' = hand \cup {n} /\ stray' = stray \ {n} /\ found' = NULL /\ UNCHANGED <<kind, entries>>
  BY DEF ITEM!ObjectRemove
<1>1. n \in Node /\ NULL \notin Node /\ NULL \notin hand /\ Edge(o, "a", n)
  BY <1>0, OwnersAssumption DEF ItemKept, ItemTypes, Edge, Spot
<1>2. ItemTypes'
  BY <1>0, <1>1 DEF ItemKept, ItemTypes
<1>3. ItemShape'
  BY <1>0 DEF ItemKept, ItemTypes, ItemShape
<1>4. \A d, t, m : Edge(d, t, m)' <=> Edge(d, t, m) /\ ~(d = o /\ t = "a" /\ m = n)
  <2> SUFFICES ASSUME NEW d, NEW t, NEW m PROVE Edge(d, t, m)' <=> Edge(d, t, m) /\ ~(d = o /\ t = "a" /\ m = n)
    OBVIOUS
  <2>1. CASE d = o
    BY <1>0, <1>1, <2>1 DEF ItemKept, ItemTypes, Edge
  <2>2. CASE d # o
    BY <1>0, <2>2 DEF ItemKept, ItemTypes, Edge
  <2> QED
    BY <2>1, <2>2
<1> HIDE DEF n
<1>5. /\ \A d, t, m : Edge(d, t, m)' => m # n /\ \E u : Edge(d, u, m)
      /\ \A d, t, m : Edge(d, t, m) /\ m # n => \E u : Edge(d, u, m)'
      /\ \A d, t, u, m : Edge(d, t, m)' /\ Edge(d, u, m)' => t = u
  BY <1>1, <1>4, EdgeEnds
<1>6. Live' = Live /\ hand' = (hand \cup {n}) \ {NULL} /\ parent' = ITEM!Taken(n)
  BY <1>0, <1>1 DEF Live, ITEM!Taken
<1>7. ItemLinks' /\ Forest(Live', hand', Edges')
  BY <1>0, <1>1, <1>5, <1>6, ItemTaken
<1> QED
  BY <1>2, <1>3, <1>7 DEF ItemKept

(* The items behind the one taken out move up by the same number of places.   *)
LEMMA TakeOutKeeps ==
    ASSUME ItemKept, NEW a \in Node, NEW at \in 1 .. Len(entries[a]), NEW rest, NEW by \in {0, 1},
           ITEM!TakeOut(a, entries[a][at], rest),
           rest \in Seq(Node \cup {NULL}), Len(rest) = Len(entries[a]) - 1,
           \A i \in 1 .. Len(rest) : i + by \in 1 .. Len(entries[a]) /\ i + by # at /\ rest[i] = entries[a][i + by],
           \A j \in 1 .. Len(entries[a]) : j # at => \E i \in 1 .. Len(rest) : j = i + by
    PROVE  ItemKept'
<1> DEFINE n == entries[a][at]
<1>0. /\ kind[a] = "array" /\ entries' = [entries EXCEPT ![a] = rest] /\ parent' = ITEM!Taken(n)
      /\ hand' = (hand \cup {n}) \ {NULL} /\ stray' = stray \ {n} /\ found' = NULL /\ UNCHANGED <<kind, members>>
  BY DEF ITEM!TakeOut
<1>1. /\ n \in Node \cup {NULL} /\ NULL \notin Node /\ NULL \notin hand /\ Len(entries[a]) \in Nat /\ Len(entries[a]) <= MaxItems /\ MaxItems \in Nat
      /\ \A i \in 1 .. Len(entries[a]) : i \in Spot
  BY OwnersAssumption DEF ItemKept, ItemTypes, ItemShape, Spot
<1>2. \A t, m : Edge(a, t, m) <=> t \in 1 .. Len(entries[a]) /\ m \in Node /\ entries[a][t] = m
  BY <1>0, <1>1 DEF Edge
<1>3. \A t, m : Edge(a, t, m)' <=> t \in 1 .. Len(rest) /\ m \in Node /\ rest[t] = m
  <2>1. \A t \in 1 .. Len(rest) : t \in Spot
    BY <1>1 DEF Spot
  <2>2. entries'[a] = rest
    BY <1>0 DEF ItemKept, ItemTypes
  <2> QED
    BY <1>0, <2>1, <2>2 DEF Edge
<1>4. \A d, t, m : d # a => (Edge(d, t, m)' <=> Edge(d, t, m))
  BY <1>0 DEF ItemKept, ItemTypes, Edge
<1>5. n # NULL => Edge(a, at, n)
  BY <1>1, <1>2
<1>6. ItemTypes'
  BY <1>0, <1>1 DEF ItemKept, ItemTypes, ITEM!Taken
<1>7. ItemShape'
  BY <1>0, <1>1 DEF ItemKept, ItemTypes, ItemShape
<1> HIDE DEF n
<1>8. ASSUME NEW d, NEW t, NEW m, Edge(d, t, m)' PROVE m # n /\ \E u : Edge(d, u, m)
  <2>1. CASE d = a
    <3>1. t + by \in 1 .. Len(entries[a]) /\ t + by # at /\ entries[a][t + by] = m /\ m \in Node
      BY <1>3, <1>8, <2>1
    <3>2. Edge(a, t + by, m)
      BY <1>2, <3>1
    <3>3. m # n
      BY <1>1, <1>5, <3>1, <3>2, EdgeEnds
    <3> QED
      BY <2>1, <3>2, <3>3
  <2>2. CASE d # a
    <3>1. Edge(d, t, m)
      BY <1>4, <1>8, <2>2
    <3> QED
      BY <1>1, <1>5, <2>2, <3>1, EdgeEnds
  <2> QED
    BY <2>1, <2>2
<1>9. ASSUME NEW d, NEW t, NEW m, Edge(d, t, m), m # n PROVE \E u : Edge(d, u, m)'
  <2>1. CASE d = a
    <3>1. t \in 1 .. Len(entries[a]) /\ m \in Node /\ entries[a][t] = m /\ t # at
      BY <1>2, <1>9, <2>1 DEF n
    <3>2. PICK i \in 1 .. Len(rest) : t = i + by
      BY <3>1
    <3>3. Edge(a, i, m)'
      BY <1>3, <3>1, <3>2
    <3> QED
      BY <2>1, <3>3
  <2>2. CASE d # a
    BY <1>4, <1>9, <2>2
  <2> QED
    BY <2>1, <2>2
<1>10. ASSUME NEW d, NEW t, NEW u, NEW m, Edge(d, t, m)', Edge(d, u, m)' PROVE t = u
  <2>1. CASE d = a
    <3>1. /\ t \in 1 .. Len(rest) /\ t + by \in 1 .. Len(entries[a]) /\ entries[a][t + by] = m /\ m \in Node
          /\ u \in 1 .. Len(rest) /\ u + by \in 1 .. Len(entries[a]) /\ entries[a][u + by] = m
      BY <1>3, <1>10, <2>1
    <3>2. Edge(a, t + by, m) /\ Edge(a, u + by, m)
      BY <1>2, <3>1
    <3>3. t + by = u + by
      BY <3>2, EdgeEnds
    <3> QED
      BY <1>1, <3>1, <3>3
  <2>2. CASE d # a
    BY <1>4, <1>10, <2>2, EdgeEnds
  <2> QED
    BY <2>1, <2>2
<1>11. Live' = Live
  BY <1>0 DEF Live
<1>12. ItemLinks' /\ Forest(Live', hand', Edges')
  BY <1>0, <1>1, <1>5, <1>8, <1>9, <1>10, <1>11, ItemTaken
<1> QED
  BY <1>6, <1>7, <1>12 DEF ItemKept

(* An entry popped, from the end or the front.                                *)
LEMMA PopsKeep ==
    ASSUME ItemKept, NEW a \in Node, ITEM!StackPop(a) \/ ITEM!QueuePop(a)
    PROVE  ItemKept'
<1> DEFINE s == entries[a]
<1>1. s \in Seq(Node \cup {NULL}) /\ s # <<>> /\ Len(s) \in Nat /\ Len(s) # 0
  BY EmptySeq DEF ItemKept, ItemTypes, ITEM!StackPop, ITEM!QueuePop, ITEM!TakeOut
<1>2. CASE ITEM!StackPop(a)
  <2> DEFINE rest == SubSeq(s, 1, Len(s) - 1)
  <2>1. rest \in Seq(Node \cup {NULL}) /\ Len(rest) = Len(s) - 1 /\ \A i \in 1 .. Len(s) - 1 : rest[i] = s[i]
    BY <1>1
  <2>2. ITEM!TakeOut(a, s[Len(s)], rest)
    BY <1>2 DEF ITEM!StackPop
  <2> HIDE DEF rest
  <2>3. Len(s) \in 1 .. Len(s) /\ 0 \in {0, 1}
    BY <1>1
  <2>4. \A i \in 1 .. Len(rest) : i + 0 \in 1 .. Len(s) /\ i + 0 # Len(s) /\ rest[i] = s[i + 0]
    BY <1>1, <2>1
  <2>5. \A j \in 1 .. Len(s) : j # Len(s) => \E i \in 1 .. Len(rest) : j = i + 0
    BY <1>1, <2>1
  <2> QED
    BY <2>1, <2>2, <2>3, <2>4, <2>5, TakeOutKeeps
<1>3. CASE ITEM!QueuePop(a)
  <2> DEFINE rest == Tail(s)
  <2>1. rest \in Seq(Node \cup {NULL}) /\ Len(rest) = Len(s) - 1 /\ \A i \in 1 .. Len(s) - 1 : rest[i] = s[i + 1]
    BY <1>1
  <2>2. ITEM!TakeOut(a, s[1], rest)
    <3>1. Head(s) = s[1]
      BY <1>1
    <3> QED
      BY <1>3, <3>1 DEF ITEM!QueuePop
  <2> HIDE DEF rest
  <2>3. 1 \in 1 .. Len(s) /\ 1 \in {0, 1}
    BY <1>1
  <2>4. \A i \in 1 .. Len(rest) : i + 1 \in 1 .. Len(s) /\ i + 1 # 1 /\ rest[i] = s[i + 1]
    BY <1>1, <2>1
  <2>5. \A j \in 1 .. Len(s) : j # 1 => \E i \in 1 .. Len(rest) : j = i + 1
    <3> SUFFICES ASSUME NEW j \in 1 .. Len(s), j # 1 PROVE j - 1 \in 1 .. Len(rest) /\ j = (j - 1) + 1
      OBVIOUS
    <3> QED
      BY <1>1, <2>1
  <2> QED
    BY <2>1, <2>2, <2>3, <2>4, <2>5, TakeOutKeeps
<1> QED
  BY <1>2, <1>3

(* A member freed.                                                            *)
LEMMA ObjectDeleteKeeps ==
    ASSUME ItemKept, NEW o \in Node, ITEM!ObjectDelete(o, "a")
    PROVE  ItemKept'
<1> DEFINE old == members[o]["a"]
<1> DEFINE U == ITEM!Below(old)
<1> DEFINE e == <<o, "a", old>>
<1>0. /\ kind[o] = "object" /\ old # NULL
      /\ kind' = [x \in Node |-> IF x \in U THEN "free" ELSE kind[x]] /\ stray' = stray \ U
      /\ members' = [members EXCEPT ![o]["a"] = NULL] /\ found' = NULL /\ UNCHANGED <<parent, entries, hand>>
  BY DEF ITEM!ObjectDelete, ITEM!Gone
<1>1. old \in Node /\ NULL \notin Node /\ Edge(o, "a", old) /\ e \in Edges /\ e[1] = o /\ e[3] = old
  <2>1. old \in Node /\ NULL \notin Node /\ Edge(o, "a", old)
    BY <1>0, OwnersAssumption DEF ItemKept, ItemTypes, Edge, Spot
  <2> QED
    BY <2>1, EdgesAre
<1>2. Subtree(Live, Edges, old, U)
  BY <1>1, EdgeEnds, BelowIs
<1> HIDE DEF U
<1>3. o \notin U
  <2> HIDE DEF e, old
  <2> QED
    BY <1>1, <1>2, HolderAbove DEF ItemKept
<1>4. ItemTypes'
  BY <1>0 DEF ItemKept, ItemTypes
<1>5. ItemShape'
  BY <1>0, <1>3 DEF ItemKept, ItemTypes, ItemShape
<1>6. \A d, t, m : Edge(d, t, m)' <=> Edge(d, t, m) /\ d \notin U /\ ~(d = o /\ t = "a" /\ m = old)
  <2> SUFFICES ASSUME NEW d, NEW t, NEW m PROVE Edge(d, t, m)' <=> Edge(d, t, m) /\ d \notin U /\ ~(d = o /\ t = "a" /\ m = old)
    OBVIOUS
  <2>1. CASE d = o
    BY <1>0, <1>1, <1>3, <2>1 DEF ItemKept, ItemTypes, Edge
  <2>2. CASE d # o
    BY <1>0, <2>2 DEF ItemKept, ItemTypes, Edge
  <2> QED
    BY <2>1, <2>2
<1>7. Live' = Live \ U
  BY <1>0 DEF Live, ItemKept, ItemTypes
<1>8. \A f : f \in Edges' <=> f \in Edges /\ f[1] \notin U /\ f # e
  <2> SUFFICES ASSUME NEW f PROVE f \in Edges' <=> f \in Edges /\ f[1] \notin U /\ f # e
    OBVIOUS
  <2>1. f = <<f[1], f[2], f[3]>> => (f = e <=> f[1] = o /\ f[2] = "a" /\ f[3] = old)
    OBVIOUS
  <2> HIDE DEF e, old
  <2> QED
    BY <1>6, <2>1, EdgesAre, EdgesNext
<1>9. Forest(Live', hand', Edges')
  <2> HIDE DEF e, old
  <2> QED
    BY <1>0, <1>1, <1>2, <1>7, <1>8, NodeDeleted DEF ItemKept
<1>10. ItemLinks'
  BY <1>0, <1>6, <1>7, <1>9, LinksLess
<1> QED
  BY <1>4, <1>5, <1>9, <1>10 DEF ItemKept

(* An item of a user freed.                                                   *)
LEMMA ItemFreeKeeps ==
    ASSUME ItemKept, NEW n \in Node, ITEM!ItemFree(n)
    PROVE  ItemKept'
<1> DEFINE U == ITEM!Below(n)
<1>0. /\ n \in hand /\ kind' = [x \in Node |-> IF x \in U THEN "free" ELSE kind[x]] /\ stray' = stray \ U
      /\ hand' = hand \ {n} /\ found' = NULL /\ UNCHANGED <<parent, entries, members>>
  BY DEF ITEM!ItemFree, ITEM!Gone
<1>1. n \in Live
  BY <1>0 DEF ItemKept, Forest
<1>2. Subtree(Live, Edges, n, U)
  BY <1>1, BelowIs
<1> HIDE DEF U
<1>3. ItemTypes'
  BY <1>0 DEF ItemKept, ItemTypes
<1>4. ItemShape'
  BY <1>0 DEF ItemKept, ItemTypes, ItemShape
<1>5. \A d, t, m : Edge(d, t, m)' <=> Edge(d, t, m) /\ d \notin U
  BY <1>0 DEF ItemKept, ItemTypes, Edge
<1>6. Live' = Live \ U
  BY <1>0 DEF Live, ItemKept, ItemTypes
<1>7. \A f : f \in Edges' <=> f \in Edges /\ f[1] \notin U
  BY <1>5, EdgesAre, EdgesNext
<1>8. Forest(Live', hand', Edges')
  BY <1>0, <1>2, <1>6, <1>7, NodeFreed DEF ItemKept
<1>9. ItemLinks'
  BY <1>0, <1>5, <1>6, <1>8, LinksLess
<1> QED
  BY <1>3, <1>4, <1>8, <1>9 DEF ItemKept

(* An item cleared.                                                           *)
LEMMA ItemClearKeeps ==
    ASSUME ItemKept, NEW n \in Node, ITEM!ItemClear(n)
    PROVE  ItemKept'
<1> DEFINE U == ITEM!Below(n)
<1>0. /\ n \in Live
      /\ kind' = [m \in Node |-> IF m = n THEN "leaf" ELSE IF m \in U THEN "free" ELSE kind[m]]
      /\ stray' = stray \ (U \ {n}) /\ entries' = [entries EXCEPT ![n] = <<>>]
      /\ members' = [members EXCEPT ![n] = [x \in {"a"} |-> NULL]] /\ found' = NULL /\ UNCHANGED <<parent, hand>>
  BY DEF ITEM!ItemClear, ITEM!NoMembers, Live
<1>2. Subtree(Live, Edges, n, U)
  BY <1>0, BelowIs
<1> HIDE DEF U
<1>a. n \in U /\ \A s, m : Edge(n, s, m) => n \in U
  BY <1>2 DEF Subtree
<1>3. ItemTypes'
  BY <1>0 DEF ItemKept, ItemTypes
<1>4. ItemShape'
  BY <1>0, OwnersAssumption DEF ItemKept, ItemTypes, ItemShape
<1>5. \A d, t, m : Edge(d, t, m)' <=> Edge(d, t, m) /\ d \notin U
  BY <1>0, <1>a, OwnersAssumption DEF ItemKept, ItemTypes, Edge
<1>6. Live' = Live \ (U \ {n})
  BY <1>0 DEF Live, ItemKept, ItemTypes
<1>7. \A f : f \in Edges' <=> f \in Edges /\ f[1] \notin U
  BY <1>5, EdgesAre, EdgesNext
<1>8. Forest(Live', hand', Edges')
  BY <1>0, <1>2, <1>6, <1>7, NodeCleared DEF ItemKept
<1>9. ItemLinks'
  BY <1>0, <1>5, <1>6, <1>8, LinksLess
<1> QED
  BY <1>3, <1>4, <1>8, <1>9 DEF ItemKept

(* A member or an entry looked up.                                            *)
LEMMA GetKeeps ==
    ASSUME ItemKept, NEW n \in Node, ITEM!GetMember(n, "a") \/ \E i \in 1 .. MaxItems : ITEM!GetEntry(n, i)
    PROVE  ItemKept'
<1>1. UNCHANGED <<kind, parent, entries, members, hand, stray>>
  BY DEF ITEM!GetMember, ITEM!GetEntry, ITEM!tree
<1>2. found' \in Node \cup {NULL} /\ (found' \in Node => \E s : Edge(n, s, found'))
  <2>1. CASE ITEM!GetMember(n, "a")
    BY <2>1 DEF ITEM!GetMember, ItemKept, ItemTypes, Edge, Spot
  <2>2. ASSUME NEW i \in 1 .. MaxItems, ITEM!GetEntry(n, i) PROVE found' \in Node \cup {NULL} /\ (found' \in Node => \E s : Edge(n, s, found'))
    <3>1. kind[n] = "array" /\ found' = IF i \in DOMAIN entries[n] THEN entries[n][i] ELSE NULL
      BY <2>2 DEF ITEM!GetEntry
    <3>2. NULL \notin Node /\ i \in Spot /\ entries[n] \in Seq(Node \cup {NULL})
      BY OwnersAssumption DEF ItemKept, ItemTypes, Spot
    <3>3. CASE i \in 1 .. Len(entries[n])
      <4>1. found' = entries[n][i] /\ found' \in Node \cup {NULL}
        BY <3>1, <3>2, <3>3
      <4> QED
        BY <3>1, <3>2, <3>3, <4>1 DEF Edge
    <3>4. CASE i \notin 1 .. Len(entries[n])
      BY <3>1, <3>2, <3>4
    <3> QED
      BY <3>3, <3>4
  <2> QED
    BY <2>1, <2>2
<1>3. found' \in Node => found' \in Live \ hand
  BY <1>2, EdgeEnds
<1>4. Live' = Live /\ Edges' = Edges /\ \A c, s, m : Edge(c, s, m)' <=> Edge(c, s, m)
  BY <1>1 DEF Live, Edges, Edge
<1> QED
  BY <1>1, <1>2, <1>3, <1>4 DEF ItemKept, ItemTypes, ItemShape, ItemLinks

(* An array read one behind its end, which puts an item there.                *)
LEMMA GetBehindKeeps ==
    ASSUME ItemKept, NEW a \in Node, NEW n \in Node, ITEM!GetBehind(a, n)
    PROVE  ItemKept'
<1> DEFINE k == Len(entries[a]) + 1
<1>0. /\ kind[a] = "array" /\ kind[n] = "free" /\ Len(entries[a]) < MaxItems
      /\ kind' = [kind EXCEPT ![n] = "leaf"] /\ entries' = [entries EXCEPT ![a] = Append(@, n), ![n] = <<>>]
      /\ members' = [members EXCEPT ![n] = [x \in {"a"} |-> NULL]]
      /\ parent' = [parent EXCEPT ![n] = a] /\ found' = n /\ UNCHANGED <<hand, stray>>
  BY DEF ITEM!GetBehind, ITEM!NoMembers
<1>1. /\ a \in Live /\ n \notin Live /\ n \notin hand /\ a # n /\ NULL \notin Node /\ MaxItems \in Nat
      /\ entries[a] \in Seq(Node \cup {NULL})
  BY <1>0, OwnersAssumption DEF ItemKept, ItemTypes, Live, Forest
<1>2. /\ entries'[a] \in Seq(Node \cup {NULL}) /\ Len(entries'[a]) = k /\ k \in Spot /\ entries'[a][k] = n
      /\ \A i \in 1 .. Len(entries[a]) : entries'[a][i] = entries[a][i]
      /\ \A i : i \in 1 .. k <=> i \in 1 .. Len(entries[a]) \/ i = k
      /\ k \notin 1 .. Len(entries[a]) /\ entries'[n] = <<>>
      /\ \A c \in Node : c # a /\ c # n => entries'[c] = entries[c]
      /\ entries' \in [Node -> Seq(Node \cup {NULL})]
  <2>1. /\ Append(entries[a], n) \in Seq(Node \cup {NULL}) /\ Len(Append(entries[a], n)) = k
        /\ Append(entries[a], n)[k] = n /\ \A i \in 1 .. Len(entries[a]) : Append(entries[a], n)[i] = entries[a][i]
    BY <1>1
  <2>2. Len(entries[a]) \in Nat /\ k \in 1 .. MaxItems
    BY <1>0, <1>1
  <2>3. <<>> \in Seq(Node \cup {NULL})
    OBVIOUS
  <2> HIDE DEF k
  <2>4. /\ entries'[a] = Append(entries[a], n) /\ entries'[n] = <<>> /\ \A c \in Node : c # a /\ c # n => entries'[c] = entries[c]
        /\ entries' \in [Node -> Seq(Node \cup {NULL})]
    BY <1>0, <1>1, <2>1, <2>3 DEF ItemKept, ItemTypes
  <2>5. (\A i : i \in 1 .. k <=> i \in 1 .. Len(entries[a]) \/ i = k) /\ k \notin 1 .. Len(entries[a])
    BY <2>2 DEF k
  <2> QED
    BY <2>1, <2>2, <2>4, <2>5 DEF Spot
<1> HIDE DEF k
<1>3. ItemTypes'
  BY <1>0, <1>2 DEF ItemKept, ItemTypes
<1>4. ItemShape'
  BY <1>0, <1>1, <1>2 DEF ItemKept, ItemTypes, ItemShape, k
<1>5. \A d, t, m : Edge(d, t, m)' <=> Edge(d, t, m) \/ (d = a /\ t = k /\ m = n)
  <2> SUFFICES ASSUME NEW d, NEW t, NEW m PROVE Edge(d, t, m)' <=> Edge(d, t, m) \/ (d = a /\ t = k /\ m = n)
    OBVIOUS
  <2>1. CASE d = a
    <3>1. kind'[a] = "array"
      BY <1>0, <1>1 DEF ItemKept, ItemTypes
    <3> QED
      BY <1>0, <1>2, <2>1, <3>1 DEF Edge
  <2>2. CASE d = n
    <3>1. kind'[n] = "leaf"
      BY <1>0 DEF ItemKept, ItemTypes
    <3> QED
      BY <1>0, <1>1, <2>2, <3>1 DEF Edge
  <2>3. CASE d # a /\ d # n
    BY <1>0, <1>2, <2>3 DEF ItemKept, ItemTypes, Edge
  <2> QED
    BY <2>1, <2>2, <2>3
<1>6. Live' = Live \cup {n}
  BY <1>0 DEF Live, ItemKept, ItemTypes
<1>7. Edges' = Edges \cup {<<a, k, n>>}
  <2>1. \A d, t, m : <<d, t, m>> \in Edges' <=> <<d, t, m>> \in Edges \/ <<d, t, m>> = <<a, k, n>>
    BY <1>5, EdgesAre, EdgesNext, Zenon
  <2>2. \A e \in Edges \cup {<<a, k, n>>} : e = <<e[1], e[2], e[3]>>
    BY EdgesAre
  <2> QED
    BY <2>1, <2>2, EdgesNext
<1>8. Forest(Live', hand', Edges')
  BY <1>0, <1>1, <1>6, <1>7, NodeAdded DEF ItemKept
<1>9. ItemLinks'
  <2>1. ASSUME NEW d, NEW t, NEW m, Edge(d, t, m), m \notin stray PROVE parent'[m] = d
    BY <1>0, <1>1, <2>1, EdgeEnds DEF ItemKept, ItemLinks, ItemTypes
  <2>2. parent'[n] = a /\ \A m \in hand' : parent'[m] = NULL
    BY <1>0, <1>1 DEF ItemKept, ItemLinks, ItemTypes
  <2> QED
    BY <1>0, <1>1, <1>5, <1>6, <2>1, <2>2 DEF ItemLinks
<1> QED
  BY <1>3, <1>4, <1>8, <1>9 DEF ItemKept

(* An item copied: the copies are a tree like it, in the hands of a user.     *)
LEMMA ItemCopyKeeps ==
    ASSUME ItemKept, NEW n \in Node, NEW twin \in [ITEM!Below(n) -> ITEM!Free], ITEM!IsInjective(twin), ITEM!ItemCopy(n, twin)
    PROVE  ItemKept'
<1> DEFINE U == ITEM!Below(n)
<1> DEFINE C == ITEM!Range(twin)
<1> DEFINE of(c) == CHOOSE m \in U : twin[m] = c
<1> DEFINE copy(m) == IF m = NULL THEN NULL ELSE twin[m]
<1>0. /\ n \in Live /\ \A m \in U : NULL \notin ITEM!Range(entries[m])
      /\ kind' = [c \in Node |-> IF c \in C THEN kind[of(c)] ELSE kind[c]]
      /\ parent' = [c \in Node |-> IF c \in C THEN NULL ELSE parent[c]]
      /\ entries' = [c \in Node |-> IF c \in C THEN [i \in DOMAIN entries[of(c)] |-> copy(entries[of(c)][i])] ELSE entries[c]]
      /\ members' = [c \in Node |-> IF c \in C THEN [k \in {"a"} |-> copy(members[of(c)][k])] ELSE members[c]]
      /\ hand' = hand \cup {twin[n]} /\ stray' = stray \cup (C \ {twin[n]}) /\ found' = NULL
  BY DEF ITEM!ItemCopy, Live
<1>1. Subtree(Live, Edges, n, U)
  BY <1>0, BelowIs
<1>2. /\ n \in U /\ U \subseteq Live /\ \A m \in U : \A s, x : Edge(m, s, x) => x \in U /\ x # n
  <2>1. n \in U /\ U \subseteq Live
    BY <1>1 DEF Subtree
  <2> HIDE DEF U
  <2>2. ASSUME NEW m \in U, NEW s, NEW x, Edge(m, s, x) PROVE x \in U /\ x # n
    <3>1. <<m, s, x>> \in Edges /\ <<m, s, x>>[1] = m /\ <<m, s, x>>[3] = x
      BY <2>2, EdgesAre
    <3>2. x \in U
      BY <1>1, <3>1 DEF Subtree
    <3>3. x # n
      BY <1>1, <3>1, HolderAbove DEF ItemKept
    <3> QED
      BY <3>2, <3>3
  <2> QED
    BY <2>1, <2>2
<1>3. /\ \A m \in U : twin[m] \in Node \ Live /\ twin[m] \in C
      /\ \A m, x \in U : twin[m] = twin[x] => m = x
      /\ \A c : c \in C <=> \E m \in U : c = twin[m]
  <2>1. \A m \in U : twin[m] \in Node \ Live
    BY DEF ITEM!Free, Live
  <2>2. \A m, x \in U : twin[m] = twin[x] => m = x
    BY DEF ITEM!IsInjective
  <2>3. \A c : c \in C <=> \E m \in U : c = twin[m]
    BY DEF ITEM!Range
  <2> QED
    BY <2>1, <2>2, <2>3
<1> HIDE DEF U, C
<1>4. \A m \in U : of(twin[m]) = m
  BY <1>3
<1> HIDE DEF of, copy
<1>5. ASSUME NEW m \in U
      PROVE  /\ kind'[twin[m]] = kind[m] /\ kind[m] \in {"leaf", "array", "object"}
             /\ entries'[twin[m]] \in Seq(Node) /\ Len(entries'[twin[m]]) = Len(entries[m])
             /\ \A i \in 1 .. Len(entries[m]) : entries[m][i] \in U /\ entries'[twin[m]][i] = twin[entries[m][i]]
             /\ members'[twin[m]] \in [{"a"} -> Node \cup {NULL}]
             /\ members[m]["a"] = NULL => members'[twin[m]]["a"] = NULL
             /\ members[m]["a"] # NULL => members[m]["a"] \in U /\ members'[twin[m]]["a"] = twin[members[m]["a"]]
             /\ NULL \notin Node
  <2>0. /\ m \in Node /\ m \in Live /\ kind[m] \in {"leaf", "array", "object"} /\ NULL \notin Node /\ twin[m] \in Node /\ twin[m] \in C
        /\ entries[m] \in Seq(Node \cup {NULL}) /\ Len(entries[m]) <= MaxItems /\ MaxItems \in Nat
        /\ members[m] \in [{"a"} -> Node \cup {NULL}]
    BY <1>2, <1>3, OwnersAssumption DEF ItemKept, ItemTypes, ItemShape, Live
  <2>1. /\ kind'[twin[m]] = kind[m] /\ entries'[twin[m]] = [i \in DOMAIN entries[m] |-> copy(entries[m][i])]
        /\ members'[twin[m]] = [k \in {"a"} |-> copy(members[m][k])]
    BY <1>0, <1>4, <2>0
  <2>2. DOMAIN entries[m] = 1 .. Len(entries[m]) /\ Len(entries[m]) \in Nat
    BY <2>0
  <2>3. ASSUME NEW i \in 1 .. Len(entries[m]) PROVE entries[m][i] \in U /\ entries[m][i] # NULL
    <3>1. entries[m][i] # NULL
      BY <1>0, <2>2, <2>3 DEF ITEM!Range
    <3>2. kind[m] = "array"
      BY <2>0, <2>2, <2>3 DEF ItemKept, ItemShape
    <3>3. Edge(m, i, entries[m][i])
      BY <2>0, <2>2, <3>1, <3>2 DEF Edge, Spot
    <3> QED
      BY <1>2, <3>1, <3>3
  <2>4. members[m]["a"] \in U \cup {NULL}
    <3>1. CASE members[m]["a"] # NULL
      <4>1. kind[m] = "object"
        BY <2>0, <3>1 DEF ItemKept, ItemShape
      <4>2. Edge(m, "a", members[m]["a"])
        BY <2>0, <3>1, <4>1 DEF Edge, Spot
      <4> QED
        BY <1>2, <4>2
    <3> QED
      BY <3>1
  <2>5. /\ entries'[twin[m]] \in Seq(Node) /\ Len(entries'[twin[m]]) = Len(entries[m])
        /\ \A i \in 1 .. Len(entries[m]) : entries'[twin[m]][i] = twin[entries[m][i]]
    <3>1. \A i \in 1 .. Len(entries[m]) : copy(entries[m][i]) = twin[entries[m][i]] /\ twin[entries[m][i]] \in Node
      BY <1>3, <2>3 DEF copy
    <3>2. entries'[twin[m]] = [i \in 1 .. Len(entries[m]) |-> copy(entries[m][i])]
      BY <2>1, <2>2
    <3> QED
      BY <2>2, <3>1, <3>2
  <2>6. copy(members[m]["a"]) = (IF members[m]["a"] = NULL THEN NULL ELSE twin[members[m]["a"]]) /\ copy(members[m]["a"]) \in Node \cup {NULL}
    BY <1>3, <2>4 DEF copy
  <2>7. members'[twin[m]] \in [{"a"} -> Node \cup {NULL}] /\ members'[twin[m]]["a"] = copy(members[m]["a"])
    BY <2>1, <2>6
  <2> QED
    BY <2>0, <2>1, <2>3, <2>4, <2>5, <2>6, <2>7
<1>6. \A c \in Node \ C : kind'[c] = kind[c] /\ parent'[c] = parent[c] /\ entries'[c] = entries[c] /\ members'[c] = members[c]
  BY <1>0
<1>7. \A c \in C : parent'[c] = NULL /\ c \in Node \ Live
  BY <1>0, <1>3
<1>8. ItemTypes'
  <2>1. ASSUME NEW c \in Node
        PROVE  /\ kind'[c] \in {"free", "leaf", "array", "object"} /\ parent'[c] \in Node \cup {NULL}
               /\ entries'[c] \in Seq(Node \cup {NULL}) /\ members'[c] \in [{"a"} -> Node \cup {NULL}]
    <3>1. CASE c \in C
      <4>1. PICK m \in U : c = twin[m]
        BY <1>3, <3>1
      <4>2. kind'[c] = kind[m] /\ kind[m] \in {"leaf", "array", "object"} /\ entries'[c] \in Seq(Node)
            /\ members'[c] \in [{"a"} -> Node \cup {NULL}]
        BY <1>5, <4>1
      <4> QED
        BY <1>7, <3>1, <4>2
    <3>2. CASE c \notin C
      BY <1>6, <3>2 DEF ItemKept, ItemTypes
    <3> QED
      BY <3>1, <3>2
  <2>2. hand' \in SUBSET Node /\ found' = NULL
    BY <1>0, <1>2, <1>3 DEF ItemKept, ItemTypes
  <2>3. DOMAIN kind' = Node /\ DOMAIN parent' = Node /\ DOMAIN entries' = Node /\ DOMAIN members' = Node
    BY <1>0
  <2>4. /\ kind' = [c \in Node |-> kind'[c]] /\ parent' = [c \in Node |-> parent'[c]]
        /\ entries' = [c \in Node |-> entries'[c]] /\ members' = [c \in Node |-> members'[c]]
    BY <1>0
  <2> QED
    BY <2>1, <2>2, <2>4 DEF ItemTypes
<1>9. ItemShape'
  <2> SUFFICES ASSUME NEW c \in Node
               PROVE  /\ Len(entries'[c]) <= MaxItems
                      /\ kind'[c] \in {"leaf", "object"} => entries'[c] = <<>>
                      /\ kind'[c] \in {"leaf", "array"} => members'[c]["a"] = NULL
    BY DEF ItemShape
  <2>1. CASE c \in C
    <3>1. PICK m \in U : c = twin[m]
      BY <1>3, <2>1
    <3>2. m \in Node /\ Len(entries[m]) <= MaxItems
      BY <1>2 DEF ItemKept, ItemShape, Live
    <3>3. kind[m] \in {"leaf", "object"} => entries'[c] = <<>>
      <4>1. kind[m] \in {"leaf", "object"} => entries[m] = <<>>
        BY <3>2 DEF ItemKept, ItemShape
      <4>2. entries'[c] \in Seq(Node) /\ Len(entries'[c]) = Len(entries[m])
        BY <1>5, <3>1
      <4> QED
        BY <4>1, <4>2, EmptySeq
    <3>4. kind[m] \in {"leaf", "array"} => members'[c]["a"] = NULL
      <4>1. kind[m] \in {"leaf", "array"} => members[m]["a"] = NULL
        BY <3>2 DEF ItemKept, ItemShape
      <4> QED
        BY <1>5, <3>1, <4>1
    <3>5. kind'[c] = kind[m] /\ Len(entries'[c]) = Len(entries[m])
      BY <1>5, <3>1
    <3> QED
      BY <3>2, <3>3, <3>4, <3>5
  <2>2. CASE c \notin C
    BY <1>6, <2>2 DEF ItemKept, ItemShape
  <2> QED
    BY <2>1, <2>2
<1>10. \A c, s, y : c \notin C => (Edge(c, s, y)' <=> Edge(c, s, y))
  BY <1>6 DEF Edge
<1>11. ASSUME NEW m \in U, NEW c, c = twin[m]
       PROVE  /\ m \in Node /\ c \in Node /\ U \subseteq Node /\ NULL \notin Node
              /\ kind'[c] = kind[m] /\ kind[m] \in {"leaf", "array", "object"} /\ Len(entries'[c]) = Len(entries[m])
              /\ \A i \in 1 .. Len(entries[m]) : entries[m][i] \in U /\ entries'[c][i] = twin[entries[m][i]]
              /\ members[m]["a"] = NULL => members'[c]["a"] = NULL
              /\ members[m]["a"] # NULL => members[m]["a"] \in U /\ members'[c]["a"] = twin[members[m]["a"]]
  <2>1. m \in Node /\ c \in Node /\ U \subseteq Node
    BY <1>2, <1>3, <1>11 DEF Live
  <2> QED
    BY <1>5, <1>11, <2>1
<1>12. \A m, c, s, y : m \in U /\ c = twin[m] /\ Edge(c, s, y)' => \E x : Edge(m, s, x) /\ y = twin[x]
  <2> SUFFICES ASSUME NEW m, NEW c, NEW s, NEW y, m \in U, c = twin[m], Edge(c, s, y)' PROVE \E x : Edge(m, s, x) /\ y = twin[x]
    OBVIOUS
  <2>1. CASE kind[m] = "array"
    <3>1. s \in 1 .. Len(entries[m]) /\ y = twin[entries[m][s]] /\ entries[m][s] \in U /\ s \in Spot
      BY <1>11, <2>1 DEF Edge
    <3>2. Edge(m, s, entries[m][s])
      BY <1>11, <2>1, <3>1 DEF Edge
    <3> QED
      BY <3>1, <3>2
  <2>2. CASE kind[m] = "object"
    <3>1. s = "a" /\ s \in Spot /\ y \in Node /\ y = members'[c]["a"]
      BY <1>11, <2>2 DEF Edge
    <3>2. members[m]["a"] \in U /\ y = twin[members[m]["a"]]
      BY <1>11, <3>1
    <3>3. Edge(m, s, members[m]["a"])
      BY <1>11, <2>2, <3>1, <3>2 DEF Edge
    <3> QED
      BY <3>2, <3>3
  <2> QED
    BY <1>11, <2>1, <2>2 DEF Edge
<1>13. \A m, c, s, x, y : m \in U /\ c = twin[m] /\ Edge(m, s, x) /\ y = twin[x] => Edge(c, s, y)'
  <2> SUFFICES ASSUME NEW m, NEW c, NEW s, NEW x, NEW y, m \in U, c = twin[m], Edge(m, s, x), y = twin[x] PROVE Edge(c, s, y)'
    OBVIOUS
  <2>1. x \in U /\ y \in Node /\ s \in Spot /\ x # NULL
    BY <1>2, <1>3, <1>11 DEF Edge
  <2>2. CASE kind[m] = "array"
    <3>1. s \in 1 .. Len(entries[m]) /\ entries[m][s] = x
      BY <2>2 DEF Edge
    <3>2. s \in 1 .. Len(entries'[c]) /\ entries'[c][s] = y /\ kind'[c] = "array"
      BY <1>11, <2>2, <3>1
    <3> QED
      BY <1>11, <2>1, <3>2 DEF Edge
  <2>3. CASE kind[m] = "object"
    <3>1. s = "a" /\ members[m]["a"] = x
      BY <2>3 DEF Edge
    <3>2. members'[c]["a"] = y /\ kind'[c] = "object"
      BY <1>11, <2>1, <2>3, <3>1
    <3> QED
      BY <1>11, <2>1, <3>1, <3>2 DEF Edge
  <2> QED
    BY <2>2, <2>3 DEF Edge
<1>14. \A f : f \in Edges' <=> f \in Edges \/ \E e \in Edges : e[1] \in U /\ f = <<twin[e[1]], e[2], twin[e[3]]>>
  <2>0. ASSUME NEW c, NEW s, NEW y, Edge(c, s, y)'
        PROVE  <<c, s, y>> \in Edges \/ \E e \in Edges : e[1] \in U /\ <<c, s, y>> = <<twin[e[1]], e[2], twin[e[3]]>>
    <3>1. CASE c \in C
      <4>1. PICK m \in U : c = twin[m]
        BY <1>3, <3>1
      <4>2. PICK x : Edge(m, s, x) /\ y = twin[x]
        BY <1>12, <2>0, <4>1
      <4>3. <<m, s, x>> \in Edges /\ <<m, s, x>>[1] = m /\ <<m, s, x>>[2] = s /\ <<m, s, x>>[3] = x
        BY <4>2, EdgesAre
      <4> QED
        BY <4>1, <4>2, <4>3
    <3>2. CASE c \notin C
      BY <1>10, <2>0, <3>2, EdgesAre
    <3> QED
      BY <3>1, <3>2
  <2>1. ASSUME NEW f \in Edges' PROVE f \in Edges \/ \E e \in Edges : e[1] \in U /\ f = <<twin[e[1]], e[2], twin[e[3]]>>
    <3>1. f = <<f[1], f[2], f[3]>> /\ Edge(f[1], f[2], f[3])'
      BY EdgesNext
    <3> QED
      BY <2>0, <3>1
  <2>2. ASSUME NEW f \in Edges PROVE f \in Edges'
    <3>1. f = <<f[1], f[2], f[3]>> /\ Edge(f[1], f[2], f[3])
      BY EdgesAre
    <3>2. f[1] \notin C
      BY <1>7, <3>1, EdgeEnds
    <3> QED
      BY <1>10, <3>1, <3>2, EdgesNext
  <2>3. ASSUME NEW e \in Edges, e[1] \in U PROVE <<twin[e[1]], e[2], twin[e[3]]>> \in Edges'
    <3>1. Edge(e[1], e[2], e[3])
      BY EdgesAre
    <3> DEFINE c == twin[e[1]]
    <3> DEFINE y == twin[e[3]]
    <3>2. c = twin[e[1]] /\ y = twin[e[3]]
      OBVIOUS
    <3> HIDE DEF c, y
    <3>3. Edge(c, e[2], y)'
      BY <1>13, <2>3, <3>1, <3>2
    <3>4. <<c, e[2], y>> \in Edges'
      BY <3>3, EdgesNext
    <3> QED
      BY <3>2, <3>4
  <2> QED
    BY <2>1, <2>2, <2>3
<1>15. Live' = Live \cup C
  <2>1. ASSUME NEW c \in C PROVE c \in Node /\ kind'[c] # "free"
    <3>1. PICK m \in U : c = twin[m]
      BY <1>3
    <3> QED
      BY <1>3, <1>5, <3>1
  <2> QED
    BY <1>6, <2>1 DEF Live
<1>16. Forest(Live', hand', Edges')
  <2>1. Twins(Live, U, twin, C) /\ WithTwins(Edges, U, twin, Edges')
    BY <1>3, <1>14 DEF Twins, WithTwins
  <2>2. n \in Live /\ hand' = hand \cup {twin[n]} /\ Forest(Live, hand, Edges)
    BY <1>0 DEF ItemKept
  <2>3. Forest(Live \cup C, hand \cup {twin[n]}, Edges')
    BY <1>1, <2>1, <2>2, NodeCopied
  <2> QED
    BY <1>15, <2>2, <2>3
<1>17. ItemLinks'
  <2>1. ASSUME NEW c, NEW s, NEW y, Edge(c, s, y)', y \notin stray' PROVE parent'[y] = c
    <3>1. CASE c \in C
      <4>1. PICK m \in U : c = twin[m]
        BY <1>3, <3>1
      <4>2. PICK x : Edge(m, s, x) /\ y = twin[x]
        BY <1>12, <2>1, <4>1
      <4>3. x \in U /\ x # n
        BY <1>2, <4>2
      <4>4. y \in C \ {twin[n]}
        BY <1>2, <1>3, <4>2, <4>3
      <4> QED
        BY <1>0, <2>1, <4>4
    <3>2. CASE c \notin C
      <4>1. Edge(c, s, y) /\ y \in Live /\ y \in Node
        BY <1>10, <2>1, <3>2, EdgeEnds DEF Live
      <4>2. y \notin C /\ y \notin stray
        BY <1>0, <1>7, <2>1, <4>1
      <4> QED
        BY <1>6, <4>1, <4>2 DEF ItemKept, ItemLinks
    <3> QED
      BY <3>1, <3>2
  <2>2. ASSUME NEW m \in hand' PROVE parent'[m] = NULL
    <3>1. CASE m = twin[n]
      BY <1>2, <1>3, <1>7, <3>1
    <3>2. CASE m # twin[n]
      <4>1. m \in hand /\ m \in Live /\ m \in Node
        BY <1>0, <3>2 DEF ItemKept, Forest, Live
      <4>2. m \notin C
        BY <1>7, <4>1
      <4> QED
        BY <1>6, <4>1, <4>2 DEF ItemKept, ItemLinks
    <3> QED
      BY <3>1, <3>2
  <2> QED
    BY <1>0, <2>1, <2>2, OwnersAssumption DEF ItemLinks
<1> QED
  BY <1>8, <1>9, <1>16, <1>17 DEF ItemKept

(* Every call on items.                                                       *)
LEMMA NextItem == ItemKept /\ [ITEM!Next]_itemVars => ItemKept'
<1> SUFFICES ASSUME ItemKept, [ITEM!Next]_itemVars PROVE ItemKept'
  OBVIOUS
<1>1. CASE UNCHANGED itemVars
  BY <1>1 DEF itemVars, ItemKept, ItemTypes, ItemShape, ItemLinks, Edges, Edge, Live
<1>2. ASSUME NEW n \in Node,
             \/ \E k \in {"leaf", "array", "object"} : ITEM!Create(n, k)
             \/ ITEM!ItemFree(n) \/ ITEM!ItemClear(n) \/ ITEM!StackPop(n) \/ ITEM!QueuePop(n)
             \/ \E k \in {"a"} : ITEM!ObjectRemove(n, k) \/ ITEM!ObjectDelete(n, k) \/ ITEM!GetMember(n, k)
             \/ \E i \in 1 .. MaxItems : ITEM!GetEntry(n, i)
      PROVE  ItemKept'
  BY <1>2, ItemCreated, ItemFreeKeeps, ItemClearKeeps, PopsKeep, ObjectRemoveKeeps, ObjectDeleteKeeps, GetKeeps
<1>3. ASSUME NEW n \in Node, NEW m \in Node,
             \/ ITEM!ArrayPush(n, m) \/ ITEM!GetBehind(n, m)
             \/ \E k \in {"a"} : ITEM!ObjectSet(n, k, m)
             \/ \E i \in 1 .. MaxItems : ITEM!ArraySet(n, i, m)
      PROVE  ItemKept'
  BY <1>3, ArrayPushKeeps, GetBehindKeeps, ObjectSetKeeps, ArraySetKeeps
<1>4. ASSUME NEW n \in Node, NEW twin \in [ITEM!Below(n) -> ITEM!Free], ITEM!IsInjective(twin), ITEM!ItemCopy(n, twin) PROVE ItemKept'
  BY <1>4, ItemCopyKeeps
<1> QED
  BY <1>1, <1>2, <1>3, <1>4 DEF ITEM!Next

(* No items are a forest.                                                     *)
LEMMA InitItem == ITEM!Init => ItemKept
<1> SUFFICES ASSUME ITEM!Init PROVE ItemKept
  OBVIOUS
<1>0. /\ kind = [n \in Node |-> "free"] /\ parent = [n \in Node |-> NULL]
      /\ entries = [n \in Node |-> <<>>] /\ members = [n \in Node |-> [x \in {"a"} |-> NULL]]
      /\ hand = {} /\ stray = {} /\ found = NULL
  BY DEF ITEM!Init, ITEM!NoMembers
<1>1. ItemTypes
  BY <1>0 DEF ItemTypes
<1>2. ItemShape
  BY <1>0, OwnersAssumption DEF ItemShape
<1>3. \A c, s, n : ~Edge(c, s, n)
  BY <1>0 DEF Edge
<1>4. Live = {} /\ Edges = {}
  BY <1>0, <1>3, EdgesAre DEF Live
<1>5. Forest(Live, hand, Edges)
  BY <1>0, <1>4 DEF Forest, NoLoop
<1>6. ItemLinks
  BY <1>0, <1>3, OwnersAssumption DEF ItemLinks
<1> QED
  BY <1>1, <1>2, <1>5, <1>6 DEF ItemKept

-----------------------------------------------------------------------------
(* The four with owners, of which one takes a step.                           *)
Owned == DictKept /\ TableKept /\ CacheKept /\ ItemKept

(* An empty dictionary has no pairs.                                          *)
LEMMA InitDict == DI!Init => DictKept
<1> SUFFICES ASSUME DI!Init PROVE DictKept
  OBVIOUS
<1>1. chains = [s \in DI!Slots |-> <<>>] /\ freed = {} /\ owned = {}
  BY DEF DI!Init
<1>2. <<>> \in Seq(DictPair) /\ Len(<<>>) = 0
  OBVIOUS
<1>3. \A s \in DI!Slots : chains[s] = <<>>
  BY <1>1
<1>4. \A s \in DI!Slots : \A i \in 1 .. Len(chains[s]) : FALSE
  BY <1>2, <1>3
<1>5. Apart(DI!Slots, NULL, chains)
  BY <1>4 DEF Apart, OnlyAt
<1> QED
  BY <1>1, <1>2, <1>4, <1>5 DEF DictKept, OfPairs

(* An empty table has no copies.                                              *)
LEMMA InitTable == HT!Init => TableKept
<1> SUFFICES ASSUME HT!Init PROVE TableKept
  OBVIOUS
<1>1. buckets = [b \in HT!Buckets |-> <<>>] /\ copies = 0
  BY DEF HT!Init
<1>2. <<>> \in Seq(Entry) /\ DOMAIN <<>> = {}
  OBVIOUS
<1>3. Filled(HT!Buckets, buckets) = {}
  BY <1>1, <1>2 DEF Filled
<1> QED
  BY <1>1, <1>2, <1>3, FS_EmptySet DEF TableKept

(* At first every object is in the heap.                                      *)
LEMMA InitCache == RC!Init => CacheKept
<1> SUFFICES ASSUME RC!Init PROVE CacheKept
  OBVIOUS
<1> DEFINE w == [o \in Object |-> InHeap]
<1>1. /\ elements = [i \in 0 .. Capacity + Extension - 1 |-> NONE] /\ next_free = 0 /\ slots = Capacity
      /\ in_use = FALSE /\ pc = [t \in Thread |-> "idle"] /\ object = [t \in Thread |-> NONE]
      /\ held = [t \in Thread |-> {}] /\ heap = Object
  BY DEF RC!Init
<1>2. CacheTypes
  <2>1. Capacity \in Nat /\ Extension \in Nat
    BY OwnersAssumption
  <2>2. next_free \in Nat /\ slots \in Nat /\ next_free <= slots /\ slots <= Capacity + Extension
    BY <1>1, <2>1
  <2>3. elements \in [0 .. Capacity + Extension - 1 -> Object \cup {NONE}]
    BY <1>1
  <2>4. pc \in [Thread -> CachePc] /\ object \in [Thread -> Object \cup {NONE}]
    BY <1>1 DEF CachePc
  <2>5. held \in [Thread -> SUBSET Object] /\ heap \in SUBSET Object /\ in_use \in BOOLEAN
    BY <1>1
  <2> QED
    BY <2>2, <2>3, <2>4, <2>5 DEF CacheTypes
<1>3. FlagIsHeld /\ SlotsHold /\ Takers = {}
  BY <1>1 DEF FlagIsHeld, SlotsHold, HasFlag, Takers
<1>4. InPlaces(w)
  BY <1>1, <1>3, OwnersAssumption, PlacesDiffer DEF InPlaces, Whereabouts
<1> QED
  BY <1>2, <1>3, <1>4 DEF CacheKept

(* A step of one of them leaves the others alone.                             *)
LEMMA NextOwned == Owned /\ [Next]_vars => Owned'
<1> SUFFICES ASSUME Owned, [Next]_vars PROVE Owned'
  OBVIOUS
<1>1. ([DI!Next]_dictVars /\ [HT!Next]_tableVars) /\ ([RC!Next]_cacheVars /\ [ITEM!Next]_itemVars)
  BY DEF Next, vars, ListStep, VectorStep, NodeStep, DictStep, TableStep, BufferStep, CacheStep, ItemStep
<1>2. DictKept' /\ TableKept'
  BY <1>1, NextDict, NextTable DEF Owned
<1>3. CacheKept' /\ ItemKept'
  BY <1>1, NextCache, NextItem DEF Owned
<1> QED
  BY <1>2, <1>3 DEF Owned

(* Every object has one owner: an object that a dictionary holds is in one    *)
(* pair of it and not freed (dtn_dict.c), a hashtable has as many copies of   *)
(* keys as entries (dtn_hashtable.c), an object of a registered cache is in   *)
(* its slots, with a thread or not allocated, and in one of these places only *)
(* while threads get and put with their test of the flag                      *)
(* (dtn_registered_cache.c), and an item of JSON is in one container or in    *)
(* the hands of a user, above itself never (dtn_item.c).                      *)
THEOREM OwnershipCorrect == Spec => []Ownership
<1>1. Init => Owned
  BY InitDict, InitTable, InitCache, InitItem DEF Init, Owned
<1>2. Owned /\ [Next]_vars => Owned'
  BY NextOwned
<1>3. Owned => Ownership
  BY DictOwns, TableCopies, CacheOneOwner, ItemIsTree DEF Owned, Ownership, ItemKept
<1> QED
  BY <1>1, <1>2, <1>3, PTL DEF Spec
=============================================================================
