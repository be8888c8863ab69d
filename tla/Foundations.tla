---------------------------- MODULE Foundations ----------------------------
(***************************************************************************)
(* What the proofs about the components rest on, and no state is in:       *)
(* induction on natural numbers, stated for a set of numbers (such a set   *)
(* is all of Nat, or there is a least number outside it); sums over the    *)
(* first so many elements of a sequence; pairs in chains, counted entries, *)
(* objects that are in one place each; trees and what a call does to them; *)
(* sequences linked both ways.                                             *)
(***************************************************************************)
EXTENDS Integers, Sequences, FiniteSets, FiniteSetTheorems, SequenceTheorems, WellFoundedInduction, TLAPS

(* The least of some natural numbers: finite sets of naturals are well     *)
(* founded under inclusion.                                                *)
LEMMA LeastElement ==
    ASSUME NEW T \in SUBSET Nat, T # {}
    PROVE  \E m \in T : \A k \in T : m <= k
<1> DEFINE Up == {0 .. k : k \in T}
<1>1. Up \subseteq FiniteSubsetsOf(Nat) /\ Up # {}
  <2>1. \A k \in T : IsFiniteSet(0 .. k) /\ 0 .. k \in SUBSET Nat
    BY FS_Interval
  <2>2. \A k \in T : 0 .. k \in FiniteSubsetsOf(Nat)
    BY <2>1 DEF FiniteSubsetsOf
  <2> QED
    BY <2>2
<1>2. IsWellFoundedOn(StrictSubsetOrdering(Nat), FiniteSubsetsOf(Nat))
  BY FS_StrictSubsetOrderingWellFounded
<1> HIDE DEF Up
<1>3. PICK u \in Up : \A v \in Up : ~(<<v, u>> \in StrictSubsetOrdering(Nat))
  BY <1>1, <1>2, WFMin
<1>4. PICK m \in T : u = 0 .. m
  BY <1>3 DEF Up
<1>5. ASSUME NEW k \in T, k < m PROVE FALSE
  <2>1. 0 .. k \in Up
    BY DEF Up
  <2>2. 0 .. k \subseteq 0 .. m /\ 0 .. k # 0 .. m /\ 0 .. k \in SUBSET Nat /\ 0 .. m \in SUBSET Nat
    <3>1. m \in 0 .. m /\ m \notin 0 .. k
      BY <1>5
    <3> QED
      BY <1>5, <3>1
  <2>3. <<0 .. k, 0 .. m>> \in StrictSubsetOrdering(Nat)
    BY <2>2 DEF StrictSubsetOrdering
  <2> QED
    BY <1>3, <1>4, <2>1, <2>3
<1> QED
  BY <1>5

(* Induction on natural numbers, for a set of them. *)
LEMMA InductionOnNat ==
    ASSUME NEW T \in SUBSET Nat, 0 \in T, \A n \in T : n + 1 \in T
    PROVE  T = Nat
<1>1. SUFFICES ASSUME Nat \ T # {} PROVE FALSE
  OBVIOUS
<1>2. PICK m \in Nat \ T : \A k \in Nat \ T : m <= k
  BY <1>1, LeastElement
<1>3. m # 0 /\ m - 1 \in Nat
  BY <1>2
<1>4. m - 1 \in T
  BY <1>2, <1>3
<1> QED
  BY <1>2, <1>3, <1>4

(* There are sums to count up. *)
LEMMA RunningTotal ==
    ASSUME NEW n \in Nat, NEW c \in [1 .. n -> Nat]
    PROVE  \E g \in [0 .. n -> Nat] : g = [k \in 0 .. n |-> IF k = 0 THEN 0 ELSE g[k - 1] + c[k]]
<1> DEFINE Counts(m, g) == g = [k \in 0 .. m |-> IF k = 0 THEN 0 ELSE g[k - 1] + c[k]]
<1> DEFINE T == {m \in Nat : m <= n => \E g \in [0 .. m -> Nat] : Counts(m, g)}
<1>1. 0 \in T
  <2> DEFINE g == [k \in 0 .. 0 |-> 0]
  <2>0. 0 .. 0 = {0}
    OBVIOUS
  <2>1. g \in [0 .. 0 -> Nat] /\ Counts(0, g)
    BY <2>0
  <2> QED
    BY <2>1
<1>2. ASSUME NEW m \in T PROVE m + 1 \in T
  <2> DEFINE Counted(k) == \E h \in [0 .. k -> Nat] : Counts(k, h)
  <2>a. T = {k \in Nat : k <= n => Counted(k)}
    OBVIOUS
  <2> SUFFICES ASSUME m + 1 <= n PROVE Counted(m + 1)
    <3> HIDE DEF Counted, T
    <3> QED
      BY <2>a
  <2>0. m \in Nat /\ m <= n
    OBVIOUS
  <2>1. PICK g \in [0 .. m -> Nat] : Counts(m, g)
    BY <2>0
  <2> DEFINE h == [k \in 0 .. m + 1 |-> IF k = m + 1 THEN g[m] + c[m + 1] ELSE g[k]]
  <2>2. m + 1 \in 1 .. n /\ g[m] + c[m + 1] \in Nat
    OBVIOUS
  <2>3. h \in [0 .. m + 1 -> Nat]
    BY <2>2
  <2>4. ASSUME NEW k \in 0 .. m + 1 PROVE h[k] = IF k = 0 THEN 0 ELSE h[k - 1] + c[k]
    <3>1. CASE k = m + 1
      BY <3>1
    <3>2. CASE k # m + 1
      <4>1. k \in 0 .. m /\ h[k] = g[k]
        BY <3>2
      <4>2. g[k] = IF k = 0 THEN 0 ELSE g[k - 1] + c[k]
        BY <2>1, <4>1
      <4>3. k # 0 => h[k - 1] = g[k - 1]
        BY <4>1
      <4> QED
        BY <4>1, <4>2, <4>3
    <3> QED
      BY <3>1, <3>2
  <2> QED
    BY <2>3, <2>4
<1> HIDE DEF T
<1>3. T = Nat
  <2>1. T \in SUBSET Nat
    BY DEF T
  <2> QED
    BY <1>1, <1>2, <2>1, InductionOnNat
<1>4. n \in T /\ n <= n
  BY <1>3
<1> QED
  BY <1>4 DEF T

(* What never falls has not fallen in the end. *)
LEMMA NeverFalls ==
    ASSUME NEW n \in Nat, NEW s \in [0 .. n -> Nat], \A k \in 1 .. n : s[k - 1] <= s[k],
           NEW j \in 0 .. n
    PROVE  \A k \in j .. n : s[j] <= s[k]
<1> DEFINE T == {d \in Nat : j + d <= n => s[j] <= s[j + d]}
<1>1. 0 \in T
  BY DEF T
<1>2. ASSUME NEW d \in T PROVE d + 1 \in T
  <2> SUFFICES ASSUME j + (d + 1) <= n PROVE s[j] <= s[j + (d + 1)]
    OBVIOUS
  <2>1. d \in Nat /\ j + d \in 0 .. n /\ j + (d + 1) \in 1 .. n /\ (j + (d + 1)) - 1 = j + d
    OBVIOUS
  <2>2. s[j] <= s[j + d] /\ s[j + d] <= s[j + (d + 1)]
    BY <2>1
  <2>3. s[j] \in Nat /\ s[j + d] \in Nat /\ s[j + (d + 1)] \in Nat
    BY <2>1
  <2> HIDE DEF T
  <2> QED
    BY <2>2, <2>3
<1>3. T = Nat
  <2>1. T \in SUBSET Nat
    OBVIOUS
  <2> HIDE DEF T
  <2> QED
    BY <1>1, <1>2, <2>1, InductionOnNat
<1>4. ASSUME NEW k \in j .. n PROVE s[j] <= s[k]
  <2>1. k - j \in Nat /\ j + (k - j) = k
    OBVIOUS
  <2>2. k - j \in T
    BY <1>3, <2>1
  <2> QED
    BY <2>1, <2>2
<1> QED
  BY <1>4

-----------------------------------------------------------------------------
(* The dictionary: no object is in two of its pairs.                          *)
Mentions(p, o) == o = p.key \/ o = p.value
OnlyAt(Slots, ch, o, t, j) == \A s \in Slots : \A i \in 1 .. Len(ch[s]) : Mentions(ch[s][i], o) => s = t /\ i = j
Apart(Slots, none, ch) == \A o : o # none => \E t, j : OnlyAt(Slots, ch, o, t, j)

OfPairs(Slots, Pair, none, ch, own, gone) ==
    /\ ch \in [Slots -> Seq(Pair)]
    /\ Apart(Slots, none, ch)
    /\ \A o : o \in own <=> o # none /\ \E s \in Slots : \E i \in 1 .. Len(ch[s]) : Mentions(ch[s][i], o)
    /\ own \cap gone = {}

(* What is left of a sequence when one element is removed.                    *)
PastGap(i, j) == IF j < i THEN j ELSE j + 1
Without(s, i) == SubSeq(s, 1, i - 1) \o SubSeq(s, i + 1, Len(s))
LEMMA LeftOver ==
    ASSUME NEW Pair, NEW s \in Seq(Pair), NEW i \in 1 .. Len(s)
    PROVE  /\ Without(s, i) \in Seq(Pair) /\ Len(Without(s, i)) = Len(s) - 1
           /\ \A j \in 1 .. Len(s) - 1 : /\ PastGap(i, j) \in 1 .. Len(s) /\ PastGap(i, j) # i
                                        /\ Without(s, i)[j] = s[PastGap(i, j)]
           /\ \A k \in 1 .. Len(s) : k # i => \E j \in 1 .. Len(s) - 1 : PastGap(i, j) = k
<1> DEFINE a == SubSeq(s, 1, i - 1)
<1> DEFINE b == SubSeq(s, i + 1, Len(s))
<1>1. Len(s) \in Nat /\ i \in Nat
  OBVIOUS
<1>2. a \in Seq(Pair) /\ Len(a) = i - 1 /\ \A j \in 1 .. i - 1 : a[j] = s[j]
  BY <1>1
<1>3. b \in Seq(Pair) /\ Len(b) = Len(s) - i /\ \A j \in 1 .. Len(s) - i : b[j] = s[j + i]
  BY <1>1
<1> HIDE DEF a, b
<1>4. /\ a \o b \in Seq(Pair) /\ Len(a \o b) = Len(s) - 1
      /\ \A j \in 1 .. Len(s) - 1 : (a \o b)[j] = IF j <= i - 1 THEN a[j] ELSE b[j - (i - 1)]
  <2>1. /\ a \o b \in Seq(Pair) /\ Len(a \o b) = Len(a) + Len(b)
        /\ \A j \in 1 .. Len(a) + Len(b) : (a \o b)[j] = IF j <= Len(a) THEN a[j] ELSE b[j - Len(a)]
    BY <1>2, <1>3, ConcatProperties
  <2>2. Len(a) + Len(b) = Len(s) - 1
    BY <1>1, <1>2, <1>3
  <2> QED
    BY <1>2, <2>1, <2>2
<1>5. ASSUME NEW j \in 1 .. Len(s) - 1
      PROVE  PastGap(i, j) \in 1 .. Len(s) /\ PastGap(i, j) # i /\ (a \o b)[j] = s[PastGap(i, j)]
  <2>1. CASE j <= i - 1
    BY <1>1, <1>2, <1>4, <2>1 DEF PastGap
  <2>2. CASE ~(j <= i - 1)
    <3>0. j \in Nat /\ j >= i
      BY <1>1, <2>2
    <3>1. j - (i - 1) \in 1 .. Len(s) - i /\ (j - (i - 1)) + i = j + 1
      BY <1>1, <3>0
    <3>2. (a \o b)[j] = b[j - (i - 1)]
      BY <1>1, <1>4, <2>2
    <3> QED
      BY <1>1, <1>3, <3>0, <3>1, <3>2 DEF PastGap
  <2> QED
    BY <1>1, <2>1, <2>2
<1>6. ASSUME NEW k \in 1 .. Len(s), k # i PROVE \E j \in 1 .. Len(s) - 1 : PastGap(i, j) = k
  <2>1. CASE k < i
    <3>1. k \in 1 .. Len(s) - 1 /\ PastGap(i, k) = k
      BY <1>1, <2>1 DEF PastGap
    <3> QED
      BY <3>1
  <2>2. CASE k > i
    <3>1. k - 1 \in 1 .. Len(s) - 1 /\ PastGap(i, k - 1) = k
      BY <1>1, <2>2 DEF PastGap
    <3> QED
      BY <3>1
  <2> QED
    BY <1>1, <1>6, <2>1, <2>2
<1> QED
  BY <1>4, <1>5, <1>6 DEF a, b, Without

(* A pair that is new, or is put in the place of an old one.                  *)
LEMMA PairPut ==
    ASSUME NEW Slots, NEW Pair, NEW none, NEW ch, NEW own, NEW gone, OfPairs(Slots, Pair, none, ch, own, gone),
           NEW p \in Pair, NEW k, NEW v, k = p.key, v = p.value,
           k \notin own, v \notin own, NEW s \in Slots
    PROVE  /\ OfPairs(Slots, Pair, none, [ch EXCEPT ![s] = Append(@, p)],
                     own \cup ({k, v} \ {none}), gone \ {k, v})
           /\ \A i \in 1 .. Len(ch[s]) : \A drop : drop \subseteq {ch[s][i].key, ch[s][i].value} =>
                 OfPairs(Slots, Pair, none, [ch EXCEPT ![s][i] = p],
                        (own \ {ch[s][i].key, ch[s][i].value}) \cup ({k, v} \ {none}),
                        (gone \ {k, v}) \cup drop)
<1>0. \A o : Mentions(p, o) <=> o = k \/ o = v
  BY DEF Mentions
<1>1. ch[s] \in Seq(Pair) /\ Len(ch[s]) \in Nat
  BY DEF OfPairs
<1>2. OfPairs(Slots, Pair, none, [ch EXCEPT ![s] = Append(@, p)], own \cup ({k, v} \ {none}), gone \ {k, v})
  <2> DEFINE new == [ch EXCEPT ![s] = Append(@, p)]
  <2>1. /\ Append(ch[s], p) \in Seq(Pair) /\ Len(Append(ch[s], p)) = Len(ch[s]) + 1
        /\ \A i \in 1 .. Len(ch[s]) + 1 : Append(ch[s], p)[i] = IF i = Len(ch[s]) + 1 THEN p ELSE ch[s][i]
    BY <1>0, <1>1
  <2>2. new \in [Slots -> Seq(Pair)] /\ new[s] = Append(ch[s], p) /\ \A t \in Slots : t # s => new[t] = ch[t]
    BY <2>1 DEF OfPairs
  <2> HIDE DEF new
  <2>3. ASSUME NEW t \in Slots, NEW i \in 1 .. Len(new[t]), ~(t = s /\ i = Len(ch[s]) + 1)
        PROVE  i \in 1 .. Len(ch[t]) /\ new[t][i] = ch[t][i]
    BY <1>1, <2>1, <2>2, <2>3
  <2>4. Len(ch[s]) + 1 \in 1 .. Len(new[s]) /\ new[s][Len(ch[s]) + 1] = p
    BY <1>1, <2>1, <2>2
  <2>5. ASSUME NEW t \in Slots, NEW i \in 1 .. Len(ch[t])
        PROVE  i \in 1 .. Len(new[t]) /\ new[t][i] = ch[t][i]
    <3>1. CASE t = s
      <4>1. i \in 1 .. Len(ch[s]) + 1 /\ i # Len(ch[s]) + 1
        BY <1>1, <3>1
      <4> QED
        BY <2>1, <2>2, <3>1, <4>1
    <3>2. CASE t # s
      BY <2>2, <3>2
    <3> QED
      BY <3>1, <3>2
  <2>6. ASSUME NEW o, o = k \/ o = v, o # none, NEW t \in Slots, NEW i \in 1 .. Len(ch[t])
        PROVE  ~Mentions(ch[t][i], o)
    BY <2>6 DEF OfPairs
  <2>7. Apart(Slots, none, new)
    <3> SUFFICES ASSUME NEW o, o # none PROVE \E t, j : OnlyAt(Slots, new, o, t, j)
      BY DEF Apart
    <3>1. CASE o = k \/ o = v
      <4>1. OnlyAt(Slots, new, o, s, Len(ch[s]) + 1)
        BY <2>3, <2>6, <3>1 DEF OnlyAt
      <4> QED
        BY <4>1
    <3>2. CASE o # k /\ o # v
      <4>1. PICK t, j : OnlyAt(Slots, ch, o, t, j)
        BY DEF OfPairs, Apart
      <4>2. OnlyAt(Slots, new, o, t, j)
        BY <1>0, <2>3, <2>4, <3>2, <4>1 DEF OnlyAt
      <4> QED
        BY <4>2
    <3> QED
      BY <3>1, <3>2
  <2>8. \A o : o \in own \cup ({k, v} \ {none}) <=> o # none /\ \E t \in Slots : \E i \in 1 .. Len(new[t]) : Mentions(new[t][i], o)
    BY <1>0, <2>3, <2>4, <2>5 DEF OfPairs
  <2>9. (own \cup ({k, v} \ {none})) \cap (gone \ {k, v}) = {}
    BY DEF OfPairs
  <2> QED
    BY <2>2, <2>7, <2>8, <2>9 DEF OfPairs, new
<1>3. ASSUME NEW i \in 1 .. Len(ch[s]), NEW drop, drop \subseteq {ch[s][i].key, ch[s][i].value}
      PROVE  OfPairs(Slots, Pair, none, [ch EXCEPT ![s][i] = p], (own \ {ch[s][i].key, ch[s][i].value}) \cup ({k, v} \ {none}),
                    (gone \ {k, v}) \cup drop)
  <2> DEFINE new == [ch EXCEPT ![s][i] = p]
  <2> DEFINE keep == (own \ {ch[s][i].key, ch[s][i].value}) \cup ({k, v} \ {none})
  <2>1. /\ [ch[s] EXCEPT ![i] = p] \in Seq(Pair) /\ Len([ch[s] EXCEPT ![i] = p]) = Len(ch[s])
        /\ \A j \in 1 .. Len(ch[s]) : [ch[s] EXCEPT ![i] = p][j] = IF j = i THEN p ELSE ch[s][j]
    BY <1>0, <1>1, ExceptSeq
  <2>2. new \in [Slots -> Seq(Pair)] /\ new[s] = [ch[s] EXCEPT ![i] = p] /\ \A t \in Slots : t # s => new[t] = ch[t]
    BY <2>1 DEF OfPairs
  <2> HIDE DEF new
  <2>3. \A t \in Slots : Len(new[t]) = Len(ch[t])
    BY <2>1, <2>2
  <2>4. new[s][i] = p /\ \A t \in Slots : \A j \in 1 .. Len(ch[t]) : ~(t = s /\ j = i) => new[t][j] = ch[t][j]
    BY <2>1, <2>2
  <2>5. ASSUME NEW o, o = k \/ o = v, o # none, NEW t \in Slots, NEW j \in 1 .. Len(ch[t])
        PROVE  ~Mentions(ch[t][j], o)
    BY <2>5 DEF OfPairs
  <2>6. Apart(Slots, none, new)
    <3> SUFFICES ASSUME NEW o, o # none PROVE \E t, j : OnlyAt(Slots, new, o, t, j)
      BY DEF Apart
    <3>1. CASE o = k \/ o = v
      <4>1. OnlyAt(Slots, new, o, s, i)
        BY <2>3, <2>4, <2>5, <3>1 DEF OnlyAt
      <4> QED
        BY <4>1
    <3>2. CASE o # k /\ o # v
      <4>1. PICK t, j : OnlyAt(Slots, ch, o, t, j)
        BY DEF OfPairs, Apart
      <4>2. OnlyAt(Slots, new, o, t, j)
        BY <1>0, <2>3, <2>4, <3>2, <4>1 DEF OnlyAt
      <4> QED
        BY <4>2
    <3> QED
      BY <3>1, <3>2
  <2>7. ASSUME NEW o
        PROVE o \in keep <=> o # none /\ \E t \in Slots : \E j \in 1 .. Len(new[t]) : Mentions(new[t][j], o)
    <3>1. CASE o = none
      BY <3>1 DEF OfPairs
    <3>2. CASE o # none /\ (o = k \/ o = v)
      BY <1>0, <2>3, <2>4, <3>2
    <3>3. CASE o # none /\ o # k /\ o # v /\ Mentions(ch[s][i], o)
      <4>1. o \notin keep
        BY <3>3 DEF Mentions
      <4>2. ASSUME NEW t \in Slots, NEW j \in 1 .. Len(new[t]), Mentions(new[t][j], o) PROVE FALSE
        <5>1. PICK t0, j0 : OnlyAt(Slots, ch, o, t0, j0)
          BY <3>3 DEF OfPairs, Apart
        <5>2. s = t0 /\ i = j0
          BY <3>3, <5>1 DEF OnlyAt
        <5>3. CASE t = s /\ j = i
          BY <1>0, <2>4, <3>3, <4>2, <5>3
        <5>4. CASE ~(t = s /\ j = i)
          BY <2>3, <2>4, <4>2, <5>1, <5>2, <5>4 DEF OnlyAt
        <5> QED
          BY <5>3, <5>4
      <4> QED
        BY <4>1, <4>2
    <3>4. CASE o # none /\ o # k /\ o # v /\ ~Mentions(ch[s][i], o)
      <4>1. o \in keep <=> o \in own
        BY <3>4 DEF Mentions
      <4>2. ASSUME NEW t \in Slots, NEW j \in 1 .. Len(ch[t])
            PROVE  Mentions(new[t][j], o) <=> Mentions(ch[t][j], o)
        BY <1>0, <2>4, <3>4
      <4> QED
        BY <2>3, <3>4, <4>1, <4>2 DEF OfPairs
    <3> QED
      BY <3>1, <3>2, <3>3, <3>4
  <2>8. keep \cap ((gone \ {k, v}) \cup drop) = {}
    <3>0. none \notin keep
      BY DEF OfPairs
    <3>1. ASSUME NEW o \in drop, o # none PROVE o \notin {k, v}
      <4>1. Mentions(ch[s][i], o)
        BY <1>3, <3>1 DEF Mentions
      <4> QED
        BY <2>5, <3>1, <4>1
    <3> QED
      BY <1>3, <3>0, <3>1 DEF OfPairs
  <2> QED
    BY <2>2, <2>6, <2>7, <2>8 DEF OfPairs, new
<1> QED
  BY <1>2, <1>3

(* A pair that is taken out.                                                  *)
LEMMA PairOut ==
    ASSUME NEW Slots, NEW Pair, NEW none, NEW ch, NEW own, NEW gone, OfPairs(Slots, Pair, none, ch, own, gone), NEW s \in Slots, NEW i \in 1 .. Len(ch[s]),
           NEW drop, drop \subseteq {ch[s][i].key, ch[s][i].value}
    PROVE  OfPairs(Slots, Pair, none, [ch EXCEPT ![s] = Without(@, i)],
                  own \ {ch[s][i].key, ch[s][i].value}, gone \cup drop)
<1> DEFINE r == Without(ch[s], i)
<1> DEFINE new == [ch EXCEPT ![s] = r]
<1>1. ch[s] \in Seq(Pair)
  BY DEF OfPairs
<1>2. /\ r \in Seq(Pair) /\ Len(r) = Len(ch[s]) - 1
      /\ \A j \in 1 .. Len(r) : PastGap(i, j) \in 1 .. Len(ch[s]) /\ PastGap(i, j) # i /\ r[j] = ch[s][PastGap(i, j)]
      /\ \A k \in 1 .. Len(ch[s]) : k # i => \E j \in 1 .. Len(r) : PastGap(i, j) = k
  <2>1. r \in Seq(Pair) /\ Len(r) = Len(ch[s]) - 1
    BY <1>1, LeftOver
  <2>2. ASSUME NEW j \in 1 .. Len(ch[s]) - 1
        PROVE  PastGap(i, j) \in 1 .. Len(ch[s]) /\ PastGap(i, j) # i /\ r[j] = ch[s][PastGap(i, j)]
    <3>1. PastGap(i, j) \in 1 .. Len(ch[s]) /\ PastGap(i, j) # i
      BY <1>1 DEF PastGap
    <3>2. Without(ch[s], i)[j] = ch[s][PastGap(i, j)]
      BY <1>1, LeftOver
    <3> QED
      BY <3>1, <3>2
  <2>3. ASSUME NEW k \in 1 .. Len(ch[s]), k # i PROVE \E j \in 1 .. Len(ch[s]) - 1 : PastGap(i, j) = k
    BY <1>1, <2>3, LeftOver
  <2> QED
    BY <2>1, <2>2, <2>3
<1> HIDE DEF r
<1>3. \A j, k \in 1 .. Len(r) : PastGap(i, j) = PastGap(i, k) => j = k
  BY <1>2 DEF PastGap
<1>4. new \in [Slots -> Seq(Pair)] /\ new[s] = r /\ \A t \in Slots : t # s => new[t] = ch[t]
  BY <1>2 DEF OfPairs
<1> HIDE DEF new
<1> DEFINE From(t, j) == IF t = s THEN PastGap(i, j) ELSE j
<1>5. ASSUME NEW t \in Slots, NEW j \in 1 .. Len(new[t])
      PROVE  From(t, j) \in 1 .. Len(ch[t]) /\ ~(t = s /\ From(t, j) = i) /\ new[t][j] = ch[t][From(t, j)]
  BY <1>2, <1>4
<1>6. ASSUME NEW t \in Slots, NEW j \in 1 .. Len(new[t]), NEW k \in 1 .. Len(new[t]), From(t, j) = From(t, k)
      PROVE  j = k
  BY <1>3, <1>4, <1>6
<1>7. ASSUME NEW t \in Slots, NEW k \in 1 .. Len(ch[t]), ~(t = s /\ k = i)
      PROVE  \E j \in 1 .. Len(new[t]) : From(t, j) = k
  BY <1>2, <1>4, <1>7
<1> HIDE DEF From
<1>8. Apart(Slots, none, new)
  <2> SUFFICES ASSUME NEW o, o # none PROVE \E t, j : OnlyAt(Slots, new, o, t, j)
    BY DEF Apart
  <2>1. PICK t, j : OnlyAt(Slots, ch, o, t, j)
    BY DEF OfPairs, Apart
  <2>2. OnlyAt(Slots, new, o, t, IF t = s /\ j > i THEN j - 1 ELSE j)
    <3> SUFFICES ASSUME NEW u \in Slots, NEW m \in 1 .. Len(new[u]), Mentions(new[u][m], o)
                 PROVE  u = t /\ m = IF t = s /\ j > i THEN j - 1 ELSE j
      BY DEF OnlyAt
    <3>1. u = t /\ From(u, m) = j
      BY <1>5, <2>1 DEF OnlyAt
    <3> QED
      BY <1>1, <1>4, <3>1 DEF From, PastGap
  <2> QED
    BY <2>2
<1>9. ASSUME NEW o
      PROVE o \in own \ {ch[s][i].key, ch[s][i].value}
              <=> o # none /\ \E t \in Slots : \E j \in 1 .. Len(new[t]) : Mentions(new[t][j], o)
  <2>1. CASE o \in own /\ ~Mentions(ch[s][i], o)
    <3>0. PICK t \in Slots : o # none /\ \E k \in 1 .. Len(ch[t]) : Mentions(ch[t][k], o)
      BY <2>1 DEF OfPairs
    <3>1. PICK k \in 1 .. Len(ch[t]) : Mentions(ch[t][k], o)
      BY <3>0
    <3>2. PICK j \in 1 .. Len(new[t]) : From(t, j) = k
      BY <1>7, <2>1, <3>0, <3>1
    <3>3. Mentions(new[t][j], o)
      BY <1>5, <3>1, <3>2
    <3> QED
      BY <2>1, <3>0, <3>1, <3>3 DEF Mentions
  <2>2. CASE o \notin own
    <3>1. ASSUME NEW t \in Slots, NEW j \in 1 .. Len(new[t]), Mentions(new[t][j], o), o # none PROVE FALSE
      <4>1. Mentions(ch[t][From(t, j)], o) /\ From(t, j) \in 1 .. Len(ch[t])
        BY <1>5, <3>1
      <4> QED
        BY <2>2, <3>1, <4>1 DEF OfPairs
    <3> QED
      BY <2>2, <3>1
  <2>3. CASE Mentions(ch[s][i], o) /\ o # none
    <3>1. o \notin own \ {ch[s][i].key, ch[s][i].value}
      BY <2>3 DEF Mentions
    <3>2. ASSUME NEW t \in Slots, NEW j \in 1 .. Len(new[t]), Mentions(new[t][j], o) PROVE FALSE
      <4>1. Mentions(ch[t][From(t, j)], o) /\ From(t, j) \in 1 .. Len(ch[t]) /\ ~(t = s /\ From(t, j) = i)
        BY <1>5, <3>2
      <4>2. PICK t0, j0 : OnlyAt(Slots, ch, o, t0, j0)
        BY <2>3 DEF OfPairs, Apart
      <4> QED
        BY <2>3, <4>1, <4>2 DEF OnlyAt
    <3> QED
      BY <3>1, <3>2
  <2> QED
    BY <2>1, <2>2, <2>3 DEF OfPairs
<1>10. (own \ {ch[s][i].key, ch[s][i].value}) \cap (gone \cup drop) = {}
  BY DEF OfPairs
<1> QED
  BY <1>4, <1>8, <1>9, <1>10 DEF OfPairs, new, r
-----------------------------------------------------------------------------
(* The places of a function's sequences, and how many there are.              *)
InSequences(B, f) == \A b \in B : Len(f[b]) \in Nat /\ DOMAIN f[b] = 1 .. Len(f[b])
Filled(B, f) == UNION {{b} \X DOMAIN f[b] : b \in B}

(* One more element of one sequence, one less, or another: how many there are. *)
LEMMA FilledOne ==
    ASSUME NEW B, NEW f, NEW g, InSequences(B, f), InSequences(B, g), NEW b \in B,
           \A c \in B \ {b} : g[c] = f[c], IsFiniteSet(Filled(B, f))
    PROVE  /\ IsFiniteSet(Filled(B, f)) /\ Cardinality(Filled(B, f)) \in Nat
           /\ Len(g[b]) = Len(f[b]) => Filled(B, g) = Filled(B, f)
           /\ Len(g[b]) = Len(f[b]) + 1 => /\ IsFiniteSet(Filled(B, g))
                                           /\ Cardinality(Filled(B, g)) = Cardinality(Filled(B, f)) + 1
           /\ Len(f[b]) = Len(g[b]) + 1 => /\ IsFiniteSet(Filled(B, g))
                                           /\ Cardinality(Filled(B, g)) = Cardinality(Filled(B, f)) - 1
<1>0. \A h : InSequences(B, h) => \A p : p \in Filled(B, h) <=> \E c \in B : \E i \in 1 .. Len(h[c]) : p = <<c, i>>
  <2> SUFFICES ASSUME NEW h, InSequences(B, h), NEW p
               PROVE  p \in Filled(B, h) <=> \E c \in B : \E i \in 1 .. Len(h[c]) : p = <<c, i>>
    OBVIOUS
  <2>1. \A c \in B : DOMAIN h[c] = 1 .. Len(h[c])
    BY DEF InSequences
  <2>2. p \in Filled(B, h) <=> \E c \in B : p \in {c} \X DOMAIN h[c]
    BY DEF Filled
  <2> QED
    BY <2>1, <2>2
<1>1. Len(f[b]) \in Nat /\ Len(g[b]) \in Nat /\ Cardinality(Filled(B, f)) \in Nat
  BY FS_CardinalityType DEF InSequences
<1>2. \A c \in B \ {b} : \A i : i \in 1 .. Len(g[c]) <=> i \in 1 .. Len(f[c])
  OBVIOUS
<1>3. ASSUME Len(g[b]) = Len(f[b]) PROVE Filled(B, g) = Filled(B, f)
  <2>1. \A c \in B : DOMAIN g[c] = DOMAIN f[c]
    BY <1>3 DEF InSequences
  <2>2. \A c \in B : {c} \X DOMAIN g[c] = {c} \X DOMAIN f[c]
    BY <2>1
  <2> QED
    BY <2>2 DEF Filled
<1>4. ASSUME Len(g[b]) = Len(f[b]) + 1
      PROVE  Filled(B, g) = Filled(B, f) \cup {<<b, Len(g[b])>>} /\ <<b, Len(g[b])>> \notin Filled(B, f)
  <2>1. \A i : i \in 1 .. Len(g[b]) <=> i \in 1 .. Len(f[b]) \/ i = Len(g[b])
    BY <1>1, <1>4
  <2>2. Len(g[b]) \notin 1 .. Len(f[b])
    BY <1>1, <1>4
  <2>3. <<b, Len(g[b])>> \notin Filled(B, f)
    BY <1>0, <2>2
  <2>4. ASSUME NEW p PROVE p \in Filled(B, g) <=> p \in Filled(B, f) \/ p = <<b, Len(g[b])>>
    BY <1>0, <1>2, <2>1
  <2> QED
    BY <2>3, <2>4
<1>5. ASSUME Len(f[b]) = Len(g[b]) + 1
      PROVE  Filled(B, g) = Filled(B, f) \ {<<b, Len(f[b])>>} /\ <<b, Len(f[b])>> \in Filled(B, f)
  <2>1. \A i : i \in 1 .. Len(g[b]) <=> i \in 1 .. Len(f[b]) /\ i # Len(f[b])
    BY <1>1, <1>5
  <2>2. Len(f[b]) \in 1 .. Len(f[b])
    BY <1>1, <1>5
  <2>3. <<b, Len(f[b])>> \in Filled(B, f)
    BY <1>0, <2>2
  <2>4. ASSUME NEW p PROVE p \in Filled(B, g) <=> p \in Filled(B, f) /\ p # <<b, Len(f[b])>>
    BY <1>0, <1>2, <2>1
  <2> QED
    BY <2>3, <2>4
<1>6. ASSUME Len(g[b]) = Len(f[b]) + 1
      PROVE  IsFiniteSet(Filled(B, g)) /\ Cardinality(Filled(B, g)) = Cardinality(Filled(B, f)) + 1
  BY <1>4, <1>6, FS_AddElement
<1>7. ASSUME Len(f[b]) = Len(g[b]) + 1
      PROVE  IsFiniteSet(Filled(B, g)) /\ Cardinality(Filled(B, g)) = Cardinality(Filled(B, f)) - 1
  BY <1>5, <1>7, FS_RemoveElement
<1> QED
  BY <1>1, <1>3, <1>6, <1>7

-----------------------------------------------------------------------------
(* Objects and their places: w says where each of them is, in a slot below n, *)
(* taken from one, with a call, with a thread, or in the heap.                *)
InSlot(i) == <<"slot", i>>
AtTaker(t) == <<"taken", t>>
WithCall(t) == <<"call", t>>
WithThread(t) == <<"thread", t>>
InHeap == <<"heap", 0>>

Whereabouts(Things, Threads, slot, n, top, takers, inCall, inUse, unused, w) ==
    /\ \A o \in Things :
         /\ \A i \in 0 .. n - 1 : slot[i] = o <=> w[o] = InSlot(i)
         /\ \A t \in Threads : t \in takers /\ top = o <=> w[o] = AtTaker(t)
         /\ \A t \in Threads : inCall[t] = o <=> w[o] = WithCall(t)
         /\ \A t \in Threads : o \in inUse[t] <=> w[o] = WithThread(t)
         /\ o \in unused <=> w[o] = InHeap
         /\ \/ \E i \in 0 .. n - 1 : w[o] = InSlot(i)
            \/ \E t \in Threads : w[o] \in {AtTaker(t), WithCall(t), WithThread(t)}
            \/ w[o] = InHeap

(* No two of the places are one.                                              *)
LEMMA PlacesDiffer ==
    ASSUME NEW i, NEW j, NEW t, NEW u
    PROVE  /\ InSlot(i) = InSlot(j) <=> i = j
           /\ AtTaker(t) = AtTaker(u) <=> t = u
           /\ WithCall(t) = WithCall(u) <=> t = u
           /\ WithThread(t) = WithThread(u) <=> t = u
           /\ InSlot(i) \notin {AtTaker(t), WithCall(t), WithThread(t), InHeap}
           /\ AtTaker(t) \notin {WithCall(u), WithThread(u), InHeap}
           /\ WithCall(t) \notin {WithThread(u), InHeap}
           /\ WithThread(t) # InHeap
BY DEF InSlot, AtTaker, WithCall, WithThread, InHeap

(* What is in the slots not counted, and what was taken by nobody, is no      *)
(* matter.                                                                    *)
LEMMA SameSlots ==
    ASSUME NEW Things, NEW Threads, NEW slot, NEW n \in Nat, NEW top, NEW takers, NEW inCall, NEW inUse, NEW unused, NEW w,
           Whereabouts(Things, Threads, slot, n, top, takers, inCall, inUse, unused, w), takers = {},
           NEW other, \A i \in 0 .. n - 1 : other[i] = slot[i], NEW last
    PROVE  Whereabouts(Things, Threads, other, n, last, {}, inCall, inUse, unused, w)
BY DEF Whereabouts

(* One place makes one in all.                                                *)
LEMMA CountedOnce ==
    ASSUME NEW Things, NEW Threads, NEW slot, NEW n \in Nat, NEW top, NEW takers, NEW inCall, NEW inUse, NEW unused, NEW w,
           Whereabouts(Things, Threads, slot, n, top, takers, inCall, inUse, unused, w), NEW o \in Things
    PROVE  Cardinality({i \in 0 .. n - 1 : slot[i] = o})
             + Cardinality({t \in Threads : t \in takers /\ top = o})
             + Cardinality({t \in Threads : inCall[t] = o}) + Cardinality({t \in Threads : o \in inUse[t]})
             + (IF o \in unused THEN 1 ELSE 0) = 1
<1> DEFINE A == {i \in 0 .. n - 1 : slot[i] = o}
<1> DEFINE B == {t \in Threads : t \in takers /\ top = o}
<1> DEFINE C == {t \in Threads : inCall[t] = o}
<1> DEFINE D == {t \in Threads : o \in inUse[t]}
<1> SUFFICES Cardinality(A) + Cardinality(B) + Cardinality(C) + Cardinality(D) + (IF o \in unused THEN 1 ELSE 0) = 1
  OBVIOUS
<1>1. /\ A = {i \in 0 .. n - 1 : w[o] = InSlot(i)} /\ B = {t \in Threads : w[o] = AtTaker(t)}
      /\ C = {t \in Threads : w[o] = WithCall(t)} /\ D = {t \in Threads : w[o] = WithThread(t)}
      /\ o \in unused <=> w[o] = InHeap
  BY DEF Whereabouts
<1> HIDE DEF A, B, C, D
<1>0. Cardinality({}) = 0 /\ \A x : Cardinality({x}) = 1
  BY FS_EmptySet, FS_Singleton
<1>2. CASE \E i \in 0 .. n - 1 : w[o] = InSlot(i)
  <2>1. PICK i \in 0 .. n - 1 : w[o] = InSlot(i)
    BY <1>2
  <2>2. A = {i} /\ B = {} /\ C = {} /\ D = {} /\ o \notin unused
    BY <1>1, <2>1, PlacesDiffer
  <2>3. Cardinality(A) = 1 /\ Cardinality(B) = 0 /\ Cardinality(C) = 0 /\ Cardinality(D) = 0
    BY <1>0, <2>2
  <2> QED
    BY <2>2, <2>3
<1>3. CASE \E t \in Threads : w[o] = AtTaker(t)
  <2>1. PICK t \in Threads : w[o] = AtTaker(t)
    BY <1>3
  <2>2. A = {} /\ B = {t} /\ C = {} /\ D = {} /\ o \notin unused
    BY <1>1, <2>1, PlacesDiffer
  <2>3. Cardinality(A) = 0 /\ Cardinality(B) = 1 /\ Cardinality(C) = 0 /\ Cardinality(D) = 0
    BY <1>0, <2>2
  <2> QED
    BY <2>2, <2>3
<1>4. CASE \E t \in Threads : w[o] = WithCall(t)
  <2>1. PICK t \in Threads : w[o] = WithCall(t)
    BY <1>4
  <2>2. A = {} /\ B = {} /\ C = {t} /\ D = {} /\ o \notin unused
    BY <1>1, <2>1, PlacesDiffer
  <2>3. Cardinality(A) = 0 /\ Cardinality(B) = 0 /\ Cardinality(C) = 1 /\ Cardinality(D) = 0
    BY <1>0, <2>2
  <2> QED
    BY <2>2, <2>3
<1>5. CASE \E t \in Threads : w[o] = WithThread(t)
  <2>1. PICK t \in Threads : w[o] = WithThread(t)
    BY <1>5
  <2>2. A = {} /\ B = {} /\ C = {} /\ D = {t} /\ o \notin unused
    BY <1>1, <2>1, PlacesDiffer
  <2>3. Cardinality(A) = 0 /\ Cardinality(B) = 0 /\ Cardinality(C) = 0 /\ Cardinality(D) = 1
    BY <1>0, <2>2
  <2> QED
    BY <2>2, <2>3
<1>6. CASE w[o] = InHeap
  <2>2. A = {} /\ B = {} /\ C = {} /\ D = {} /\ o \in unused
    BY <1>1, <1>6, PlacesDiffer
  <2>3. Cardinality(A) = 0 /\ Cardinality(B) = 0 /\ Cardinality(C) = 0 /\ Cardinality(D) = 0
    BY <1>0, <2>2
  <2> QED
    BY <2>2, <2>3
<1> QED
  BY <1>2, <1>3, <1>4, <1>5, <1>6 DEF Whereabouts

(* A call takes an object of its thread.                                      *)
LEMMA CallTakes ==
    ASSUME NEW Things, NEW Threads, NEW slot, NEW n \in Nat, NEW top, NEW takers,
           NEW inCall, DOMAIN inCall = Threads, NEW inUse, DOMAIN inUse = Threads, NEW unused, NEW w,
           Whereabouts(Things, Threads, slot, n, top, takers, inCall, inUse, unused, w),
           NEW t \in Threads, NEW o \in Things, o \in inUse[t], inCall[t] \notin Things
    PROVE  \E v : Whereabouts(Things, Threads, slot, n, top, takers,
                             [inCall EXCEPT ![t] = o], [inUse EXCEPT ![t] = @ \ {o}], unused, v)
<1> DEFINE v == [x \in Things |-> IF x = o THEN WithCall(t) ELSE w[x]]
<1> DEFINE inCallNew == [inCall EXCEPT ![t] = o]
<1> DEFINE inUseNew == [inUse EXCEPT ![t] = @ \ {o}]
<1>1. ASSUME NEW x \in Things, x # o
      PROVE  /\ v[x] = w[x]
             /\ \A i \in 0 .. n - 1 : slot[i] = x <=> v[x] = InSlot(i)
             /\ \A u \in Threads : u \in takers /\ top = x <=> v[x] = AtTaker(u)
             /\ \A u \in Threads : inCallNew[u] = x <=> v[x] = WithCall(u)
             /\ \A u \in Threads : x \in inUseNew[u] <=> v[x] = WithThread(u)
             /\ x \in unused <=> v[x] = InHeap
             /\ \/ \E i \in 0 .. n - 1 : v[x] = InSlot(i)
                \/ \E u \in Threads : v[x] \in {AtTaker(u), WithCall(u), WithThread(u)}
                \/ v[x] = InHeap
  BY <1>1 DEF Whereabouts
<1>2. /\ \A i \in 0 .. n - 1 : slot[i] = o <=> v[o] = InSlot(i)
      /\ \A u \in Threads : u \in takers /\ top = o <=> v[o] = AtTaker(u)
      /\ \A u \in Threads : inCallNew[u] = o <=> v[o] = WithCall(u)
      /\ \A u \in Threads : o \in inUseNew[u] <=> v[o] = WithThread(u)
      /\ o \in unused <=> v[o] = InHeap
  BY PlacesDiffer DEF Whereabouts
<1>3. Whereabouts(Things, Threads, slot, n, top, takers, inCallNew, inUseNew, unused, v)
  BY <1>1, <1>2 DEF Whereabouts
<1> QED
  BY <1>3

(* The count goes down and a call takes what was in the last slot.            *)
LEMMA SlotIsTaken ==
    ASSUME NEW Things, NEW Threads, NEW slot, NEW n \in Nat, NEW top, NEW takers,
           NEW inCall, DOMAIN inCall = Threads, NEW inUse, DOMAIN inUse = Threads, NEW unused, NEW w,
           Whereabouts(Things, Threads, slot, n, top, takers, inCall, inUse, unused, w),
           NEW t \in Threads, n # 0, takers = {}, NEW o \in Things, slot[n - 1] = o
    PROVE  \E v : Whereabouts(Things, Threads, slot, (n - 1), slot[n - 1], {t},
                             inCall, inUse, unused, v)
<1> DEFINE v == [x \in Things |-> IF x = o THEN AtTaker(t) ELSE w[x]]
<1> DEFINE nNew == (n - 1)
<1> DEFINE topNew == slot[n - 1]
<1> DEFINE takersNew == {t}
<1>1. ASSUME NEW x \in Things, x # o
      PROVE  /\ v[x] = w[x]
             /\ \A i \in 0 .. nNew - 1 : slot[i] = x <=> v[x] = InSlot(i)
             /\ \A u \in Threads : u \in takersNew /\ topNew = x <=> v[x] = AtTaker(u)
             /\ \A u \in Threads : inCall[u] = x <=> v[x] = WithCall(u)
             /\ \A u \in Threads : x \in inUse[u] <=> v[x] = WithThread(u)
             /\ x \in unused <=> v[x] = InHeap
             /\ \/ \E i \in 0 .. nNew - 1 : v[x] = InSlot(i)
                \/ \E u \in Threads : v[x] \in {AtTaker(u), WithCall(u), WithThread(u)}
                \/ v[x] = InHeap
  BY <1>1 DEF Whereabouts
<1>2. /\ \A i \in 0 .. nNew - 1 : slot[i] = o <=> v[o] = InSlot(i)
      /\ \A u \in Threads : u \in takersNew /\ topNew = o <=> v[o] = AtTaker(u)
      /\ \A u \in Threads : inCall[u] = o <=> v[o] = WithCall(u)
      /\ \A u \in Threads : o \in inUse[u] <=> v[o] = WithThread(u)
      /\ o \in unused <=> v[o] = InHeap
  BY PlacesDiffer DEF Whereabouts
<1>3. Whereabouts(Things, Threads, slot, nNew, topNew, takersNew, inCall, inUse, unused, v)
  BY <1>1, <1>2 DEF Whereabouts
<1> QED
  BY <1>3

(* The call has read it.                                                      *)
LEMMA TakenIsRead ==
    ASSUME NEW Things, NEW Threads, NEW slot, NEW n \in Nat, NEW top, NEW takers,
           NEW inCall, DOMAIN inCall = Threads, NEW inUse, DOMAIN inUse = Threads, NEW unused, NEW w,
           Whereabouts(Things, Threads, slot, n, top, takers, inCall, inUse, unused, w),
           NEW t \in Threads, takers = {t}, NEW o \in Things, top = o, inCall[t] \notin Things
    PROVE  \E v : Whereabouts(Things, Threads, slot, n, top, {},
                             [inCall EXCEPT ![t] = o], inUse, unused, v)
<1> DEFINE v == [x \in Things |-> IF x = o THEN WithCall(t) ELSE w[x]]
<1> DEFINE takersNew == {}
<1> DEFINE inCallNew == [inCall EXCEPT ![t] = o]
<1>1. ASSUME NEW x \in Things, x # o
      PROVE  /\ v[x] = w[x]
             /\ \A i \in 0 .. n - 1 : slot[i] = x <=> v[x] = InSlot(i)
             /\ \A u \in Threads : u \in takersNew /\ top = x <=> v[x] = AtTaker(u)
             /\ \A u \in Threads : inCallNew[u] = x <=> v[x] = WithCall(u)
             /\ \A u \in Threads : x \in inUse[u] <=> v[x] = WithThread(u)
             /\ x \in unused <=> v[x] = InHeap
             /\ \/ \E i \in 0 .. n - 1 : v[x] = InSlot(i)
                \/ \E u \in Threads : v[x] \in {AtTaker(u), WithCall(u), WithThread(u)}
                \/ v[x] = InHeap
  BY <1>1 DEF Whereabouts
<1>2. /\ \A i \in 0 .. n - 1 : slot[i] = o <=> v[o] = InSlot(i)
      /\ \A u \in Threads : u \in takersNew /\ top = o <=> v[o] = AtTaker(u)
      /\ \A u \in Threads : inCallNew[u] = o <=> v[o] = WithCall(u)
      /\ \A u \in Threads : o \in inUse[u] <=> v[o] = WithThread(u)
      /\ o \in unused <=> v[o] = InHeap
  BY PlacesDiffer DEF Whereabouts
<1>3. Whereabouts(Things, Threads, slot, n, top, takersNew, inCallNew, inUse, unused, v)
  BY <1>1, <1>2 DEF Whereabouts
<1> QED
  BY <1>3

(* What a call wrote behind the others is counted.                            *)
LEMMA SlotIsFilled ==
    ASSUME NEW Things, NEW Threads, NEW slot, NEW n \in Nat, NEW top, NEW takers,
           NEW inCall, DOMAIN inCall = Threads, NEW inUse, DOMAIN inUse = Threads, NEW unused, NEW w,
           Whereabouts(Things, Threads, slot, n, top, takers, inCall, inUse, unused, w),
           NEW t \in Threads, NEW o \in Things, inCall[t] = o, slot[n] = o, takers = {}, NEW none, none \notin Things, NEW last
    PROVE  \E v : Whereabouts(Things, Threads, slot, (n + 1), last, takers,
                             [inCall EXCEPT ![t] = none], inUse, unused, v)
<1> DEFINE v == [x \in Things |-> IF x = o THEN InSlot(n) ELSE w[x]]
<1> DEFINE nNew == (n + 1)
<1> DEFINE topNew == last
<1> DEFINE inCallNew == [inCall EXCEPT ![t] = none]
<1>0. \A i : i \in 0 .. nNew - 1 <=> i \in 0 .. n - 1 \/ i = n
  OBVIOUS
<1> HIDE DEF nNew
<1>n. ASSUME NEW x \in Things PROVE w[x] # InSlot(n)
  <2>1. n \notin 0 .. n - 1
    OBVIOUS
  <2> QED
    BY <2>1, PlacesDiffer DEF Whereabouts
<1>1. ASSUME NEW x \in Things, x # o
      PROVE  /\ v[x] = w[x]
             /\ \A i \in 0 .. nNew - 1 : slot[i] = x <=> v[x] = InSlot(i)
             /\ \A u \in Threads : u \in takers /\ topNew = x <=> v[x] = AtTaker(u)
             /\ \A u \in Threads : inCallNew[u] = x <=> v[x] = WithCall(u)
             /\ \A u \in Threads : x \in inUse[u] <=> v[x] = WithThread(u)
             /\ x \in unused <=> v[x] = InHeap
             /\ \/ \E i \in 0 .. nNew - 1 : v[x] = InSlot(i)
                \/ \E u \in Threads : v[x] \in {AtTaker(u), WithCall(u), WithThread(u)}
                \/ v[x] = InHeap
  BY <1>0, <1>n, <1>1 DEF Whereabouts
<1>2. /\ \A i \in 0 .. nNew - 1 : slot[i] = o <=> v[o] = InSlot(i)
      /\ \A u \in Threads : u \in takers /\ topNew = o <=> v[o] = AtTaker(u)
      /\ \A u \in Threads : inCallNew[u] = o <=> v[o] = WithCall(u)
      /\ \A u \in Threads : o \in inUse[u] <=> v[o] = WithThread(u)
      /\ o \in unused <=> v[o] = InHeap
  BY <1>0, PlacesDiffer DEF Whereabouts
<1>3. Whereabouts(Things, Threads, slot, nNew, topNew, takers, inCallNew, inUse, unused, v)
  BY <1>0, <1>1, <1>2 DEF Whereabouts
<1> QED
  BY <1>3 DEF nNew

(* A thread gets what its call has.                                           *)
LEMMA CallGives ==
    ASSUME NEW Things, NEW Threads, NEW slot, NEW n \in Nat, NEW top, NEW takers,
           NEW inCall, DOMAIN inCall = Threads, NEW inUse, DOMAIN inUse = Threads, NEW unused, NEW w,
           Whereabouts(Things, Threads, slot, n, top, takers, inCall, inUse, unused, w),
           NEW t \in Threads, NEW o \in Things, inCall[t] = o, NEW none, none \notin Things
    PROVE  \E v : Whereabouts(Things, Threads, slot, n, top, takers,
                             [inCall EXCEPT ![t] = none], [inUse EXCEPT ![t] = @ \cup {o}], unused, v)
<1> DEFINE v == [x \in Things |-> IF x = o THEN WithThread(t) ELSE w[x]]
<1> DEFINE inCallNew == [inCall EXCEPT ![t] = none]
<1> DEFINE inUseNew == [inUse EXCEPT ![t] = @ \cup {o}]
<1>1. ASSUME NEW x \in Things, x # o
      PROVE  /\ v[x] = w[x]
             /\ \A i \in 0 .. n - 1 : slot[i] = x <=> v[x] = InSlot(i)
             /\ \A u \in Threads : u \in takers /\ top = x <=> v[x] = AtTaker(u)
             /\ \A u \in Threads : inCallNew[u] = x <=> v[x] = WithCall(u)
             /\ \A u \in Threads : x \in inUseNew[u] <=> v[x] = WithThread(u)
             /\ x \in unused <=> v[x] = InHeap
             /\ \/ \E i \in 0 .. n - 1 : v[x] = InSlot(i)
                \/ \E u \in Threads : v[x] \in {AtTaker(u), WithCall(u), WithThread(u)}
                \/ v[x] = InHeap
  BY <1>1 DEF Whereabouts
<1>2. /\ \A i \in 0 .. n - 1 : slot[i] = o <=> v[o] = InSlot(i)
      /\ \A u \in Threads : u \in takers /\ top = o <=> v[o] = AtTaker(u)
      /\ \A u \in Threads : inCallNew[u] = o <=> v[o] = WithCall(u)
      /\ \A u \in Threads : o \in inUseNew[u] <=> v[o] = WithThread(u)
      /\ o \in unused <=> v[o] = InHeap
  BY PlacesDiffer DEF Whereabouts
<1>3. Whereabouts(Things, Threads, slot, n, top, takers, inCallNew, inUseNew, unused, v)
  BY <1>1, <1>2 DEF Whereabouts
<1> QED
  BY <1>3

(* A call frees what it has.                                                  *)
LEMMA CallFrees ==
    ASSUME NEW Things, NEW Threads, NEW slot, NEW n \in Nat, NEW top, NEW takers,
           NEW inCall, DOMAIN inCall = Threads, NEW inUse, DOMAIN inUse = Threads, NEW unused, NEW w,
           Whereabouts(Things, Threads, slot, n, top, takers, inCall, inUse, unused, w),
           NEW t \in Threads, NEW o \in Things, inCall[t] = o, NEW none, none \notin Things
    PROVE  \E v : Whereabouts(Things, Threads, slot, n, top, takers,
                             [inCall EXCEPT ![t] = none], inUse, (unused \cup {o}), v)
<1> DEFINE v == [x \in Things |-> IF x = o THEN InHeap ELSE w[x]]
<1> DEFINE inCallNew == [inCall EXCEPT ![t] = none]
<1> DEFINE unusedNew == (unused \cup {o})
<1>1. ASSUME NEW x \in Things, x # o
      PROVE  /\ v[x] = w[x]
             /\ \A i \in 0 .. n - 1 : slot[i] = x <=> v[x] = InSlot(i)
             /\ \A u \in Threads : u \in takers /\ top = x <=> v[x] = AtTaker(u)
             /\ \A u \in Threads : inCallNew[u] = x <=> v[x] = WithCall(u)
             /\ \A u \in Threads : x \in inUse[u] <=> v[x] = WithThread(u)
             /\ x \in unusedNew <=> v[x] = InHeap
             /\ \/ \E i \in 0 .. n - 1 : v[x] = InSlot(i)
                \/ \E u \in Threads : v[x] \in {AtTaker(u), WithCall(u), WithThread(u)}
                \/ v[x] = InHeap
  BY <1>1 DEF Whereabouts
<1>2. /\ \A i \in 0 .. n - 1 : slot[i] = o <=> v[o] = InSlot(i)
      /\ \A u \in Threads : u \in takers /\ top = o <=> v[o] = AtTaker(u)
      /\ \A u \in Threads : inCallNew[u] = o <=> v[o] = WithCall(u)
      /\ \A u \in Threads : o \in inUse[u] <=> v[o] = WithThread(u)
      /\ o \in unusedNew <=> v[o] = InHeap
  BY PlacesDiffer DEF Whereabouts
<1>3. Whereabouts(Things, Threads, slot, n, top, takers, inCallNew, inUse, unusedNew, v)
  BY <1>1, <1>2 DEF Whereabouts
<1> QED
  BY <1>3

(* A thread allocates.                                                        *)
LEMMA ThreadAllocates ==
    ASSUME NEW Things, NEW Threads, NEW slot, NEW n \in Nat, NEW top, NEW takers,
           NEW inCall, DOMAIN inCall = Threads, NEW inUse, DOMAIN inUse = Threads, NEW unused, NEW w,
           Whereabouts(Things, Threads, slot, n, top, takers, inCall, inUse, unused, w),
           NEW t \in Threads, NEW o \in Things, o \in unused
    PROVE  \E v : Whereabouts(Things, Threads, slot, n, top, takers,
                             inCall, [inUse EXCEPT ![t] = @ \cup {o}], (unused \ {o}), v)
<1> DEFINE v == [x \in Things |-> IF x = o THEN WithThread(t) ELSE w[x]]
<1> DEFINE inUseNew == [inUse EXCEPT ![t] = @ \cup {o}]
<1> DEFINE unusedNew == (unused \ {o})
<1>1. ASSUME NEW x \in Things, x # o
      PROVE  /\ v[x] = w[x]
             /\ \A i \in 0 .. n - 1 : slot[i] = x <=> v[x] = InSlot(i)
             /\ \A u \in Threads : u \in takers /\ top = x <=> v[x] = AtTaker(u)
             /\ \A u \in Threads : inCall[u] = x <=> v[x] = WithCall(u)
             /\ \A u \in Threads : x \in inUseNew[u] <=> v[x] = WithThread(u)
             /\ x \in unusedNew <=> v[x] = InHeap
             /\ \/ \E i \in 0 .. n - 1 : v[x] = InSlot(i)
                \/ \E u \in Threads : v[x] \in {AtTaker(u), WithCall(u), WithThread(u)}
                \/ v[x] = InHeap
  BY <1>1 DEF Whereabouts
<1>2. /\ \A i \in 0 .. n - 1 : slot[i] = o <=> v[o] = InSlot(i)
      /\ \A u \in Threads : u \in takers /\ top = o <=> v[o] = AtTaker(u)
      /\ \A u \in Threads : inCall[u] = o <=> v[o] = WithCall(u)
      /\ \A u \in Threads : o \in inUseNew[u] <=> v[o] = WithThread(u)
      /\ o \in unusedNew <=> v[o] = InHeap
  BY PlacesDiffer DEF Whereabouts
<1>3. Whereabouts(Things, Threads, slot, n, top, takers, inCall, inUseNew, unusedNew, v)
  BY <1>1, <1>2 DEF Whereabouts
<1> QED
  BY <1>3

(* All that is in the slots is freed.                                        *)
LEMMA SlotsAreFreed ==
    ASSUME NEW Things, NEW Threads, NEW slot, NEW n \in Nat, NEW top, NEW takers, NEW inCall, NEW inUse, NEW unused, NEW w,
           Whereabouts(Things, Threads, slot, n, top, takers, inCall, inUse, unused, w), takers = {}, NEW last,
           NEW more, \A x : x \in more <=> \E i \in 0 .. n - 1 : x = slot[i]
    PROVE  \E v : Whereabouts(Things, Threads, slot, 0, last, takers, inCall, inUse,
                             unused \cup more, v)
<1> DEFINE In(x) == \E i \in 0 .. n - 1 : w[x] = InSlot(i)
<1> DEFINE v == [x \in Things |-> IF In(x) THEN InHeap ELSE w[x]]
<1> DEFINE freed == unused \cup more
<1>0. 0 .. 0 - 1 = {}
  OBVIOUS
<1>1. ASSUME NEW x \in Things, In(x)
      PROVE  /\ \A u \in Threads : inCall[u] = x <=> v[x] = WithCall(u)
             /\ \A u \in Threads : x \in inUse[u] <=> v[x] = WithThread(u)
             /\ v[x] = InHeap /\ x \in freed /\ \A u : v[x] # AtTaker(u)
  <2>1. PICK i \in 0 .. n - 1 : w[x] = InSlot(i)
    BY <1>1
  <2>2. v[x] = InHeap /\ slot[i] = x
    BY <1>1, <2>1 DEF Whereabouts
  <2> QED
    BY <2>1, <2>2, PlacesDiffer DEF Whereabouts
<1>2. ASSUME NEW x \in Things, ~In(x)
      PROVE  /\ \A u \in Threads : inCall[u] = x <=> v[x] = WithCall(u)
             /\ \A u \in Threads : x \in inUse[u] <=> v[x] = WithThread(u)
             /\ \A u \in Threads : v[x] # AtTaker(u)
             /\ x \in freed <=> v[x] = InHeap
             /\ \/ \E u \in Threads : v[x] \in {AtTaker(u), WithCall(u), WithThread(u)}
                \/ v[x] = InHeap
  <2>1. v[x] = w[x] /\ x \notin more
    BY <1>2 DEF Whereabouts
  <2> QED
    BY <1>2, <2>1 DEF Whereabouts
<1> HIDE DEF In
<1>3. Whereabouts(Things, Threads, slot, 0, last, takers, inCall, inUse, freed, v)
  BY <1>0, <1>1, <1>2 DEF Whereabouts
<1> QED
  BY <1>3

-----------------------------------------------------------------------------
(* A forest: every live node is in hand or at the end of one edge <<holder,   *)
(* place, node>>, and no set of nodes holds all of itself.                    *)
NoLoop(live, S) ==
    \A X \in SUBSET live : X # {} => \E x \in X : \A e \in S : e[3] = x => e[1] \notin X

Forest(live, inHand, S) ==
    /\ inHand \subseteq live
    /\ \A e \in S : e = <<e[1], e[2], e[3]>> /\ e[1] \in live /\ e[3] \in live /\ e[3] \notin inHand
    /\ \A e, f \in S : e[3] = f[3] => e = f
    /\ \A n \in live : n \notin inHand => \E e \in S : e[3] = n
    /\ NoLoop(live, S)

(* A node and what is below it.                                               *)
Subtree(live, S, n, U) ==
    /\ n \in U /\ U \subseteq live
    /\ \A e \in S : e[1] \in U => e[3] \in U
    /\ \A x \in U : x = n \/ \E e \in S : e[3] = x /\ e[1] \in U

(* What holds a node is not below it.                                         *)
LEMMA HolderAbove ==
    ASSUME NEW live, NEW inHand, NEW S, Forest(live, inHand, S), NEW n, NEW U, Subtree(live, S, n, U)
    PROVE  /\ \A e \in S : e[3] = n => e[1] \notin U
           /\ \A e \in S : e[3] \in U /\ e[3] # n => e[1] \in U
           /\ \A m \in inHand : m \in U => m = n
<1>1. U \in SUBSET live /\ U # {}
  BY DEF Subtree
<1>2. PICK x \in U : \A e \in S : e[3] = x => e[1] \notin U
  BY <1>1 DEF Forest, NoLoop
<1>3. x = n
  BY <1>2 DEF Subtree
<1>4. ASSUME NEW e \in S, e[3] \in U, e[3] # n PROVE e[1] \in U
  <2>1. PICK f \in S : f[3] = e[3] /\ f[1] \in U
    BY <1>4 DEF Subtree
  <2>2. e = f
    BY <2>1 DEF Forest
  <2> QED
    BY <2>1, <2>2
<1>5. ASSUME NEW m \in inHand, m \in U, m # n PROVE FALSE
  <2>1. PICK f \in S : f[3] = m
    BY <1>5 DEF Subtree
  <2> QED
    BY <2>1 DEF Forest
<1> QED
  BY <1>2, <1>3, <1>4, <1>5

(* A new node is in hand.                                                     *)
LEMMA NodeCreated ==
    ASSUME NEW live, NEW inHand, NEW S, Forest(live, inHand, S), NEW n, n \notin live
    PROVE  Forest(live \cup {n}, inHand \cup {n}, S)
<1>1. NoLoop(live \cup {n}, S)
  <2> SUFFICES ASSUME NEW X \in SUBSET (live \cup {n}), X # {}
               PROVE  \E x \in X : \A e \in S : e[3] = x => e[1] \notin X
    BY DEF NoLoop
  <2>1. CASE n \in X
    BY <2>1 DEF Forest
  <2>2. CASE n \notin X
    <3>1. X \in SUBSET live
      BY <2>2
    <3> QED
      BY <3>1 DEF Forest, NoLoop
  <2> QED
    BY <2>1, <2>2
<1> QED
  BY <1>1 DEF Forest

(* Fewer nodes and fewer edges make no loop.                                  *)
LEMMA NoLoopIn ==
    ASSUME NEW live, NEW S, NoLoop(live, S), NEW L, L \subseteq live, NEW T, T \subseteq S
    PROVE  NoLoop(L, T)
<1> SUFFICES ASSUME NEW X \in SUBSET L, X # {} PROVE \E x \in X : \A e \in T : e[3] = x => e[1] \notin X
  BY DEF NoLoop
<1>1. X \in SUBSET live
  OBVIOUS
<1>2. PICK x \in X : \A e \in S : e[3] = x => e[1] \notin X
  BY <1>1 DEF NoLoop
<1> QED
  BY <1>2

(* Freed with all below.                                                      *)
LEMMA NodeFreed ==
    ASSUME NEW live, NEW inHand, NEW S, Forest(live, inHand, S), NEW n \in inHand, NEW U, Subtree(live, S, n, U),
           NEW T, \A e : e \in T <=> e \in S /\ e[1] \notin U
    PROVE  Forest(live \ U, inHand \ {n}, T)
<1>1. \A e \in T : e[3] \notin U
  BY HolderAbove DEF Forest
<1>2. \A m \in live \ U : m \notin inHand \ {n} => \E e \in T : e[3] = m
  BY DEF Forest, Subtree
<1>3. inHand \ {n} \subseteq live \ U
  BY HolderAbove DEF Forest
<1>4. NoLoop(live \ U, T)
  BY NoLoopIn DEF Forest
<1> QED
  BY <1>1, <1>2, <1>3, <1>4 DEF Forest

(* A node is taken off the edge that it is at the end of, into the hand.      *)
LEMMA NodeTaken ==
    ASSUME NEW live, NEW inHand, NEW S, Forest(live, inHand, S), NEW e \in S
    PROVE  Forest(live, inHand \cup {e[3]}, S \ {e})
<1>1. NoLoop(live, S \ {e})
  BY NoLoopIn DEF Forest
<1> QED
  BY <1>1 DEF Forest

(* The node at the end of an edge is freed with all below.                    *)
LEMMA NodeDeleted ==
    ASSUME NEW live, NEW inHand, NEW S, Forest(live, inHand, S), NEW e \in S, NEW U, Subtree(live, S, e[3], U),
           NEW T, \A f : f \in T <=> f \in S /\ f[1] \notin U /\ f # e
    PROVE  Forest(live \ U, inHand, T) /\ e[1] \notin U
<1>1. \A f \in T : f[3] \notin U
  BY HolderAbove DEF Forest
<1>2. \A m \in live \ U : m \notin inHand => \E f \in T : f[3] = m
  BY DEF Forest, Subtree
<1>3. inHand \subseteq live \ U
  BY HolderAbove DEF Forest
<1>4. NoLoop(live \ U, T)
  BY NoLoopIn DEF Forest
<1>5. e[1] \notin U
  BY HolderAbove
<1> QED
  BY <1>1, <1>2, <1>3, <1>4, <1>5 DEF Forest

(* A node in hand is put where it does not hold its holder.                   *)
LEMMA NodePut ==
    ASSUME NEW live, NEW inHand, NEW S, Forest(live, inHand, S), NEW n \in inHand, NEW U, Subtree(live, S, n, U),
           NEW c \in live, c \notin U, NEW s
    PROVE  Forest(live, inHand \ {n}, S \cup {<<c, s, n>>})
<1> DEFINE T == S \cup {<<c, s, n>>}
<1>1. \A e \in T : e = <<e[1], e[2], e[3]>> /\ e[1] \in live /\ e[3] \in live /\ e[3] \notin inHand \ {n}
  BY DEF Forest
<1>2. \A e, f \in T : e[3] = f[3] => e = f
  BY DEF Forest
<1>3. ASSUME NEW m \in live, m \notin inHand \ {n} PROVE \E e \in T : e[3] = m
  <2>1. CASE m = n
    <3>1. <<c, s, n>> \in T /\ <<c, s, n>>[3] = m
      BY <2>1
    <3> QED
      BY <3>1
  <2>2. CASE m # n
    BY <1>3, <2>2 DEF Forest
  <2> QED
    BY <2>1, <2>2
<1>4. NoLoop(live, T)
  <2> SUFFICES ASSUME NEW X \in SUBSET live, X # {} PROVE \E x \in X : \A e \in T : e[3] = x => e[1] \notin X
    BY DEF NoLoop
  <2>1. CASE c \notin X
    <3>1. PICK x \in X : \A e \in S : e[3] = x => e[1] \notin X
      BY DEF Forest, NoLoop
    <3>2. \A e \in T : e[3] = x => e[1] \notin X
      BY <2>1, <3>1
    <3> QED
      BY <3>2
  <2>2. CASE c \in X
    <3>1. X \ U \in SUBSET live /\ X \ U # {}
      BY <2>2
    <3>2. PICK x \in X \ U : \A e \in S : e[3] = x => e[1] \notin X \ U
      BY <3>1 DEF Forest, NoLoop
    <3>3. \A e \in S : e[3] = x => e[1] \notin U
      BY <3>2 DEF Subtree
    <3>4. x # n
      BY <3>2 DEF Subtree
    <3>5. \A e \in T : e[3] = x => e[1] \notin X
      BY <3>2, <3>3, <3>4
    <3> QED
      BY <3>2, <3>5
  <2> QED
    BY <2>1, <2>2
<1> QED
  BY <1>1, <1>2, <1>3, <1>4 DEF Forest

(* All below a node is freed, but the node is kept.                           *)
LEMMA NodeCleared ==
    ASSUME NEW live, NEW inHand, NEW S, Forest(live, inHand, S), NEW n \in live, NEW U, Subtree(live, S, n, U),
           NEW T, \A e : e \in T <=> e \in S /\ e[1] \notin U
    PROVE  Forest(live \ (U \ {n}), inHand, T)
<1>1. \A e \in T : e[3] \notin U \ {n}
  BY HolderAbove DEF Forest
<1>2. ASSUME NEW m \in live \ (U \ {n}), m \notin inHand PROVE \E e \in T : e[3] = m
  <2>1. PICK e \in S : e[3] = m
    BY <1>2 DEF Forest
  <2>2. CASE m = n
    BY <2>1, <2>2, HolderAbove
  <2>3. CASE m # n
    BY <1>2, <2>1, <2>3 DEF Subtree
  <2> QED
    BY <2>2, <2>3
<1>3. inHand \subseteq live \ (U \ {n})
  BY HolderAbove DEF Forest
<1>4. NoLoop(live \ (U \ {n}), T)
  BY NoLoopIn DEF Forest
<1> QED
  BY <1>1, <1>2, <1>3, <1>4 DEF Forest

(* A node is copied with all below: C are the copies, and T has their edges.  *)
Twins(live, U, twin, C) ==
    /\ \A x \in U : twin[x] \notin live
    /\ \A x, y \in U : twin[x] = twin[y] => x = y
    /\ \A c : c \in C <=> \E x \in U : c = twin[x]
WithTwins(S, U, twin, T) ==
    \A f : f \in T <=> f \in S \/ \E e \in S : e[1] \in U /\ f = <<twin[e[1]], e[2], twin[e[3]]>>

LEMMA NodeCopied ==
    ASSUME NEW live, NEW inHand, NEW S, Forest(live, inHand, S), NEW n \in live, NEW U, Subtree(live, S, n, U),
           NEW twin, NEW C, Twins(live, U, twin, C), NEW T, WithTwins(S, U, twin, T)
    PROVE  Forest(live \cup C, inHand \cup {twin[n]}, T)
<1> USE DEF Twins, WithTwins
<1> DEFINE New == {<<twin[e[1]], e[2], twin[e[3]]>> : e \in {f \in S : f[1] \in U}}
<1>1. ASSUME NEW g \in New
      PROVE  \E e \in S : e[1] \in U /\ e[3] \in U /\ e[3] # n /\ g = <<twin[e[1]], e[2], twin[e[3]]>>
  <2>1. PICK e \in S : e[1] \in U /\ g = <<twin[e[1]], e[2], twin[e[3]]>>
    OBVIOUS
  <2>2. e[3] \in U /\ e[3] # n
    BY <2>1, HolderAbove DEF Subtree
  <2> QED
    BY <2>1, <2>2
<1>2. ASSUME NEW e \in S, e[1] \in U PROVE <<twin[e[1]], e[2], twin[e[3]]>> \in New
  BY <1>2
<1>c. (\A c \in C : \E x \in U : c = twin[x]) /\ \A x \in U : twin[x] \in C
  OBVIOUS
<1>t. T = S \cup New
  <2>1. \A f : f \in New <=> \E e \in S : e[1] \in U /\ f = <<twin[e[1]], e[2], twin[e[3]]>>
    OBVIOUS
  <2> HIDE DEF New
  <2> QED
    BY <2>1
<1> HIDE DEF New
<1>3. ASSUME NEW g \in New
      PROVE  g = <<g[1], g[2], g[3]>> /\ g[1] \in C /\ g[3] \in C /\ g[3] \notin inHand \cup {twin[n]}
  <2>1. PICK e \in S : e[1] \in U /\ e[3] \in U /\ e[3] # n /\ g = <<twin[e[1]], e[2], twin[e[3]]>>
    BY <1>1
  <2>2. g[1] = twin[e[1]] /\ g[3] = twin[e[3]] /\ g = <<g[1], g[2], g[3]>>
    BY <2>1
  <2>3. twin[e[3]] # twin[n] /\ twin[e[3]] \notin inHand
    BY <2>1 DEF Forest, Subtree
  <2> QED
    BY <2>1, <2>2, <2>3
<1>4. ASSUME NEW g \in New, NEW h \in New, g[3] = h[3] PROVE g = h
  <2>1. PICK e \in S : e[1] \in U /\ e[3] \in U /\ g = <<twin[e[1]], e[2], twin[e[3]]>>
    BY <1>1
  <2>2. PICK f \in S : f[1] \in U /\ f[3] \in U /\ h = <<twin[f[1]], f[2], twin[f[3]]>>
    BY <1>1
  <2>3. e[3] = f[3]
    BY <1>4, <2>1, <2>2
  <2>4. e = f
    BY <2>3 DEF Forest
  <2> QED
    BY <2>1, <2>2, <2>4
<1>5. ASSUME NEW x \in U, x # n PROVE \E g \in New : g[3] = twin[x]
  <2>1. PICK e \in S : e[3] = x /\ e[1] \in U
    BY <1>5 DEF Subtree
  <2>2. <<twin[e[1]], e[2], twin[e[3]]>> \in New
    BY <1>2, <2>1
  <2> QED
    BY <2>1, <2>2
<1>7. \A c \in C : c \notin live
  BY <1>c
<1>6. \A e \in S : e[3] \notin C /\ e[1] \notin C
  BY <1>7 DEF Forest
<1>8. NoLoop(live \cup C, S \cup New)
  <2> SUFFICES ASSUME NEW X \in SUBSET (live \cup C), X # {}
               PROVE  \E x \in X : \A e \in S \cup New : e[3] = x => e[1] \notin X
    BY DEF NoLoop
  <2>1. CASE X \cap C = {}
    <3>1. X \in SUBSET live
      BY <2>1
    <3>2. PICK x \in X : \A e \in S : e[3] = x => e[1] \notin X
      BY <3>1 DEF Forest, NoLoop
    <3> QED
      BY <1>3, <2>1, <3>2
  <2>2. CASE X \cap C # {}
    <3> DEFINE Y == {y \in U : twin[y] \in X}
    <3>0. PICK y0 \in U : twin[y0] \in X
      BY <1>c, <2>2
    <3>1. Y \in SUBSET live /\ Y # {}
      BY <3>0 DEF Subtree
    <3>2. PICK y \in Y : \A e \in S : e[3] = y => e[1] \notin Y
      BY <3>1 DEF Forest, NoLoop
    <3>3. ASSUME NEW g \in New, g[3] = twin[y] PROVE g[1] \notin X
      <4>1. PICK e \in S : e[1] \in U /\ e[3] \in U /\ g = <<twin[e[1]], e[2], twin[e[3]]>>
        BY <1>1
      <4>2. e[3] = y
        BY <3>2, <3>3, <4>1
      <4> QED
        BY <3>2, <4>1, <4>2
    <3>4. \A e \in S : e[3] # twin[y]
      BY <1>6, <3>2
    <3> QED
      BY <3>2, <3>3, <3>4
  <2> QED
    BY <2>1, <2>2
<1> DEFINE All == S \cup New
<1>9. \A e \in All : e = <<e[1], e[2], e[3]>> /\ e[1] \in live \cup C /\ e[3] \in live \cup C /\ e[3] \notin inHand \cup {twin[n]}
  BY <1>3, <1>6 DEF Forest, Subtree
<1>10. \A e, f \in All : e[3] = f[3] => e = f
  BY <1>3, <1>4, <1>6 DEF Forest
<1>11. ASSUME NEW m \in live \cup C, m \notin inHand \cup {twin[n]} PROVE \E e \in All : e[3] = m
  <2>1. CASE m \in live
    BY <1>11, <2>1 DEF Forest
  <2>2. CASE m \in C
    <3>1. PICK x \in U : m = twin[x]
      BY <2>2
    <3> QED
      BY <1>5, <1>11, <3>1
  <2> QED
    BY <1>11, <2>1, <2>2
<1>12. inHand \cup {twin[n]} \subseteq live \cup C
  BY DEF Forest, Subtree
<1>13. NoLoop(live \cup C, All)
  BY <1>8
<1> HIDE DEF All
<1>14. Forest(live \cup C, inHand \cup {twin[n]}, All)
  BY <1>9, <1>10, <1>11, <1>12, <1>13 DEF Forest
<1> QED
  BY <1>14, <1>t DEF All

(* A node takes the place of another, which is freed with all below.          *)
LEMMA NodeReplaced ==
    ASSUME NEW live, NEW inHand, NEW S, Forest(live, inHand, S), NEW n \in inHand, NEW W, Subtree(live, S, n, W),
           NEW e \in S, e[1] \notin W, NEW U, Subtree(live, S, e[3], U),
           NEW R, \A f : f \in R <=> (f \in S /\ f[1] \notin U /\ f # e) \/ f = <<e[1], e[2], n>>
    PROVE  Forest(live \ U, inHand \ {n}, R) /\ e[1] \notin U /\ n \notin U
<1> DEFINE new == <<e[1], e[2], n>>
<1> DEFINE T == S \cup {new}
<1>1. e[1] \in live /\ e[3] # n /\ e[1] \notin U /\ n \notin U
  BY HolderAbove DEF Forest
<1>2. Forest(live, inHand \ {n}, T)
  BY <1>1, NodePut
<1>3. new[1] = e[1] /\ new[3] = n
  OBVIOUS
<1> HIDE DEF new
<1>4. Subtree(live, T, e[3], U)
  BY <1>1, <1>3 DEF Subtree
<1>5. e \in T /\ \A f : f \in R <=> f \in T /\ f[1] \notin U /\ f # e
  <2>1. new \notin S
    BY <1>3 DEF Forest
  <2> QED
    BY <1>1, <1>3, <2>1 DEF new
<1> HIDE DEF T
<1>6. Forest(live \ U, inHand \ {n}, R)
  BY <1>2, <1>4, <1>5, NodeDeleted
<1> QED
  BY <1>1, <1>6

(* The nodes stay with their holders, at other places.                        *)
LEMMA PlacesRenamed ==
    ASSUME NEW live, NEW inHand, NEW S, Forest(live, inHand, S), NEW T,
           \A f \in T : f = <<f[1], f[2], f[3]>> /\ \E e \in S : e[1] = f[1] /\ e[3] = f[3],
           \A e \in S : \E f \in T : e[1] = f[1] /\ e[3] = f[3],
           \A f, g \in T : f[3] = g[3] => f = g
    PROVE  Forest(live, inHand, T)
<1>1. NoLoop(live, T)
  <2> SUFFICES ASSUME NEW X \in SUBSET live, X # {} PROVE \E x \in X : \A f \in T : f[3] = x => f[1] \notin X
    BY DEF NoLoop
  <2>1. PICK x \in X : \A e \in S : e[3] = x => e[1] \notin X
    BY DEF Forest, NoLoop
  <2> QED
    BY <2>1
<1> QED
  BY <1>1 DEF Forest

(* A node alone.                                                              *)
LEMMA NodeAdded ==
    ASSUME NEW live, NEW inHand, NEW S, Forest(live, inHand, S), NEW n, n \notin live, NEW c \in live, NEW s
    PROVE  Forest(live \cup {n}, inHand, S \cup {<<c, s, n>>})
<1>1. Forest(live \cup {n}, inHand \cup {n}, S)
  BY NodeCreated
<1>2. Subtree(live \cup {n}, S, n, {n})
  BY DEF Forest, Subtree
<1>3. c \notin {n} /\ (inHand \cup {n}) \ {n} = inHand
  BY DEF Forest
<1>4. Forest(live \cup {n}, (inHand \cup {n}) \ {n}, S \cup {<<c, s, n>>})
  BY <1>1, <1>2, <1>3, NodePut
<1> QED
  BY <1>3, <1>4

(* The least closed set with a node is the node and what is below it.         *)
HoldsEnds(live, S, Within) == \A m \in live : \A x : x \in Within[m] <=> \E e \in S : e[1] = m /\ e[3] = x
Closure(Nodes, Within, n) ==
    {x \in Nodes : \A s \in SUBSET Nodes : n \in s /\ (\A m \in s : Within[m] \subseteq s) => x \in s}

LEMMA LeastClosed ==
    ASSUME NEW Nodes, NEW live, live \subseteq Nodes, NEW inHand, NEW S, Forest(live, inHand, S), NEW n \in live,
           NEW Within, HoldsEnds(live, S, Within)
    PROVE  Subtree(live, S, n, Closure(Nodes, Within, n))
<1> DEFINE U == Closure(Nodes, Within, n)
<1>0. \A x : x \in U <=> x \in Nodes /\ \A s \in SUBSET Nodes : n \in s /\ (\A m \in s : Within[m] \subseteq s) => x \in s
  BY DEF Closure
<1> HIDE DEF U
<1> USE DEF HoldsEnds
<1>1. \A m \in live : Within[m] \subseteq live
  BY DEF Forest
<1>2. n \in U /\ U \subseteq live
  BY <1>0, <1>1
<1>3. \A m \in U : Within[m] \subseteq U
  <2> SUFFICES ASSUME NEW m \in U, NEW x \in Within[m] PROVE x \in U
    OBVIOUS
  <2>1. x \in Nodes
    BY <1>1, <1>2
  <2>2. ASSUME NEW s \in SUBSET Nodes, n \in s, \A y \in s : Within[y] \subseteq s PROVE x \in s
    BY <1>0, <2>2
  <2> QED
    BY <1>0, <2>1, <2>2
<1>4. \A e \in S : e[1] \in U => e[3] \in U
  BY <1>2, <1>3
<1>5. ASSUME NEW x \in U, x # n, \A e \in S : e[3] = x => e[1] \notin U PROVE FALSE
  <2> DEFINE s == U \ {x}
  <2>1. s \in SUBSET Nodes /\ n \in s
    BY <1>2, <1>5
  <2>2. \A m \in s : Within[m] \subseteq s
    BY <1>2, <1>3, <1>5
  <2>3. x \in s
    BY <1>0, <2>1, <2>2
  <2> QED
    BY <2>3
<1> QED
  BY <1>2, <1>4, <1>5 DEF Subtree, U

(* As many places as a live node that is not in hand has.                     *)
LEMMA OnlyPlace ==
    ASSUME NEW live, NEW inHand, NEW S, Forest(live, inHand, S), NEW n, NEW P,
           \A p : p \in P <=> \E e \in S : e[3] = n /\ p = <<e[1], e[2]>>
    PROVE  Cardinality(P) + (IF n \in inHand THEN 1 ELSE 0) = (IF n \in live THEN 1 ELSE 0)
<1>1. CASE n \in live /\ n \notin inHand
  <2>1. PICK e \in S : e[3] = n
    BY <1>1 DEF Forest
  <2>2. \A f \in S : f[3] = n => f = e
    BY <2>1 DEF Forest
  <2>3. P = {<<e[1], e[2]>>}
    BY <2>1, <2>2
  <2>4. Cardinality(P) = 1
    BY <2>3, FS_Singleton
  <2> QED
    BY <1>1, <2>4
<1>2. CASE ~(n \in live /\ n \notin inHand)
  <2>1. \A e \in S : e[3] # n
    BY <1>2 DEF Forest
  <2>2. P = {} /\ (n \in live <=> n \in inHand)
    BY <1>2, <2>1 DEF Forest
  <2> QED
    BY <2>2, FS_EmptySet
<1> QED
  BY <1>1, <1>2

(* Edges with the same parts are the same.                                    *)
LEMMA SameTriples ==
    ASSUME NEW A, NEW B, \A e \in A : e = <<e[1], e[2], e[3]>>, \A e \in B : e = <<e[1], e[2], e[3]>>,
           \A c, s, n : <<c, s, n>> \in A <=> <<c, s, n>> \in B
    PROVE  A = B
OBVIOUS

-----------------------------------------------------------------------------
(* The element at a place, none outside the sequence. *)
ElementAt(s, i, none) == IF i \in 1 .. Len(s) THEN s[i] ELSE none

(* No element twice. *)
NoTwice(s) == \A i, j \in 1 .. Len(s) : s[i] = s[j] => i = j

Elements(s) == {s[i] : i \in 1 .. Len(s)}

(* The links of the elements lead from each to its neighbours. *)
Chained(s, nx, pv, none) ==
    /\ NoTwice(s)
    /\ \A i \in 1 .. Len(s) : nx[s[i]] = ElementAt(s, i + 1, none) /\ pv[s[i]] = ElementAt(s, i - 1, none)

(* A function that walks along the links nx, k elements at most. *)
WalksAlong(f, E, nx, k, none) ==
    f = [n \in 0 .. k |-> [e \in E |-> IF e = none \/ n = 0 THEN <<>> ELSE <<e>> \o f[n - 1][nx[e]]]]

(* There is one. *)
LEMMA WalkExists ==
    ASSUME NEW none, NEW E, none \in E, NEW nx \in [E \ {none} -> E], NEW k \in Nat
    PROVE  \E f : WalksAlong(f, E, nx, k, none)
<1> DEFINE Walks(m, f) == WalksAlong(f, E, nx, m, none)
<1> DEFINE T == {m \in Nat : \E f : Walks(m, f)}
<1> USE DEF WalksAlong
<1>1. 0 \in T
  <2> DEFINE f == [n \in 0 .. 0 |-> [e \in E |-> <<>>]]
  <2>0. 0 .. 0 = {0}
    OBVIOUS
  <2>1. Walks(0, f)
    BY <2>0
  <2> HIDE DEF f
  <2> QED
    BY <2>1
<1>2. ASSUME NEW m \in T PROVE m + 1 \in T
  <2>1. PICK f : Walks(m, f)
    OBVIOUS
  <2>0. m \in Nat /\ m + 1 \in Nat /\ 0 .. m \subseteq 0 .. m + 1 /\ \A n \in 0 .. m + 1 : n # 0 => n - 1 \in 0 .. m
    OBVIOUS
  <2> HIDE DEF Walks, T
  <2> DEFINE g == [n \in 0 .. m + 1 |-> [e \in E |->
                    IF e = none \/ n = 0 THEN <<>> ELSE <<e>> \o f[n - 1][nx[e]]]]
  <2>2. ASSUME NEW n \in 0 .. m PROVE g[n] = f[n]
    BY <2>0, <2>1, Zenon DEF Walks
  <2>3. ASSUME NEW n \in 0 .. m + 1, n # 0 PROVE f[n - 1] = g[n - 1]
    BY <2>0, <2>2, <2>3
  <2>4. g = [n \in 0 .. m + 1 |-> [e \in E |->
                    IF e = none \/ n = 0 THEN <<>> ELSE <<e>> \o f[n - 1][nx[e]]]]
    OBVIOUS
  <2> HIDE DEF g
  <2>5. ASSUME NEW n \in 0 .. m + 1
        PROVE  [e \in E |-> IF e = none \/ n = 0 THEN <<>> ELSE <<e>> \o f[n - 1][nx[e]]]
                 = [e \in E |-> IF e = none \/ n = 0 THEN <<>> ELSE <<e>> \o g[n - 1][nx[e]]]
    BY <2>3
  <2>6. Walks(m + 1, g)
    BY <2>4, <2>5 DEF Walks
  <2> QED
    BY <2>0, <2>6 DEF T
<1>3. T = Nat
  <2>1. T \in SUBSET Nat
    OBVIOUS
  <2> HIDE DEF T
  <2> QED
    BY <1>1, <1>2, <2>1, InductionOnNat
<1> QED
  BY <1>3

(* A walk along the links of a sequence yields the sequence. *)
LEMMA WalkIs ==
    ASSUME NEW none, NEW E, none \in E, NEW nx \in [E \ {none} -> E], NEW k \in Nat,
           NEW s \in Seq(E \ {none}), Len(s) <= k,
           \A i \in 1 .. Len(s) : nx[s[i]] = ElementAt(s, i + 1, none)
    PROVE  LET walk[n \in 0 .. k] == [e \in E |->
                 IF e = none \/ n = 0 THEN <<>> ELSE <<e>> \o walk[n - 1][nx[e]]]
           IN walk[k][ElementAt(s, 1, none)] = s
<1> DEFINE walk[n \in 0 .. k] == [e \in E |-> IF e = none \/ n = 0 THEN <<>> ELSE <<e>> \o walk[n - 1][nx[e]]]
<1>0. Len(s) \in Nat /\ \A i \in 1 .. Len(s) : s[i] \in E \ {none}
  OBVIOUS
<1>1. walk = [n \in 0 .. k |-> [e \in E |-> IF e = none \/ n = 0 THEN <<>> ELSE <<e>> \o walk[n - 1][nx[e]]]]
  <2>1. \E f : WalksAlong(f, E, nx, k, none)
    BY WalkExists
  <2> QED
    BY <2>1, Zenon DEF WalksAlong
<1> HIDE DEF walk
<1>2. \A n \in 0 .. k, e \in E : walk[n][e] = IF e = none \/ n = 0 THEN <<>> ELSE <<e>> \o walk[n - 1][nx[e]]
  <2>1. ASSUME NEW n \in 0 .. k
        PROVE  walk[n] = [e \in E |-> IF e = none \/ n = 0 THEN <<>> ELSE <<e>> \o walk[n - 1][nx[e]]]
    BY <1>1, Zenon
  <2> QED
    BY <2>1, Zenon
<1> DEFINE Rest(n) == walk[n + (k - Len(s))][ElementAt(s, Len(s) + 1 - n, none)] = SubSeq(s, Len(s) + 1 - n, Len(s))
<1> DEFINE T == {n \in Nat : n <= Len(s) => Rest(n)}
<1>3. 0 \in T
  <2>1. ElementAt(s, Len(s) + 1, none) = none /\ 0 + (k - Len(s)) \in 0 .. k
    BY <1>0 DEF ElementAt
  <2>2. walk[0 + (k - Len(s))][none] = <<>>
    BY <1>2, <2>1
  <2>3. SubSeq(s, Len(s) + 1, Len(s)) = <<>>
    BY <1>0, SubSeqEmpty
  <2>4. Len(s) + 1 - 0 = Len(s) + 1
    BY <1>0
  <2> QED
    BY <2>1, <2>2, <2>3, <2>4
<1>4. ASSUME NEW n \in T PROVE n + 1 \in T
  <2> SUFFICES ASSUME n + 1 <= Len(s) PROVE Rest(n + 1)
    <3> HIDE DEF Rest
    <3> QED
      BY DEF T
  <2>1. n \in Nat /\ n <= Len(s)
    <3>1. n \in Nat
      BY DEF T
    <3> HIDE DEF Rest, T
    <3> QED
      BY <1>0, <3>1
  <2>2. Rest(n)
    <3> HIDE DEF Rest
    <3> QED
      BY <2>1 DEF T
  <2> HIDE DEF Rest, T
  <2> DEFINE i == Len(s) - n
  <2> DEFINE m == (n + 1) + (k - Len(s))
  <2>3. i \in 1 .. Len(s) /\ Len(s) + 1 - (n + 1) = i /\ Len(s) + 1 - n = i + 1
    BY <1>0, <2>1
  <2>4. m \in 0 .. k /\ m # 0 /\ m - 1 = n + (k - Len(s))
    BY <1>0, <2>1
  <2>5. walk[m - 1][ElementAt(s, i + 1, none)] = SubSeq(s, i + 1, Len(s))
    BY <2>2, <2>3, <2>4, Zenon DEF Rest
  <2>6. (Rest(n + 1)) <=> (walk[m][ElementAt(s, i, none)] = SubSeq(s, i, Len(s)))
    BY <2>3, Zenon DEF Rest
  <2> HIDE DEF m, i
  <2>7. ElementAt(s, i, none) = s[i] /\ s[i] \in E /\ s[i] # none
    BY <1>0, <2>3 DEF ElementAt
  <2>8. walk[m][s[i]] = <<s[i]>> \o walk[m - 1][nx[s[i]]]
    BY <1>2, <2>4, <2>7
  <2>9. nx[s[i]] = ElementAt(s, i + 1, none)
    BY <2>3
  <2>10. SubSeq(s, i, Len(s)) = <<s[i]>> \o SubSeq(s, i + 1, Len(s))
    BY <1>0, <2>3, SubSeqRecursiveFirst
  <2> QED
    BY <2>5, <2>6, <2>7, <2>8, <2>9, <2>10, Zenon
<1>5. T = Nat
  <2>1. T \in SUBSET Nat
    OBVIOUS
  <2> HIDE DEF T
  <2> QED
    BY <1>3, <1>4, <2>1, InductionOnNat
<1>6. Rest(Len(s))
  <2> HIDE DEF Rest
  <2> QED
    BY <1>0, <1>5
<1>7. Len(s) + (k - Len(s)) = k /\ Len(s) + 1 - Len(s) = 1 /\ SubSeq(s, 1, Len(s)) = s
  BY <1>0, SubSeqFull
<1> QED
  BY <1>6, <1>7, Zenon DEF walk

(* The element x is linked in at place k: its links and those of its          *)
(* neighbours are written, no others.                                         *)
GoesIn(x, k, s, nx, pv, nx1, pv1, none) ==
    /\ Chained(s, nx, pv, none) /\ x \notin Elements(s)
    /\ nx1[x] = ElementAt(s, k, none) /\ pv1[x] = ElementAt(s, k - 1, none)
    /\ k > 1 => nx1[s[k - 1]] = x
    /\ k <= Len(s) => pv1[s[k]] = x
    /\ \A i \in 1 .. Len(s) : (i # k - 1 => nx1[s[i]] = nx[s[i]]) /\ (i # k => pv1[s[i]] = pv[s[i]])

(* The sequence t is s with x at place k. *)
IsIn(x, k, s, t, none) ==
    /\ Len(t) = Len(s) + 1 /\ Elements(t) = Elements(s) \cup {x}
    /\ ElementAt(t, 1, none) = IF k = 1 THEN x ELSE ElementAt(s, 1, none)
    /\ ElementAt(t, Len(t), none) = IF k = Len(s) + 1 THEN x ELSE ElementAt(s, Len(s), none)

(* What was at a place and behind it moves on when an element is linked in. *)
LEMMA LinkedIn ==
    ASSUME NEW none, NEW C, NEW s \in Seq(C), NEW nx, NEW pv, NEW nx1, NEW pv1, NEW x \in C, NEW k \in 1 .. Len(s) + 1,
           none \notin C, GoesIn(x, k, s, nx, pv, nx1, pv1, none)
    PROVE  \E t \in Seq(C) : Chained(t, nx1, pv1, none) /\ IsIn(x, k, s, t, none)
<1> USE DEF GoesIn, IsIn
<1> DEFINE n == Len(s)
<1> DEFINE t == [i \in 1 .. n + 1 |-> IF i < k THEN s[i] ELSE IF i = k THEN x ELSE s[i - 1]]
<1>0. n \in Nat /\ n + 1 \in Nat /\ k \in 1 .. n + 1 /\ \A i \in 1 .. n : s[i] \in C
  OBVIOUS
<1>1. \A i \in 1 .. n + 1 : t[i] \in C
  BY <1>0
<1>2. t \in Seq(C) /\ Len(t) = n + 1
  <2> HIDE DEF n
  <2> QED
    BY <1>0, <1>1
<1>3. /\ \A i \in 1 .. n + 1 : i < k => t[i] = s[i]
      /\ t[k] = x
      /\ \A i \in 1 .. n + 1 : i > k => t[i] = s[i - 1]
  BY <1>0
<1> HIDE DEF t, n
<1>4. \A i \in 1 .. n : s[i] # x
  BY DEF Elements, n
<1>5. \A i, j \in 1 .. n : s[i] = s[j] => i = j
  BY DEF Chained, NoTwice, n
<1>6. NoTwice(t)
  <2> SUFFICES ASSUME NEW i \in 1 .. n + 1, NEW j \in 1 .. n + 1, t[i] = t[j] PROVE i = j
    BY <1>2 DEF NoTwice
  <2>1. CASE i < k /\ j < k
    BY <1>0, <1>3, <1>5, <2>1
  <2>2. CASE i < k /\ j > k
    BY <1>0, <1>3, <1>5, <2>2
  <2>3. CASE i > k /\ j < k
    BY <1>0, <1>3, <1>5, <2>3
  <2>4. CASE i > k /\ j > k
    <3>1. i - 1 \in 1 .. n /\ j - 1 \in 1 .. n
      BY <1>0, <2>4
    <3> QED
      BY <1>0, <1>3, <1>5, <2>4, <3>1
  <2>5. CASE i = k /\ j # k
    BY <1>0, <1>3, <1>4, <2>5
  <2>6. CASE i # k /\ j = k
    BY <1>0, <1>3, <1>4, <2>6
  <2> QED
    BY <1>0, <2>1, <2>2, <2>3, <2>4, <2>5, <2>6
<1>7. Elements(t) = Elements(s) \cup {x}
  <2>1. \A i \in 1 .. n + 1 : t[i] \in Elements(s) \cup {x}
    <3> SUFFICES ASSUME NEW i \in 1 .. n + 1 PROVE t[i] \in Elements(s) \cup {x}
      OBVIOUS
    <3>1. CASE i < k
      BY <1>0, <1>3, <3>1 DEF Elements, n
    <3>2. CASE i > k
      <4>1. i - 1 \in 1 .. n /\ t[i] = s[i - 1]
        BY <1>0, <1>3, <3>2
      <4> QED
        BY <4>1 DEF Elements, n
    <3> QED
      BY <1>0, <1>3, <3>1, <3>2
  <2>2. \A i \in 1 .. n : s[i] \in Elements(t)
    <3> SUFFICES ASSUME NEW i \in 1 .. n PROVE s[i] \in Elements(t)
      OBVIOUS
    <3>1. CASE i < k
      <4>1. i \in 1 .. n + 1 /\ t[i] = s[i]
        BY <1>0, <1>3, <3>1
      <4> QED
        BY <1>2, <4>1 DEF Elements
    <3>2. CASE ~(i < k)
      <4>1. i + 1 \in 1 .. n + 1 /\ t[i + 1] = s[i]
        BY <1>0, <1>3, <3>2
      <4> QED
        BY <1>2, <4>1 DEF Elements
    <3> QED
      BY <3>1, <3>2
  <2>3. x \in Elements(t)
    BY <1>0, <1>2, <1>3 DEF Elements
  <2>4. Elements(t) \subseteq Elements(s) \cup {x}
    BY <1>2, <2>1 DEF Elements
  <2>5. Elements(s) \subseteq Elements(t)
    BY <2>2 DEF Elements, n
  <2> QED
    BY <2>3, <2>4, <2>5
<1>8. \A i \in 0 .. n + 2 : ElementAt(t, i, none) = IF i < k THEN ElementAt(s, i, none) ELSE IF i = k THEN x ELSE ElementAt(s, i - 1, none)
  <2> SUFFICES ASSUME NEW i \in 0 .. n + 2
               PROVE  ElementAt(t, i, none) = IF i < k THEN ElementAt(s, i, none) ELSE IF i = k THEN x ELSE ElementAt(s, i - 1, none)
    OBVIOUS
  <2>1. CASE i = 0
    BY <1>0, <1>2, <2>1 DEF ElementAt, n
  <2>2. CASE i = n + 2
    BY <1>0, <1>2, <2>2 DEF ElementAt, n
  <2>3. CASE i \in 1 .. n + 1
    BY <1>0, <1>2, <1>3, <2>3 DEF ElementAt, n
  <2> QED
    BY <1>0, <2>1, <2>2, <2>3
<1>9. \A i \in 1 .. n : nx[s[i]] = ElementAt(s, i + 1, none) /\ pv[s[i]] = ElementAt(s, i - 1, none) /\ ElementAt(s, i, none) = s[i]
  BY DEF Chained, ElementAt, n
<1>10. ASSUME NEW i \in 1 .. n + 1 PROVE nx1[t[i]] = ElementAt(t, i + 1, none) /\ pv1[t[i]] = ElementAt(t, i - 1, none)
  <2>0. i + 1 \in 0 .. n + 2 /\ i - 1 \in 0 .. n + 2
    BY <1>0
  <2>1. CASE i + 1 < k
    <3>1. i \in 1 .. n /\ i # k - 1 /\ i # k /\ i < k /\ i - 1 < k /\ t[i] = s[i]
      BY <1>0, <1>3, <2>1
    <3>2. nx1[s[i]] = ElementAt(s, i + 1, none) /\ pv1[s[i]] = ElementAt(s, i - 1, none)
      BY <1>9, <3>1 DEF n
    <3> QED
      BY <1>8, <2>0, <2>1, <3>1, <3>2
  <2>2. CASE i + 1 = k
    BY <1>0, <1>3, <1>8, <1>9, <2>0, <2>2 DEF n
  <2>3. CASE i = k
    BY <1>0, <1>3, <1>8, <2>0, <2>3 DEF n
  <2>4. CASE i = k + 1
    <3>1. i - 1 = k /\ k \in 1 .. n /\ t[i] = s[k]
      BY <1>0, <1>3, <2>4
    <3>2. nx1[s[k]] = ElementAt(s, k + 1, none) /\ pv1[s[k]] = x
      BY <1>0, <1>9, <3>1 DEF n
    <3> QED
      BY <1>0, <1>8, <2>0, <2>4, <3>1, <3>2
  <2>5. CASE i > k + 1
    <3>1. i - 1 \in 1 .. n /\ i - 1 # k - 1 /\ i - 1 # k /\ t[i] = s[i - 1]
      BY <1>0, <1>3, <2>5
    <3>2. nx1[s[i - 1]] = ElementAt(s, (i - 1) + 1, none) /\ pv1[s[i - 1]] = ElementAt(s, (i - 1) - 1, none)
      BY <1>9, <3>1 DEF n
    <3> QED
      BY <1>0, <1>8, <2>0, <2>5, <3>1, <3>2
  <2> QED
    BY <1>0, <2>1, <2>2, <2>3, <2>4, <2>5
<1>11. Chained(t, nx1, pv1, none)
  BY <1>2, <1>6, <1>10 DEF Chained
<1>12. ElementAt(t, 1, none) = IF k = 1 THEN x ELSE ElementAt(s, 1, none)
  BY <1>0, <1>8
<1>13. ElementAt(t, Len(t), none) = IF k = Len(s) + 1 THEN x ELSE ElementAt(s, Len(s), none)
  <2>1. n + 1 \in 0 .. n + 2 /\ ~(n + 1 < k) /\ (n + 1) - 1 = n
    BY <1>0
  <2> QED
    BY <1>2, <1>8, <2>1 DEF n
<1> QED
  BY <1>2, <1>7, <1>11, <1>12, <1>13 DEF n

(* The element at place k is linked out: its neighbours are linked to each   *)
(* other; its own links are free.                                            *)
GoesOut(k, s, nx, pv, nx1, pv1, none) ==
    /\ Chained(s, nx, pv, none)
    /\ k > 1 => nx1[s[k - 1]] = ElementAt(s, k + 1, none)
    /\ k < Len(s) => pv1[s[k + 1]] = ElementAt(s, k - 1, none)
    /\ \A i \in 1 .. Len(s) : /\ i # k - 1 /\ i # k => nx1[s[i]] = nx[s[i]]
                              /\ i # k + 1 /\ i # k => pv1[s[i]] = pv[s[i]]

(* The sequence t is s without its element at place k. *)
IsOut(k, s, t, none) ==
    /\ Len(t) = Len(s) - 1 /\ Elements(t) = Elements(s) \ {s[k]}
    /\ ElementAt(t, 1, none) = IF k = 1 THEN ElementAt(s, 2, none) ELSE ElementAt(s, 1, none)
    /\ ElementAt(t, Len(t), none) = IF k = Len(s) THEN ElementAt(s, Len(s) - 1, none) ELSE ElementAt(s, Len(s), none)

(* What was behind a place moves up when its element is linked out. *)
LEMMA LinkedOut ==
    ASSUME NEW none, NEW C, NEW s \in Seq(C), NEW nx, NEW pv, NEW nx1, NEW pv1, NEW k \in 1 .. Len(s),
           none \notin C, GoesOut(k, s, nx, pv, nx1, pv1, none)
    PROVE  \E t \in Seq(C) : Chained(t, nx1, pv1, none) /\ IsOut(k, s, t, none)
<1> USE DEF GoesOut, IsOut
<1> DEFINE n == Len(s) - 1
<1> DEFINE t == [i \in 1 .. n |-> IF i < k THEN s[i] ELSE s[i + 1]]
<1>0. n \in Nat /\ Len(s) = n + 1 /\ k \in 1 .. n + 1 /\ \A i \in 1 .. n + 1 : s[i] \in C
  OBVIOUS
<1> HIDE DEF n
<1>1. \A i \in 1 .. n : t[i] \in C
  BY <1>0
<1>2. t \in Seq(C) /\ Len(t) = n
  BY <1>0, <1>1
<1>3. \A i \in 1 .. n : (i < k => t[i] = s[i]) /\ (i >= k => t[i] = s[i + 1])
  BY <1>0
<1> HIDE DEF t
<1>5. \A i, j \in 1 .. n + 1 : s[i] = s[j] => i = j
  BY <1>0 DEF Chained, NoTwice
<1>6. NoTwice(t)
  <2> SUFFICES ASSUME NEW i \in 1 .. n, NEW j \in 1 .. n, t[i] = t[j] PROVE i = j
    BY <1>2 DEF NoTwice
  <2>1. i \in 1 .. n + 1 /\ j \in 1 .. n + 1 /\ i + 1 \in 1 .. n + 1 /\ j + 1 \in 1 .. n + 1
    BY <1>0
  <2> QED
    BY <1>0, <1>3, <1>5, <2>1
<1>7. Elements(t) = Elements(s) \ {s[k]}
  <2>1. \A i \in 1 .. n : t[i] \in Elements(s) \ {s[k]}
    <3> SUFFICES ASSUME NEW i \in 1 .. n PROVE t[i] \in Elements(s) \ {s[k]}
      OBVIOUS
    <3>1. i \in 1 .. n + 1 /\ i + 1 \in 1 .. n + 1
      BY <1>0
    <3>2. CASE i < k
      BY <1>0, <1>3, <1>5, <3>1, <3>2 DEF Elements
    <3>3. CASE ~(i < k)
      BY <1>0, <1>3, <1>5, <3>1, <3>3 DEF Elements
    <3> QED
      BY <3>2, <3>3
  <2>2. \A i \in 1 .. n + 1 : i # k => s[i] \in Elements(t)
    <3> SUFFICES ASSUME NEW i \in 1 .. n + 1, i # k PROVE s[i] \in Elements(t)
      OBVIOUS
    <3>1. CASE i < k
      <4>1. i \in 1 .. n /\ t[i] = s[i]
        BY <1>0, <1>3, <3>1
      <4> QED
        BY <1>2, <4>1 DEF Elements
    <3>2. CASE i > k
      <4>1. i - 1 \in 1 .. n /\ t[i - 1] = s[i]
        BY <1>0, <1>3, <3>2
      <4> QED
        BY <1>2, <4>1 DEF Elements
    <3> QED
      BY <1>0, <3>1, <3>2
  <2>3. Elements(t) \subseteq Elements(s) \ {s[k]}
    BY <1>2, <2>1 DEF Elements
  <2>4. \A e \in Elements(s) : e # s[k] => e \in Elements(t)
    <3> SUFFICES ASSUME NEW i \in 1 .. n + 1, s[i] # s[k] PROVE s[i] \in Elements(t)
      BY <1>0 DEF Elements
    <3> QED
      BY <2>2
  <2> QED
    BY <2>3, <2>4
<1>8. \A i \in 0 .. n + 1 : ElementAt(t, i, none) = IF i < k THEN ElementAt(s, i, none) ELSE ElementAt(s, i + 1, none)
  <2> SUFFICES ASSUME NEW i \in 0 .. n + 1
               PROVE  ElementAt(t, i, none) = IF i < k THEN ElementAt(s, i, none) ELSE ElementAt(s, i + 1, none)
    OBVIOUS
  <2>1. CASE i = 0
    BY <1>0, <1>2, <2>1 DEF ElementAt
  <2>2. CASE i = n + 1
    BY <1>0, <1>2, <2>2 DEF ElementAt
  <2>3. CASE i \in 1 .. n
    <3>1. i \in 1 .. n + 1 /\ i + 1 \in 1 .. n + 1
      BY <1>0, <2>3
    <3> QED
      BY <1>0, <1>2, <1>3, <2>3, <3>1 DEF ElementAt
  <2> QED
    BY <1>0, <2>1, <2>2, <2>3
<1>9. \A i \in 1 .. n + 1 : nx[s[i]] = ElementAt(s, i + 1, none) /\ pv[s[i]] = ElementAt(s, i - 1, none) /\ ElementAt(s, i, none) = s[i]
  BY <1>0 DEF Chained, ElementAt
<1>a. \A i \in 1 .. n + 1 : /\ i # k - 1 /\ i # k => nx1[s[i]] = ElementAt(s, i + 1, none)
                            /\ i # k + 1 /\ i # k => pv1[s[i]] = ElementAt(s, i - 1, none)
  BY <1>0, <1>9
<1>10. ASSUME NEW i \in 1 .. n PROVE nx1[t[i]] = ElementAt(t, i + 1, none) /\ pv1[t[i]] = ElementAt(t, i - 1, none)
  <2>0. i + 1 \in 0 .. n + 1 /\ i - 1 \in 0 .. n + 1 /\ i \in 1 .. n + 1 /\ i + 1 \in 1 .. n + 1
    BY <1>0
  <2>1. CASE i + 1 < k
    BY <1>0, <1>3, <1>8, <1>a, <2>0, <2>1
  <2>2. CASE i + 1 = k
    <3>1. t[i] = s[i] /\ nx1[s[i]] = ElementAt(s, k + 1, none) /\ pv1[s[i]] = ElementAt(s, i - 1, none)
      <4>1. k > 1 /\ k - 1 = i /\ i < k /\ i # k /\ i # k + 1
        BY <1>0, <2>2
      <4>2. nx1[s[i]] = ElementAt(s, k + 1, none)
        BY <4>1
      <4> QED
        BY <1>3, <1>a, <2>0, <4>1, <4>2
    <3> QED
      BY <1>0, <1>8, <2>0, <2>2, <3>1
  <2>3. CASE i = k
    <3>1. t[i] = s[k + 1] /\ nx1[s[i + 1]] = ElementAt(s, (i + 1) + 1, none) /\ pv1[s[k + 1]] = ElementAt(s, k - 1, none)
      BY <1>0, <1>3, <1>a, <2>0, <2>3
    <3> QED
      BY <1>0, <1>8, <2>0, <2>3, <3>1
  <2>4. CASE i > k
    <3>1. t[i] = s[i + 1] /\ nx1[s[i + 1]] = ElementAt(s, (i + 1) + 1, none) /\ pv1[s[i + 1]] = ElementAt(s, (i + 1) - 1, none)
      BY <1>0, <1>3, <1>a, <2>0, <2>4
    <3>2. ~(i + 1 < k) /\ ~(i - 1 < k) /\ (i + 1) - 1 = (i - 1) + 1
      BY <1>0, <2>4
    <3> QED
      BY <1>0, <1>8, <2>0, <3>1, <3>2
  <2> QED
    BY <1>0, <2>1, <2>2, <2>3, <2>4
<1>11. Chained(t, nx1, pv1, none)
  BY <1>2, <1>6, <1>10 DEF Chained
<1>12. ElementAt(t, 1, none) = IF k = 1 THEN ElementAt(s, 2, none) ELSE ElementAt(s, 1, none)
  BY <1>0, <1>8
<1>13. ElementAt(t, Len(t), none) = IF k = Len(s) THEN ElementAt(s, Len(s) - 1, none) ELSE ElementAt(s, Len(s), none)
  <2>1. n \in 0 .. n + 1 /\ (n < k <=> k = n + 1) /\ (n + 1) - 1 = n
    BY <1>0
  <2> QED
    BY <1>0, <1>2, <1>8, <2>1
<1> QED
  BY <1>0, <1>2, <1>7, <1>11, <1>12, <1>13
=============================================================================
