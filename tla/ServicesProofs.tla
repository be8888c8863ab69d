--------------------------- MODULE ServicesProofs ---------------------------
(***************************************************************************)
(* What the event loops and their users promise, for every number of       *)
(* workers, interfaces, callers, users of timers and descriptors.          *)
(*                                                                         *)
(* ItemsCorrect: the items of dtn_tunnel_core.c's interfaces and the       *)
(* requests of dtn_async_store.c.  The invariant of the first lists the    *)
(* places an item can be in (the dictionary, the hands of whoever closes,  *)
(* the two lists of dtn_garbadge_colloctor.c, freed, given up) and says    *)
(* that no two of them have the same item; that of the second does it for  *)
(* the store, the calls under way and the ends of a message.               *)
(*                                                                         *)
(* LoopsCorrect: dtn_event_loop_poll.c and dtn_event_loop_linux.c.  For    *)
(* the first the slot a callback is called from is set apart from the slot *)
(* a user waits for; for the second every callback is in the place of its  *)
(* own number, so that registering and releasing touch no other, and six   *)
(* kinds of step are left, which EpollSteps lists.                         *)
(*                                                                         *)
(* EventsCorrect: an event of poll is told to the callback of its own      *)
(* connection, but for descriptors registered anew since poll returned.    *)
(*                                                                         *)
(* ConnectionsCorrect: dtn_io.c and dtn_file_node_app.c.  The messages     *)
(* given to a connection are those sent, the one a sender carries and the  *)
(* queue, one after the other, as long as one thread sends.  A request of  *)
(* the node's application is in one place (a queue, a worker, the answer   *)
(* under way, freed), and came from the connection of its descriptor, or   *)
(* its number is one that another request was given since.                 *)
(*                                                                         *)
(* DatagramsCorrect: dtn_interface_ip.c and the file nodes.  What is to be *)
(* sent is listed as what went out and what waits; what is received of a   *)
(* remote, kept and yet to come are its pieces in its order, so that a     *)
(* bundle cut off the front is one it sent.  The file nodes are those      *)
(* TunnelProofs is about, and what it shows of them is taken from there.   *)
(***************************************************************************)
EXTENDS MCServices, Foundations, SequenceTheorems

(* No element twice. *)
Distinct(q) == \A j, k \in DOMAIN q : q[j] = q[k] => j = k

Freed == {i \in Items : frees[i] > 0}
InHand == {closing.item} \ {None}

(* The variables of the interfaces, by their types. *)
ItemTypes ==
    /\ table \in [Names -> Items \cup {None}]
    /\ itemLock \in [Items -> Workers \cup {None}]
    /\ use \in [Workers -> [item : Items \cup {None}, owns : BOOLEAN]]
    /\ closing \in [at : {"open", "free", "push"}, item : Items \cup {None}]
    /\ closing.item = None <=> closing.at = "open"
    /\ garbage \in Seq(Items) /\ rest \in Seq(Items)
    /\ collecting \in BOOLEAN /\ (~collecting => rest = <<>>)
    /\ frees \in [Items -> Nat]
    /\ gone \subseteq Items

Disjoint(A, B) == \A i \in A : i \notin B

(* An item is in one place. *)
OnePlace ==
    /\ \A n, m \in Names : table[n] = table[m] /\ table[n] # None => n = m
    /\ Distinct(garbage) /\ Distinct(rest)
    /\ \A i \in Items : frees[i] <= 1
    /\ Disjoint(IT!Tabled, InHand \cup IT!ToSet(garbage) \cup IT!ToSet(rest) \cup Freed \cup gone)
    /\ Disjoint(InHand, IT!ToSet(garbage) \cup IT!ToSet(rest) \cup Freed \cup gone)
    /\ Disjoint(IT!ToSet(garbage), IT!ToSet(rest) \cup Freed \cup gone)
    /\ Disjoint(IT!ToSet(rest), Freed \cup gone)
    /\ Disjoint(Freed, gone)

(* Whoever uses an item has its lock. *)
LocksHeld ==
    \A w \in Workers : use[w].item \in Items \ trespassed => itemLock[use[w].item] = w

(* dtn_garbadge_collector_push: the item is the last of the list. *)
LEMMA Queued ==
    ASSUME NEW q \in Seq(Items), NEW i \in Items
    PROVE  /\ Append(q, i) \in Seq(Items)
           /\ IT!ToSet(Append(q, i)) = IT!ToSet(q) \cup {i}
           /\ i \notin IT!ToSet(q) /\ Distinct(q) => Distinct(Append(q, i))
<1>1. /\ Append(q, i) \in Seq(Items) /\ Len(q) \in Nat
      /\ DOMAIN q = 1 .. Len(q)
      /\ DOMAIN Append(q, i) = 1 .. Len(q) + 1
      /\ \A k \in 1 .. Len(q) : Append(q, i)[k] = q[k]
      /\ Append(q, i)[Len(q) + 1] = i
  BY AppendProperties, LenProperties
<1>2. IT!ToSet(Append(q, i)) = IT!ToSet(q) \cup {i}
  <2> SUFFICES \A x : x \in IT!ToSet(Append(q, i)) <=> x \in IT!ToSet(q) \cup {i}
    OBVIOUS
  <2> QED
    BY <1>1 DEF IT!ToSet
<1>3. ASSUME i \notin IT!ToSet(q), Distinct(q) PROVE Distinct(Append(q, i))
  BY <1>1, <1>3 DEF Distinct, IT!ToSet
<1> QED
  BY <1>1, <1>2, <1>3

(* The collector takes the first of its list. *)
LEMMA Unqueued ==
    ASSUME NEW q \in Seq(Items), q # <<>>, Distinct(q)
    PROVE  /\ Tail(q) \in Seq(Items) /\ Head(q) \in Items
           /\ Head(q) \in IT!ToSet(q)
           /\ IT!ToSet(Tail(q)) = IT!ToSet(q) \ {Head(q)}
           /\ Distinct(Tail(q))
<1>1. /\ Tail(q) \in Seq(Items) /\ Head(q) \in Items /\ Len(q) \in Nat /\ Len(q) # 0
      /\ DOMAIN q = 1 .. Len(q)
      /\ DOMAIN Tail(q) = 1 .. Len(q) - 1
      /\ \A k \in 1 .. Len(q) - 1 : Tail(q)[k] = q[k + 1]
      /\ Head(q) = q[1]
  BY HeadTailProperties, LenProperties, EmptySeq
<1>2. IT!ToSet(Tail(q)) = IT!ToSet(q) \ {Head(q)}
  <2> SUFFICES \A x : x \in IT!ToSet(Tail(q)) <=> x \in IT!ToSet(q) \ {Head(q)}
    OBVIOUS
  <2>1. ASSUME NEW k \in DOMAIN Tail(q)
        PROVE  Tail(q)[k] \in IT!ToSet(q) /\ Tail(q)[k] # Head(q)
    BY <1>1 DEF IT!ToSet, Distinct
  <2>2. ASSUME NEW k \in DOMAIN q, q[k] # Head(q)
        PROVE  q[k] \in IT!ToSet(Tail(q))
    <3>1. k - 1 \in DOMAIN Tail(q) /\ Tail(q)[k - 1] = q[k]
      BY <1>1, <2>2
    <3> QED
      BY <3>1 DEF IT!ToSet
  <2> QED
    BY <2>1, <2>2 DEF IT!ToSet
<1>3. Distinct(Tail(q))
  BY <1>1 DEF Distinct
<1>4. 1 \in DOMAIN q
  BY <1>1
<1>5. Head(q) \in IT!ToSet(q)
  BY <1>1, <1>4 DEF IT!ToSet
<1> QED
  BY <1>1, <1>2, <1>3, <1>5

(* Before any interface is opened all items are unused, and no lock is held. *)
LEMMA InitItems == IT!Init => ItemTypes /\ OnePlace /\ LocksHeld
<1> SUFFICES ASSUME IT!Init PROVE ItemTypes /\ OnePlace /\ LocksHeld
  OBVIOUS
<1> USE ItemsAssumption DEF IT!Init
<1>1. ItemTypes
  <2>1. use \in [Workers -> [item : Items \cup {None}, owns : BOOLEAN]]
    BY DEF IT!NoUse
  <2>2. /\ closing \in [at : {"open", "free", "push"}, item : Items \cup {None}]
        /\ closing.item = None <=> closing.at = "open"
    BY DEF IT!Open
  <2>3. garbage \in Seq(Items) /\ rest \in Seq(Items)
    OBVIOUS
  <2> QED
    BY <2>1, <2>2, <2>3 DEF ItemTypes
<1>2. OnePlace
  BY DEF OnePlace, Disjoint, Distinct, IT!Tabled, InHand, Freed, IT!ToSet, IT!Open
<1>3. LocksHeld
  BY DEF LocksHeld, IT!NoUse
<1> QED
  BY <1>1, <1>2, <1>3

(* Freeing an item or giving it up keeps the types. *)
LEMMA FreeOrLoseTypes ==
    ASSUME ItemTypes, NEW i \in Items, IT!FreeOrLose(i)
    PROVE  frees' \in [Items -> Nat] /\ gone' \subseteq Items
<1>1. CASE frees' = [frees EXCEPT ![i] = @ + 1] /\ UNCHANGED gone
  BY <1>1 DEF ItemTypes
<1>2. CASE gone' = gone \cup {i} /\ UNCHANGED frees
  BY <1>2 DEF ItemTypes
<1> QED
  BY <1>1, <1>2 DEF IT!FreeOrLose

(* Opening, using, closing and collecting keep the types of what they touch. *)
LEMMA NextItemTypes == ItemTypes /\ [IT!Next]_itemVars => ItemTypes'
<1> SUFFICES ASSUME ItemTypes, [IT!Next]_itemVars PROVE ItemTypes'
  OBVIOUS
<1> USE ItemsAssumption
<1>1. ASSUME NEW n \in Names, NEW i \in Items, IT!OpenInterface(n, i) PROVE ItemTypes'
  <2>1. table' \in [Names -> Items \cup {None}]
    BY <1>1 DEF ItemTypes, IT!OpenInterface
  <2>2. table[n] # None => table[n] \in Items
    BY DEF ItemTypes
  <2>3. frees' \in [Items -> Nat] /\ gone' \subseteq Items
    BY <1>1, <2>2, FreeOrLoseTypes DEF ItemTypes, IT!OpenInterface
  <2> QED
    BY <1>1, <2>1, <2>3 DEF ItemTypes, IT!OpenInterface
<1>2. ASSUME NEW w \in Workers, NEW n \in Names, IT!LookUp(w, n) PROVE ItemTypes'
  BY <1>2 DEF ItemTypes, IT!LookUp
<1>3. ASSUME NEW w \in Workers, NEW n \in Names, IT!LookUpNothing(w, n) PROVE ItemTypes'
  BY <1>3 DEF ItemTypes, IT!LookUpNothing
<1>4. ASSUME NEW w \in Workers, IT!Sent(w) PROVE ItemTypes'
  BY <1>4 DEF ItemTypes, IT!Sent, IT!Unlocked, IT!NoUse
<1>5. ASSUME NEW n \in Names, IT!CloseRemove(n) PROVE ItemTypes'
  BY <1>5 DEF ItemTypes, IT!CloseRemove, IT!Without
<1>6. CASE IT!CloseFree
  <2>1. closing.item \in Items /\ closing.at = "free"
    BY <1>6 DEF ItemTypes, IT!CloseFree
  <2>2. CASE frees' = [frees EXCEPT ![closing.item] = @ + 1] /\ closing' = IT!Open
    BY <1>6, <2>1, <2>2 DEF ItemTypes, IT!CloseFree, IT!Open
  <2>3. CASE closing' = [closing EXCEPT !.at = "push"] /\ UNCHANGED frees
    BY <1>6, <2>1, <2>3 DEF ItemTypes, IT!CloseFree
  <2> QED
    BY <1>6, <2>2, <2>3 DEF IT!CloseFree
<1>7. CASE IT!ClosePush
  <2>1. closing.item \in Items
    BY <1>7 DEF ItemTypes, IT!ClosePush
  <2>2. Append(garbage, closing.item) \in Seq(Items)
    BY <2>1, Queued DEF ItemTypes
  <2>3. garbage' \in Seq(Items)
    BY <1>7, <2>2 DEF ItemTypes, IT!ClosePush
  <2>4. frees' \in [Items -> Nat] /\ gone' \subseteq Items
    BY <1>7, <2>1, FreeOrLoseTypes DEF ItemTypes, IT!ClosePush
  <2> QED
    BY <1>7, <2>3, <2>4 DEF ItemTypes, IT!ClosePush, IT!Open
<1>8. CASE IT!CollectStart
  BY <1>8 DEF ItemTypes, IT!CollectStart
<1>9. CASE IT!CollectFree
  <2>1. Tail(rest) \in Seq(Items) /\ Head(rest) \in Items
    BY <1>9, HeadTailProperties DEF ItemTypes, IT!CollectFree
  <2>2. Append(garbage, Head(rest)) \in Seq(Items)
    BY <2>1, Queued DEF ItemTypes
  <2> QED
    BY <1>9, <2>1, <2>2 DEF ItemTypes, IT!CollectFree, IT!Kept
<1>10. CASE IT!CollectEnd
  BY <1>10 DEF ItemTypes, IT!CollectEnd
<1>11. CASE UNCHANGED itemVars
  BY <1>11 DEF ItemTypes, itemVars
<1> QED
  BY <1>1, <1>2, <1>3, <1>4, <1>5, <1>6, <1>7, <1>8, <1>9, <1>10, <1>11 DEF IT!Next, IT!Close, IT!Collect

(* A worker that sends over an interface has its lock, for as long as it does. *)
LEMMA NextLocksHeld == ItemTypes /\ LocksHeld /\ [IT!Next]_itemVars => LocksHeld'
<1> SUFFICES ASSUME ItemTypes, LocksHeld, [IT!Next]_itemVars PROVE LocksHeld'
  OBVIOUS
<1> USE ItemsAssumption
<1>1. ASSUME NEW w \in Workers, NEW n \in Names, IT!LookUp(w, n) PROVE LocksHeld'
  BY <1>1 DEF LocksHeld, ItemTypes, IT!LookUp, IT!NoUse
<1>2. ASSUME NEW w \in Workers, IT!Sent(w) PROVE LocksHeld'
  <2> SUFFICES ASSUME NEW v \in Workers, use'[v].item \in Items \ trespassed
               PROVE  itemLock'[use'[v].item] = v
    BY <1>2 DEF LocksHeld, IT!Sent
  <2>1. v # w /\ use'[v] = use[v]
    BY <1>2 DEF ItemTypes, IT!Sent, IT!NoUse
  <2>2. itemLock[use[v].item] = v
    BY <2>1 DEF LocksHeld
  <2>3. use[v].item # use[w].item
    BY <2>1, <2>2 DEF LocksHeld
  <2> QED
    BY <1>2, <2>1, <2>2, <2>3 DEF ItemTypes, IT!Sent, IT!Unlocked
<1>3. ASSUME UNCHANGED <<use, itemLock, trespassed>> PROVE LocksHeld'
  BY <1>3 DEF LocksHeld
<1> QED
  BY <1>1, <1>2, <1>3 DEF IT!Next, IT!Close, IT!Collect, IT!OpenInterface, IT!LookUpNothing, IT!CloseRemove,
     IT!CloseFree, IT!ClosePush, IT!CollectStart, IT!CollectFree, IT!CollectEnd, itemVars

(* An item that leaves one place enters one other: what is closed is freed or     *)
(* pushed, and what is pushed is taken by the collector before it is freed.       *)
LEMMA NextOnePlace == ItemTypes /\ OnePlace /\ [IT!Next]_itemVars => OnePlace'
<1> SUFFICES ASSUME ItemTypes, OnePlace, [IT!Next]_itemVars PROVE OnePlace'
  OBVIOUS
<1> USE ItemsAssumption
<1>1. ASSUME NEW n \in Names, NEW i \in Items, IT!OpenInterface(n, i) PROVE OnePlace'
  <2>1. /\ i \notin IT!Tabled \cup InHand \cup IT!ToSet(garbage) \cup IT!ToSet(rest) \cup Freed \cup gone
        /\ UNCHANGED <<closing, garbage, rest>>
        /\ table' = [table EXCEPT ![n] = i]
    BY <1>1 DEF IT!OpenInterface, IT!New, Freed, InHand
  <2>2. /\ IT!Tabled' = (IT!Tabled \ {table[n]}) \cup {i}
        /\ table[n] # None => table[n] \in IT!Tabled
    <3>1. \A m \in Names : table'[m] = IF m = n THEN i ELSE table[m]
      BY <2>1 DEF ItemTypes
    <3>2. \A m \in Names : m # n /\ table[m] # None => table[m] # table[n]
      BY DEF OnePlace
    <3>3. i # None
      OBVIOUS
    <3> QED
      BY <3>1, <3>2, <3>3 DEF IT!Tabled
  <2>3. \/ UNCHANGED <<frees, gone>> /\ table[n] = None
        \/ /\ table[n] \in IT!Tabled /\ table[n] \in Items
           /\ \/ frees' = [frees EXCEPT ![table[n]] = @ + 1] /\ UNCHANGED gone
              \/ gone' = gone \cup {table[n]} /\ UNCHANGED frees
    BY <1>1, <2>2 DEF IT!OpenInterface, IT!FreeOrLose, ItemTypes
  <2>4. \A m, l \in Names : table'[m] = table'[l] /\ table'[m] # None => m = l
    <3>1. \A m \in Names : table[m] # i
      BY <2>1 DEF IT!Tabled
    <3> QED
      BY <2>1, <3>1 DEF OnePlace, ItemTypes
  <2>5. \A j \in Items : frees[j] <= 1 /\ frees[j] \in Nat
    BY DEF OnePlace, ItemTypes
  <2>6. CASE UNCHANGED <<frees, gone>> /\ table[n] = None
    <3>1. Freed' = Freed /\ InHand' = InHand /\ IT!ToSet(garbage)' = IT!ToSet(garbage) /\ IT!ToSet(rest)' = IT!ToSet(rest)
      BY <2>1, <2>6 DEF Freed, InHand
    <3> QED
      BY <2>1, <2>2, <2>4, <2>6, <3>1 DEF OnePlace, Disjoint, Distinct
  <2>7. CASE table[n] \in IT!Tabled /\ table[n] \in Items /\ frees' = [frees EXCEPT ![table[n]] = @ + 1] /\ UNCHANGED gone
    <3>0. table[n] \notin Freed
      BY <2>7 DEF OnePlace, Disjoint
    <3>1. Freed' = Freed \cup {table[n]} /\ \A j \in Items : frees'[j] <= 1
      BY <2>5, <2>7, <3>0 DEF Freed, ItemTypes
    <3>2. InHand' = InHand /\ IT!ToSet(garbage)' = IT!ToSet(garbage) /\ IT!ToSet(rest)' = IT!ToSet(rest)
      BY <2>1 DEF InHand
    <3>3. table[n] # i
      BY <2>1, <2>7
    <3> QED
      BY <2>1, <2>2, <2>4, <2>7, <3>1, <3>2, <3>3 DEF OnePlace, Disjoint, Distinct
  <2>8. CASE table[n] \in IT!Tabled /\ table[n] \in Items /\ gone' = gone \cup {table[n]} /\ UNCHANGED frees
    <3>1. Freed' = Freed /\ InHand' = InHand /\ IT!ToSet(garbage)' = IT!ToSet(garbage) /\ IT!ToSet(rest)' = IT!ToSet(rest)
      BY <2>1, <2>8 DEF Freed, InHand
    <3>2. table[n] # i
      BY <2>1, <2>8
    <3> QED
      BY <2>1, <2>2, <2>4, <2>8, <3>1, <3>2 DEF OnePlace, Disjoint, Distinct
  <2> QED
    BY <2>3, <2>6, <2>7, <2>8
<1>2. ASSUME NEW n \in Names, IT!CloseRemove(n) PROVE OnePlace'
  <2>1. table[n] \in IT!Tabled /\ table[n] \in Items /\ table' = [table EXCEPT ![n] = None]
        /\ closing.item = None /\ closing'.item = table[n]
        /\ UNCHANGED <<garbage, rest, frees, gone>>
    BY <1>2 DEF IT!CloseRemove, IT!Tabled, IT!Without, ItemTypes, IT!Open
  <2>2. IT!Tabled' = IT!Tabled \ {table[n]}
    <3>1. \A m \in Names : table'[m] = IF m = n THEN None ELSE table[m]
      BY <2>1 DEF ItemTypes
    <3>2. \A m \in Names : m # n /\ table[m] # None => table[m] # table[n]
      BY DEF OnePlace
    <3> QED
      BY <3>1, <3>2 DEF IT!Tabled
  <2>3. InHand = {} /\ InHand' = {table[n]}
    BY <2>1 DEF InHand
  <2>4. Freed' = Freed /\ IT!ToSet(garbage)' = IT!ToSet(garbage) /\ IT!ToSet(rest)' = IT!ToSet(rest)
    BY <2>1 DEF Freed
  <2>5. \A m, l \in Names : table'[m] = table'[l] /\ table'[m] # None => m = l
    BY <2>1 DEF OnePlace, ItemTypes
  <2> QED
    BY <2>1, <2>2, <2>3, <2>4, <2>5 DEF OnePlace, Disjoint, Distinct
<1>3. CASE IT!CloseFree
  <2>1. closing.item \in Items /\ InHand = {closing.item}
    BY <1>3 DEF IT!CloseFree, ItemTypes, InHand
  <2>2. CASE frees' = [frees EXCEPT ![closing.item] = @ + 1] /\ closing' = IT!Open
    <3>1. closing.item \notin Freed /\ \A j \in Items : frees[j] <= 1 /\ frees[j] \in Nat
      BY <2>1 DEF OnePlace, Disjoint, ItemTypes
    <3>2. Freed' = Freed \cup {closing.item} /\ \A j \in Items : frees'[j] <= 1
      BY <2>1, <2>2, <3>1 DEF Freed, ItemTypes
    <3>3. InHand' = {} /\ IT!Tabled' = IT!Tabled /\ gone' = gone
          /\ IT!ToSet(garbage)' = IT!ToSet(garbage) /\ IT!ToSet(rest)' = IT!ToSet(rest)
      BY <1>3, <2>2 DEF IT!CloseFree, InHand, IT!Tabled, IT!Open
    <3> QED
      BY <1>3, <2>1, <3>2, <3>3 DEF IT!CloseFree, OnePlace, Disjoint, Distinct
  <2>3. CASE closing' = [closing EXCEPT !.at = "push"] /\ UNCHANGED frees
    <3>1. InHand' = InHand /\ IT!Tabled' = IT!Tabled /\ gone' = gone /\ Freed' = Freed
          /\ IT!ToSet(garbage)' = IT!ToSet(garbage) /\ IT!ToSet(rest)' = IT!ToSet(rest)
      BY <1>3, <2>3 DEF IT!CloseFree, InHand, IT!Tabled, ItemTypes, Freed
    <3> QED
      BY <1>3, <2>3, <3>1 DEF IT!CloseFree, OnePlace, Disjoint, Distinct
  <2> QED
    BY <1>3, <2>2, <2>3 DEF IT!CloseFree
<1>4. CASE IT!ClosePush
  <2>1. closing.item \in Items /\ InHand = {closing.item} /\ InHand' = {} /\ UNCHANGED <<table, rest>>
    BY <1>4 DEF IT!ClosePush, ItemTypes, InHand, IT!Open
  <2>2. IT!Tabled' = IT!Tabled /\ IT!ToSet(rest)' = IT!ToSet(rest)
    BY <2>1 DEF IT!Tabled
  <2>3. closing.item \notin IT!Tabled \cup IT!ToSet(garbage) \cup IT!ToSet(rest) \cup Freed \cup gone
    BY <2>1 DEF OnePlace, Disjoint
  <2>4. \A j \in Items : frees[j] <= 1 /\ frees[j] \in Nat
    BY DEF OnePlace, ItemTypes
  <2>5. CASE garbage' = Append(garbage, closing.item) /\ UNCHANGED <<frees, gone>>
    <3>1. IT!ToSet(garbage)' = IT!ToSet(garbage) \cup {closing.item} /\ Distinct(garbage')
      BY <2>1, <2>3, <2>5, Queued DEF OnePlace, ItemTypes
    <3>2. Freed' = Freed
      BY <2>5 DEF Freed
    <3> QED
      BY <2>1, <2>2, <2>3, <2>5, <3>1, <3>2 DEF OnePlace, Disjoint
  <2>6. CASE frees' = [frees EXCEPT ![closing.item] = @ + 1] /\ UNCHANGED <<garbage, gone>>
    <3>1. Freed' = Freed \cup {closing.item} /\ \A j \in Items : frees'[j] <= 1
      BY <2>1, <2>3, <2>4, <2>6 DEF Freed, ItemTypes
    <3>2. IT!ToSet(garbage)' = IT!ToSet(garbage)
      BY <2>6
    <3> QED
      BY <2>1, <2>2, <2>3, <2>6, <3>1, <3>2 DEF OnePlace, Disjoint
  <2>7. CASE gone' = gone \cup {closing.item} /\ UNCHANGED <<garbage, frees>>
    <3>1. Freed' = Freed /\ IT!ToSet(garbage)' = IT!ToSet(garbage)
      BY <2>7 DEF Freed
    <3> QED
      BY <2>1, <2>2, <2>3, <2>7, <3>1 DEF OnePlace, Disjoint
  <2> QED
    BY <1>4, <2>5, <2>6, <2>7 DEF IT!ClosePush, IT!FreeOrLose
<1>5. CASE IT!CollectStart
  <2>1. rest = <<>> /\ rest' = garbage /\ garbage' = <<>> /\ UNCHANGED <<table, closing, frees, gone>>
    BY <1>5 DEF IT!CollectStart, ItemTypes
  <2>2. IT!ToSet(rest)' = IT!ToSet(garbage) /\ IT!ToSet(garbage)' = {} /\ IT!ToSet(rest) = {} /\ Distinct(garbage')
    BY <2>1 DEF IT!ToSet, Distinct
  <2>3. IT!Tabled' = IT!Tabled /\ InHand' = InHand /\ Freed' = Freed
    BY <2>1 DEF IT!Tabled, InHand, Freed
  <2> QED
    BY <2>1, <2>2, <2>3 DEF OnePlace, Disjoint
<1>6. CASE IT!CollectFree
  <2> DEFINE i == Head(rest)
  <2>1. rest # <<>> /\ rest' = Tail(rest) /\ UNCHANGED <<table, closing, gone>>
    BY <1>6 DEF IT!CollectFree
  <2>2. i \in Items /\ i \in IT!ToSet(rest) /\ IT!ToSet(rest)' = IT!ToSet(rest) \ {i} /\ Distinct(rest')
    BY <2>1, Unqueued DEF OnePlace, ItemTypes
  <2>3. IT!Tabled' = IT!Tabled /\ InHand' = InHand
    BY <2>1 DEF IT!Tabled, InHand
  <2>4. i \notin IT!Tabled \cup IT!ToSet(garbage) \cup InHand \cup Freed \cup gone
    BY <2>2 DEF OnePlace, Disjoint
  <2>5. \A j \in Items : frees[j] <= 1 /\ frees[j] \in Nat
    BY DEF OnePlace, ItemTypes
  <2>6. CASE IT!MayFree(i)
    <3>1. frees' = [frees EXCEPT ![i] = @ + 1] /\ garbage' = garbage
      BY <1>6, <2>6 DEF IT!CollectFree, IT!Kept
    <3>2. Freed' = Freed \cup {i} /\ \A j \in Items : frees'[j] <= 1
      BY <2>2, <2>4, <2>5, <3>1 DEF Freed, ItemTypes
    <3>3. IT!ToSet(garbage)' = IT!ToSet(garbage)
      BY <3>1
    <3> HIDE DEF i
    <3> QED
      BY <2>1, <2>2, <2>3, <2>4, <3>1, <3>2, <3>3 DEF OnePlace, Disjoint
  <2>7. CASE ~IT!MayFree(i)
    <3>1. frees' = frees /\ garbage' = Append(garbage, i)
      <4>1. frees' = [frees EXCEPT ![i] = frees[i]]
        BY <1>6, <2>7 DEF IT!CollectFree
      <4> QED
        BY <1>6, <2>2, <2>7, <4>1 DEF IT!CollectFree, IT!Kept, ItemTypes
    <3>2. IT!ToSet(garbage)' = IT!ToSet(garbage) \cup {i} /\ Distinct(garbage')
      BY <2>2, <2>4, <3>1, Queued DEF OnePlace, ItemTypes
    <3>3. Freed' = Freed
      BY <3>1 DEF Freed
    <3> HIDE DEF i
    <3> QED
      BY <2>1, <2>2, <2>3, <2>4, <3>1, <3>2, <3>3 DEF OnePlace, Disjoint
  <2> QED
    BY <2>6, <2>7
<1>7. ASSUME UNCHANGED <<table, closing, garbage, rest, frees, gone>> PROVE OnePlace'
  <2>1. /\ IT!Tabled' = IT!Tabled /\ InHand' = InHand /\ Freed' = Freed
        /\ IT!ToSet(garbage)' = IT!ToSet(garbage) /\ IT!ToSet(rest)' = IT!ToSet(rest)
    BY <1>7 DEF IT!Tabled, InHand, Freed
  <2> QED
    BY <1>7, <2>1 DEF OnePlace, Distinct
<1> QED
  BY <1>1, <1>2, <1>3, <1>4, <1>5, <1>6, <1>7 DEF IT!Next, IT!Close, IT!Collect, IT!LookUp, IT!LookUpNothing,
     IT!Sent, IT!CollectEnd, itemVars

(* A set with no two elements counts one if it has any. *)
LEMMA OneAtMost ==
    ASSUME NEW S, \A x, y \in S : x = y
    PROVE  Cardinality(S) = IF S = {} THEN 0 ELSE 1
<1>1. CASE S = {}
  BY <1>1, FS_EmptySet
<1>2. CASE S # {}
  <2>1. PICK x : x \in S
    BY <1>2
  <2>2. S = {x}
    BY <2>1
  <2> QED
    BY <1>2, <2>2, FS_Singleton
<1> QED
  BY <1>1, <1>2

(* The model counts with the operator of FiniteSets. *)
LEMMA SameCardinality == \A S : IT!Cardinality(S) = Cardinality(S)
BY DEF IT!Cardinality, Cardinality

(* One place for an item is one keeper. *)
LEMMA KeeperIs == ItemTypes /\ OnePlace => IT!OneKeeper
<1> SUFFICES ASSUME ItemTypes, OnePlace, NEW i \in Items
             PROVE  Cardinality({n \in Names : table[n] = i})
                      + (IF closing.item = i THEN 1 ELSE 0)
                      + Cardinality({p \in DOMAIN garbage : garbage[p] = i})
                      + Cardinality({p \in DOMAIN rest : rest[p] = i})
                      + frees[i]
                      + (IF i \in gone THEN 1 ELSE 0) <= 1
  BY SameCardinality DEF IT!OneKeeper
<1> USE ItemsAssumption
<1>1. i # None
  OBVIOUS
<1>2. Cardinality({n \in Names : table[n] = i}) = IF i \in IT!Tabled THEN 1 ELSE 0
  <2>1. \A m, n \in {n \in Names : table[n] = i} : m = n
    BY <1>1 DEF OnePlace
  <2>2. {n \in Names : table[n] = i} = {} <=> i \notin IT!Tabled
    BY <1>1 DEF IT!Tabled
  <2> QED
    BY <2>1, <2>2, OneAtMost
<1>3. Cardinality({p \in DOMAIN garbage : garbage[p] = i}) = IF i \in IT!ToSet(garbage) THEN 1 ELSE 0
  <2>1. \A p, q \in {p \in DOMAIN garbage : garbage[p] = i} : p = q
    BY DEF OnePlace, Distinct
  <2>2. {p \in DOMAIN garbage : garbage[p] = i} = {} <=> i \notin IT!ToSet(garbage)
    BY DEF IT!ToSet
  <2> QED
    BY <2>1, <2>2, OneAtMost
<1>4. Cardinality({p \in DOMAIN rest : rest[p] = i}) = IF i \in IT!ToSet(rest) THEN 1 ELSE 0
  <2>1. \A p, q \in {p \in DOMAIN rest : rest[p] = i} : p = q
    BY DEF OnePlace, Distinct
  <2>2. {p \in DOMAIN rest : rest[p] = i} = {} <=> i \notin IT!ToSet(rest)
    BY DEF IT!ToSet
  <2> QED
    BY <2>1, <2>2, OneAtMost
<1>5. (IF closing.item = i THEN 1 ELSE 0) = IF i \in InHand THEN 1 ELSE 0
  BY <1>1 DEF InHand
<1>6. frees[i] = IF i \in Freed THEN 1 ELSE 0
  BY DEF OnePlace, ItemTypes, Freed
<1>7. /\ i \in IT!Tabled => i \notin InHand \cup IT!ToSet(garbage) \cup IT!ToSet(rest) \cup Freed \cup gone
      /\ i \in InHand => i \notin IT!ToSet(garbage) \cup IT!ToSet(rest) \cup Freed \cup gone
      /\ i \in IT!ToSet(garbage) => i \notin IT!ToSet(rest) \cup Freed \cup gone
      /\ i \in IT!ToSet(rest) => i \notin Freed \cup gone
      /\ i \in Freed => i \notin gone
  BY DEF OnePlace, Disjoint
<1> QED
  BY <1>2, <1>3, <1>4, <1>5, <1>6, <1>7


(* No worker has an item in use that is freed: what is in hand to be freed has no *)
(* lock, and whoever uses one holds it.                                           *)
LEMMA NextUntouched ==
    ItemTypes /\ OnePlace /\ LocksHeld /\ IT!FreedUnused /\ [IT!Next]_itemVars => IT!FreedUnused'
<1> SUFFICES ASSUME ItemTypes, OnePlace, LocksHeld, IT!FreedUnused, [IT!Next]_itemVars,
                    NEW i \in Items \ trespassed', frees'[i] > 0, NEW v \in Workers, use'[v].item = i
             PROVE  FALSE
  BY DEF IT!FreedUnused, IT!Used
<1> USE ItemsAssumption
<1>1. i \notin trespassed
  BY DEF IT!Next, IT!Close, IT!Collect, IT!OpenInterface, IT!LookUp, IT!LookUpNothing, IT!Sent, IT!CloseRemove,
     IT!CloseFree, IT!ClosePush, IT!CollectStart, IT!CollectFree, IT!CollectEnd, itemVars
<1>2. frees[i] \in Nat /\ (frees[i] > 0 => use[v].item # i) /\ (use[v].item = i => itemLock[i] = v)
  BY <1>1 DEF IT!FreedUnused, IT!Used, LocksHeld, ItemTypes
(* Whoever frees the item finds its lock free. *)
<1>3. CASE UNCHANGED use
  <2>1. use[v].item = i /\ itemLock[i] # None /\ frees[i] = 0
    BY <1>2, <1>3
  <2>2. ~IT!MayFree(i)
    BY <2>1 DEF IT!MayFree
  <2>3. ASSUME NEW j \in Items, IT!FreeOrLose(j) PROVE FALSE
    <3>1. j # i => frees'[i] = frees[i]
      BY <2>3 DEF IT!FreeOrLose, ItemTypes
    <3> QED
      BY <2>1, <2>2, <2>3, <3>1 DEF IT!FreeOrLose
  <2>4. ASSUME NEW n \in Names, NEW k \in Items, IT!OpenInterface(n, k) PROVE FALSE
    BY <2>1, <2>3, <2>4 DEF IT!OpenInterface, ItemTypes
  <2>5. ASSUME IT!CloseFree PROVE FALSE
    <3>1. closing.item \in Items /\ closing.item # i => frees'[i] = frees[i]
      BY <2>5 DEF IT!CloseFree, ItemTypes
    <3>2. closing.item = i => frees' = frees
      BY <2>2, <2>5 DEF IT!CloseFree
    <3>3. closing.item \in Items
      BY <2>5 DEF IT!CloseFree, ItemTypes
    <3> QED
      BY <2>1, <3>1, <3>2, <3>3
  <2>6. ASSUME IT!ClosePush PROVE FALSE
    BY <2>1, <2>3, <2>6 DEF IT!ClosePush, ItemTypes
  <2>7. ASSUME IT!CollectFree PROVE FALSE
    BY <2>1, <2>2, <2>7 DEF IT!CollectFree, ItemTypes
  <2>8. ASSUME UNCHANGED frees PROVE FALSE
    BY <2>1, <2>8
  <2> QED
    BY <2>4, <2>5, <2>6, <2>7, <2>8 DEF IT!Next, IT!Close, IT!Collect, IT!LookUp, IT!LookUpNothing, IT!Sent,
       IT!CloseRemove, IT!CollectStart, IT!CollectEnd, itemVars
<1>4. ASSUME NEW w \in Workers, NEW n \in Names, IT!LookUp(w, n) PROVE FALSE
  <2>1. frees'[i] = frees[i] /\ use[v].item # i
    BY <1>2, <1>4 DEF IT!LookUp
  <2>2. table[n] = i
    BY <1>4, <2>1 DEF IT!LookUp, ItemTypes
  <2>3. i \in IT!Tabled /\ i \in Freed
    BY <1>4, <2>2, <2>1 DEF IT!LookUp, IT!Tabled, Freed
  <2> QED
    BY <2>3 DEF OnePlace, Disjoint
<1>5. ASSUME NEW w \in Workers, IT!Sent(w) PROVE FALSE
  BY <1>2, <1>5 DEF IT!Sent, IT!NoUse, ItemTypes
<1> QED
  BY <1>3, <1>4, <1>5 DEF IT!Next, IT!Close, IT!Collect, IT!OpenInterface, IT!LookUpNothing, IT!CloseRemove,
     IT!CloseFree, IT!ClosePush, IT!CollectStart, IT!CollectFree, IT!CollectEnd, itemVars

-----------------------------------------------------------------------------
Steps == {"wait", "in"}
SetCalls == [at : Steps, op : {"set"}, id : StoreId, request : Requests]
GetCalls == [at : Steps, op : {"get"}, id : StoreId]
DropCalls == [at : Steps, op : {"drop"}, socket : StoreSocket]

Waits == {id \in StoreId : store[id] # Nobody}
Sets == {c \in Caller : call[c] \in SetCalls}
Stored == {store[id].message : id \in Waits}
InCall == {call[c].request.message : c \in Sets}
Over == {m \in StoreMessage : ends[m] > 0}

StoreTypes ==
    /\ store \in [StoreId -> Requests \cup {Nobody}]
    /\ call \in [Caller -> {AS!NoCall} \cup SetCalls \cup GetCalls \cup DropCalls]
    /\ clock \in 0 .. StoreTime
    /\ used \subseteq StoreMessage
    /\ ends \in [StoreMessage -> Nat]

(* Who has the lock is at work, and only then is anything overdue. *)
AtWork ==
    /\ \A c \in Caller : call[c].at = "in" <=> holder = c
    /\ invalidate = "running" <=> holder = "timer"
    /\ overdue # {} => invalidate = "running"
    /\ \A id \in overdue : id \in Waits /\ AS!Deadline(store[id]) < clock

Fates ==
    /\ \A i, j \in Waits : store[i].message = store[j].message => i = j
    /\ \A c, d \in Sets : call[c].request.message = call[d].request.message => c = d
    /\ \A m \in StoreMessage : ends[m] <= 1
    /\ Disjoint(Stored, InCall \cup Over)
    /\ Disjoint(InCall, Over)
    /\ used = Stored \cup InCall \cup Over
    /\ \E k \in Nat : used = 1 .. k

(* Calls are told apart by their fields. *)
LEMMA CallKinds ==
    /\ AS!NoCall.at = "none" /\ AS!NoCall \notin SetCalls \cup GetCalls \cup DropCalls
    /\ \A x \in SetCalls : /\ x.at \in Steps /\ x.op = "set" /\ x.id \in StoreId /\ x.request \in Requests
                           /\ [x EXCEPT !.at = "in"] \in SetCalls
                           /\ [x EXCEPT !.at = "in"].request = x.request
                           /\ [x EXCEPT !.at = "in"].at = "in"
    /\ \A x \in GetCalls : /\ x.at \in Steps /\ x.op = "get" /\ x.id \in StoreId
                           /\ [x EXCEPT !.at = "in"] \in GetCalls
                           /\ [x EXCEPT !.at = "in"].at = "in"
    /\ \A x \in DropCalls : /\ x.at \in Steps /\ x.op = "drop" /\ x.socket \in StoreSocket
                            /\ [x EXCEPT !.at = "in"] \in DropCalls
                            /\ [x EXCEPT !.at = "in"].at = "in"
<1>1. AS!NoCall.at = "none" /\ AS!NoCall.at \notin Steps
  BY DEF AS!NoCall, Steps
<1>2. \A x \in SetCalls : /\ x.at \in Steps /\ x.op = "set" /\ x.id \in StoreId /\ x.request \in Requests
                          /\ [x EXCEPT !.at = "in"] \in SetCalls
                          /\ [x EXCEPT !.at = "in"].request = x.request
                          /\ [x EXCEPT !.at = "in"].at = "in"
  BY DEF SetCalls, Steps
<1>3. \A x \in GetCalls : /\ x.at \in Steps /\ x.op = "get" /\ x.id \in StoreId
                           /\ [x EXCEPT !.at = "in"] \in GetCalls
                           /\ [x EXCEPT !.at = "in"].at = "in"
  BY DEF GetCalls, Steps
<1>4. \A x \in DropCalls : /\ x.at \in Steps /\ x.op = "drop" /\ x.socket \in StoreSocket
                            /\ [x EXCEPT !.at = "in"] \in DropCalls
                            /\ [x EXCEPT !.at = "in"].at = "in"
  BY DEF DropCalls, Steps
<1>5. AS!NoCall \notin SetCalls \cup GetCalls \cup DropCalls
  BY <1>1, <1>2, <1>3, <1>4
<1> QED
  BY <1>1, <1>2, <1>3, <1>4, <1>5, Zenon

(* A call is none, or one of the three, told apart by what is asked. *)
LEMMA CallIs ==
    ASSUME StoreTypes, NEW c \in Caller
    PROVE  /\ call[c] = AS!NoCall \/ call[c] \in SetCalls \/ call[c] \in GetCalls \/ call[c] \in DropCalls
           /\ call[c].at \in Steps <=> call[c] # AS!NoCall
           /\ c \in Sets <=> call[c] # AS!NoCall /\ call[c].op = "set"
           /\ call[c].at \in Steps /\ call[c].op = "get" => call[c] \in GetCalls
           /\ call[c].at \in Steps /\ call[c].op = "drop" => call[c] \in DropCalls
<1>1. call[c] = AS!NoCall \/ call[c] \in SetCalls \/ call[c] \in GetCalls \/ call[c] \in DropCalls
  BY DEF StoreTypes
<1>2. CASE call[c] = AS!NoCall
  <2>1. call[c].at \notin Steps /\ call[c] \notin SetCalls
    BY <1>2, CallKinds DEF Steps
  <2> QED
    BY <1>2, <2>1 DEF Sets
<1>3. CASE call[c] \in SetCalls
  <2>1. call[c].at \in Steps /\ call[c].op = "set" /\ call[c] # AS!NoCall
    BY <1>3, CallKinds
  <2> QED
    BY <1>3, <2>1 DEF Sets
<1>4. CASE call[c] \in GetCalls
  <2>1. call[c].at \in Steps /\ call[c].op = "get" /\ call[c] # AS!NoCall /\ call[c] \notin SetCalls
    BY <1>4, CallKinds
  <2> QED
    BY <1>4, <2>1 DEF Sets
<1>5. CASE call[c] \in DropCalls
  <2>1. call[c].at \in Steps /\ call[c].op = "drop" /\ call[c] # AS!NoCall /\ call[c] \notin SetCalls
    BY <1>5, CallKinds
  <2> QED
    BY <1>5, <2>1 DEF Sets
<1> QED
  BY <1>1, <1>2, <1>3, <1>4, <1>5

(* The store is created empty, without calls. *)
LEMMA InitStore == AS!Init => StoreTypes /\ AtWork /\ Fates
<1> SUFFICES ASSUME AS!Init PROVE StoreTypes /\ AtWork /\ Fates
  OBVIOUS
<1> USE StoreAssumption
<1>1. StoreTypes
  BY DEF AS!Init, StoreTypes
<1>2. AtWork
  BY CallKinds DEF AS!Init, AtWork
<1>3. Waits = {} /\ Sets = {} /\ Over = {}
  BY CallKinds DEF AS!Init, Waits, Sets, Over
<1>4. Stored = {} /\ InCall = {} /\ used = 1 .. 0
  BY <1>3 DEF Stored, InCall, AS!Init
<1>5. Fates
  BY <1>3, <1>4 DEF Fates, Disjoint, AS!Init
<1> QED
  BY <1>1, <1>2, <1>5

(* Messages that end had not ended before. *)
LEMMA MessagesEnd ==
    ASSUME StoreTypes, Fates, NEW out \in SUBSET (Stored \cup InCall), AS!Ended(out)
    PROVE  /\ ends' \in [StoreMessage -> Nat] /\ \A m \in StoreMessage : ends'[m] <= 1
           /\ Over' = Over \cup out
<1>1. \A m \in StoreMessage : ends[m] \in Nat /\ ends[m] <= 1
  BY DEF StoreTypes, Fates
<1>2. ends' = [m \in StoreMessage |-> IF m \in out THEN ends[m] + 1 ELSE ends[m]]
  BY DEF AS!Ended
<1>3. \A m \in out : m \in StoreMessage /\ m \notin Over
  BY DEF Fates, Disjoint, StoreTypes
<1>4. \A m \in out : ends[m] = 0
  BY <1>1, <1>3 DEF Over
<1> QED
  BY <1>1, <1>2, <1>3, <1>4 DEF Over

(* Requests are taken out of the store. *)
LEMMA RequestsGo ==
    ASSUME StoreTypes, Fates, NEW ids \in SUBSET StoreId,
           store' = [id \in StoreId |-> IF id \in ids THEN Nobody ELSE store[id]]
    PROVE  /\ store' \in [StoreId -> Requests \cup {Nobody}]
           /\ Waits' = Waits \ ids
           /\ \A id \in Waits' : store'[id] = store[id]
           /\ Stored' = Stored \ {store[id].message : id \in Waits \cap ids}
<1>1. store' \in [StoreId -> Requests \cup {Nobody}]
  BY DEF StoreTypes
<1>2. Waits' = Waits \ ids
  BY DEF Waits
<1>3. \A id \in Waits' : store'[id] = store[id]
  BY <1>2 DEF Waits
<1>4. \A i, j \in Waits : store[i].message = store[j].message => i = j
  BY DEF Fates
<1>5. Stored' = {store[id].message : id \in Waits \ ids}
  BY <1>2, <1>3 DEF Stored
<1> QED
  BY <1>1, <1>2, <1>3, <1>4, <1>5 DEF Stored

(* A call is over. *)
LEMMA CallEnds ==
    ASSUME StoreTypes, Fates, NEW c \in Caller, call' = [call EXCEPT ![c] = AS!NoCall]
    PROVE  /\ call' \in [Caller -> {AS!NoCall} \cup SetCalls \cup GetCalls \cup DropCalls]
           /\ Sets' = Sets \ {c}
           /\ \A d \in Sets' : call'[d] = call[d]
           /\ c \in Sets => InCall' = InCall \ {call[c].request.message}
           /\ c \notin Sets => InCall' = InCall
<1>1. call' \in [Caller -> {AS!NoCall} \cup SetCalls \cup GetCalls \cup DropCalls]
  BY DEF StoreTypes
<1>2. \A d \in Caller : call'[d] = IF d = c THEN AS!NoCall ELSE call[d]
  BY DEF StoreTypes
<1>3. Sets' = Sets \ {c}
  BY <1>2, CallKinds DEF Sets
<1>4. \A d \in Sets' : call'[d] = call[d]
  BY <1>2, <1>3 DEF Sets
<1>5. \A d, e \in Sets : call[d].request.message = call[e].request.message => d = e
  BY DEF Fates
<1>6. InCall' = {call[d].request.message : d \in Sets \ {c}}
  BY <1>3, <1>4 DEF InCall
<1> QED
  BY <1>1, <1>3, <1>4, <1>5, <1>6 DEF InCall

(* What the calls leave of the messages: some end, the others stay. *)
LEMMA OthersKeepFate ==
    ASSUME StoreTypes, Fates, NEW out \in SUBSET (Stored \cup InCall), AS!Ended(out), UNCHANGED used,
           \A id \in Waits' : id \in Waits /\ store'[id] = store[id],
           \A c \in Sets' : c \in Sets /\ call'[c] = call[c],
           Stored' \cup InCall' = (Stored \cup InCall) \ out, Stored' \subseteq Stored, InCall' \subseteq InCall
    PROVE  Fates'
<1>1. (\A m \in StoreMessage : ends'[m] <= 1) /\ Over' = Over \cup out
  BY MessagesEnd
<1>2. \A i, j \in Waits' : store'[i].message = store'[j].message => i = j
  BY DEF Fates
<1>3. \A c, d \in Sets' : call'[c].request.message = call'[d].request.message => c = d
  BY DEF Fates
<1>4. Disjoint(Stored', InCall' \cup Over') /\ Disjoint(InCall', Over')
  BY <1>1 DEF Fates, Disjoint
<1>5. used' = Stored' \cup InCall' \cup Over' /\ \E k \in Nat : used' = 1 .. k
  BY <1>1 DEF Fates
<1> QED
  BY <1>1, <1>2, <1>3, <1>4, <1>5 DEF Fates, Disjoint

(* The messages waiting under an id are the one that is there. *)
LEMMA WaitingIs ==
    ASSUME NEW id \in StoreId
    PROVE  /\ id \in Waits => AS!Waiting(id) = {store[id].message}
           /\ id \notin Waits => AS!Waiting(id) = {}
           /\ AS!Waiting(id) \subseteq Stored
BY DEF AS!Waiting, Waits, Stored

(* A request enters the store in place of the one that had its id. *)
LEMMA SetFate ==
    ASSUME StoreTypes, AtWork, Fates, NEW c \in Caller, AS!DoSet(c)
    PROVE  StoreTypes' /\ Fates'
<1> USE StoreAssumption
<1> DEFINE id == call[c].id
<1> DEFINE r == call[c].request
<1>1. c \in Sets /\ id \in StoreId /\ r \in Requests
  <2>1. call[c].at \in Steps /\ call[c].op = "set"
    BY DEF AS!DoSet, Steps
  <2>2. c \in Sets
    BY <2>1, CallIs
  <2> QED
    BY <2>2, CallKinds DEF Sets
<1>2. /\ store' = [store EXCEPT ![id] = r] /\ AS!Ended(AS!Waiting(id))
      /\ call' = [call EXCEPT ![c] = AS!NoCall] /\ UNCHANGED <<clock, used>>
  BY DEF AS!DoSet, AS!Replaced, AS!Leave
<1>3. /\ call' \in [Caller -> {AS!NoCall} \cup SetCalls \cup GetCalls \cup DropCalls]
      /\ Sets' = Sets \ {c} /\ \A d \in Sets' : call'[d] = call[d]
      /\ InCall' = InCall \ {r.message} /\ r.message \in InCall
  <2>1. r.message \in InCall
    BY <1>1 DEF InCall
  <2> QED
    BY <1>1, <1>2, <2>1, CallEnds
<1>4. AS!Waiting(id) \subseteq Stored
  BY <1>1, WaitingIs
<1>5. /\ ends' \in [StoreMessage -> Nat] /\ \A m \in StoreMessage : ends'[m] <= 1
      /\ Over' = Over \cup AS!Waiting(id)
  BY <1>2, <1>4, MessagesEnd
<1> HIDE DEF id, r
<1>6. store' \in [StoreId -> Requests \cup {Nobody}] /\ \A i \in StoreId : store'[i] = IF i = id THEN r ELSE store[i]
  BY <1>1, <1>2 DEF StoreTypes
<1>7. Waits' = Waits \cup {id} /\ r # Nobody
  BY <1>1, <1>6 DEF Waits
<1>8. /\ \A i \in Waits \ {id} : store'[i] = store[i]
      /\ store'[id] = r
  BY <1>1, <1>6 DEF Waits
<1>9. \A i, j \in Waits : store[i].message = store[j].message => i = j
  BY DEF Fates
<1>10. Stored' = (Stored \ AS!Waiting(id)) \cup {r.message}
  <2>1. Stored' = {store[i].message : i \in Waits \ {id}} \cup {r.message}
    BY <1>7, <1>8 DEF Stored
  <2>2. {store[i].message : i \in Waits \ {id}} = Stored \ AS!Waiting(id)
    <3>1. CASE id \in Waits
      BY <1>1, <1>9, <3>1, WaitingIs DEF Stored
    <3>2. CASE id \notin Waits
      BY <1>1, <3>2, WaitingIs DEF Stored
    <3> QED
      BY <3>1, <3>2
  <2> QED
    BY <2>1, <2>2
<1>11. \A i, j \in Waits' : store'[i].message = store'[j].message => i = j
  <2>1. \A i \in Waits : store[i].message # r.message
    BY <1>3 DEF Fates, Disjoint, Stored
  <2> QED
    BY <1>7, <1>8, <1>9, <2>1
<1>12. \A d, e \in Sets' : call'[d].request.message = call'[e].request.message => d = e
  BY <1>3 DEF Fates
<1>13. Disjoint(Stored', InCall' \cup Over') /\ Disjoint(InCall', Over')
  BY <1>3, <1>4, <1>5, <1>10 DEF Fates, Disjoint
<1>14. used' = Stored' \cup InCall' \cup Over' /\ \E k \in Nat : used' = 1 .. k
  BY <1>2, <1>3, <1>4, <1>5, <1>10 DEF Fates
<1>15. StoreTypes'
  BY <1>2, <1>3, <1>5, <1>6 DEF StoreTypes
<1>16. Fates'
  BY <1>5, <1>11, <1>12, <1>13, <1>14 DEF Fates, Disjoint
<1> QED
  BY <1>15, <1>16

(* A message is new to the store. *)
LEMMA AskFate ==
    ASSUME StoreTypes, Fates, NEW c \in Caller, NEW id \in StoreId, NEW m \in StoreMessage, NEW s \in StoreSocket,
           NEW life \in Lifetimes, NEW told \in BOOLEAN, AS!Set(c, id, m, s, life, told)
    PROVE  StoreTypes' /\ Fates'
<1> USE StoreAssumption
<1> DEFINE x == [at |-> "wait", op |-> "set", id |-> id, request |-> AS!Request(m, s, clock, life, told)]
<1>1. x \in SetCalls /\ x.request.message = m
  BY DEF AS!Request, SetCalls, Steps, Requests, StoreTypes
<1>2. /\ call[c] = AS!NoCall /\ m = Cardinality(used) + 1 /\ call' = [call EXCEPT ![c] = x]
      /\ used' = used \cup {m} /\ UNCHANGED <<store, clock, ends>>
  <2>1. AS!Cardinality(used) = Cardinality(used)
    BY DEF AS!Cardinality, Cardinality
  <2> QED
    BY <2>1 DEF AS!Set
<1> HIDE DEF x
<1>3. call' \in [Caller -> {AS!NoCall} \cup SetCalls \cup GetCalls \cup DropCalls]
      /\ \A d \in Caller : call'[d] = IF d = c THEN x ELSE call[d]
  BY <1>1, <1>2 DEF StoreTypes
<1>4. StoreTypes'
  BY <1>2, <1>3 DEF StoreTypes
<1>5. PICK k \in Nat : used = 1 .. k
  BY DEF Fates
<1>6. m = k + 1 /\ m \notin used /\ used' = 1 .. k + 1
  <2>1. Cardinality(used) = k
    BY <1>5, FS_Interval
  <2> QED
    BY <1>2, <1>5, <2>1
<1>7. c \notin Sets /\ Sets' = Sets \cup {c} /\ call'[c] = x /\ \A d \in Sets : call'[d] = call[d]
  BY <1>1, <1>2, <1>3, CallKinds DEF Sets
<1>8. InCall' = InCall \cup {m}
  BY <1>1, <1>7 DEF InCall
<1>9. Waits' = Waits /\ Stored' = Stored /\ Over' = Over
  BY <1>2 DEF Waits, Stored, Over
<1>10. m \notin Stored \cup InCall \cup Over
  BY <1>6 DEF Fates
<1>11. \A d, e \in Sets' : call'[d].request.message = call'[e].request.message => d = e
  <2>1. \A d \in Sets : call[d].request.message # m
    BY <1>10 DEF InCall
  <2>2. \A d, e \in Sets : call[d].request.message = call[e].request.message => d = e
    BY DEF Fates
  <2> QED
    BY <1>1, <1>7, <2>1, <2>2
<1>12. \A i, j \in Waits' : store'[i].message = store'[j].message => i = j
  BY <1>2, <1>9 DEF Fates
<1>13. Disjoint(Stored', InCall' \cup Over') /\ Disjoint(InCall', Over')
  BY <1>8, <1>9, <1>10 DEF Fates, Disjoint
<1>14. used' = Stored' \cup InCall' \cup Over' /\ \E j \in Nat : used' = 1 .. j
  <2>1. k + 1 \in Nat
    OBVIOUS
  <2>2. used' = Stored' \cup InCall' \cup Over'
    BY <1>2, <1>8, <1>9 DEF Fates
  <2> QED
    BY <1>6, <2>1, <2>2
<1>15. \A j \in StoreMessage : ends'[j] <= 1
  BY <1>2 DEF Fates
<1>16. Fates'
  BY <1>11, <1>12, <1>13, <1>14, <1>15 DEF Fates, Disjoint
<1> QED
  BY <1>4, <1>16

(* Requests leave the store by a call, or with its end. *)
LEMMA RemovalFate ==
    ASSUME StoreTypes, Fates, NEW ids \in SUBSET StoreId,
           store' = [id \in StoreId |-> IF id \in ids THEN Nobody ELSE store[id]],
           AS!Ended({store[id].message : id \in Waits \cap ids}),
           UNCHANGED <<clock, used>>,
           \/ UNCHANGED call
           \/ \E c \in Caller \ Sets : call' = [call EXCEPT ![c] = AS!NoCall]
    PROVE  StoreTypes' /\ Fates'
<1> DEFINE out == {store[id].message : id \in Waits \cap ids}
<1>1. /\ store' \in [StoreId -> Requests \cup {Nobody}]
      /\ Waits' = Waits \ ids /\ \A id \in Waits' : store'[id] = store[id]
      /\ Stored' = Stored \ out
  BY RequestsGo
<1>2. out \subseteq Stored
  BY DEF Stored
<1>3. /\ call' \in [Caller -> {AS!NoCall} \cup SetCalls \cup GetCalls \cup DropCalls]
      /\ \A d \in Sets' : d \in Sets /\ call'[d] = call[d]
      /\ InCall' = InCall
  <2>1. CASE UNCHANGED call
    BY <2>1 DEF StoreTypes, Sets, InCall
  <2>2. ASSUME NEW c \in Caller \ Sets, call' = [call EXCEPT ![c] = AS!NoCall]
        PROVE  /\ call' \in [Caller -> {AS!NoCall} \cup SetCalls \cup GetCalls \cup DropCalls]
               /\ \A d \in Sets' : d \in Sets /\ call'[d] = call[d]
               /\ InCall' = InCall
    BY <2>2, CallEnds
  <2> QED
    BY <2>1, <2>2
<1>4. AS!Ended(out) /\ UNCHANGED used
  OBVIOUS
<1> HIDE DEF out
<1>5. ends' \in [StoreMessage -> Nat]
  BY <1>2, <1>4, MessagesEnd
<1>6. StoreTypes'
  BY <1>1, <1>3, <1>5 DEF StoreTypes
<1>7. \A id \in Waits' : id \in Waits /\ store'[id] = store[id]
  BY <1>1
<1>8. Stored' \cup InCall' = (Stored \cup InCall) \ out /\ Stored' \subseteq Stored /\ InCall' \subseteq InCall
  BY <1>1, <1>2, <1>3 DEF Fates, Disjoint
<1>9. out \in SUBSET (Stored \cup InCall)
  BY <1>2
<1>10. Fates'
  BY <1>3, <1>4, <1>7, <1>8, <1>9, OthersKeepFate
<1> QED
  BY <1>6, <1>10

(* invalidate_run takes the requests out whose time is over, and ends them. *)
LEMMA TimedOutFate ==
    ASSUME StoreTypes, Fates, NEW c \in Caller, AS!TimedOut(c)
    PROVE  StoreTypes' /\ Fates'
<1> DEFINE out == IF c \in Sets THEN {call[c].request.message} ELSE {}
<1>1. /\ call' = [call EXCEPT ![c] = AS!NoCall] /\ UNCHANGED <<store, clock, used>>
      /\ call[c].at \in Steps
  BY DEF AS!TimedOut, Steps
<1>2. call[c].op = "set" <=> c \in Sets
  BY <1>1, CallIs
<1>3. AS!Ended(out)
  <2>1. (IF call[c].op = "set" THEN {call[c].request.message} ELSE {}) = out
    BY <1>2
  <2> QED
    BY <2>1 DEF AS!TimedOut
<1>4. /\ call' \in [Caller -> {AS!NoCall} \cup SetCalls \cup GetCalls \cup DropCalls]
      /\ Sets' = Sets \ {c} /\ \A d \in Sets' : call'[d] = call[d]
      /\ InCall' = InCall \ out
  BY <1>1, CallEnds
<1>5. out \subseteq InCall
  BY DEF InCall
<1> HIDE DEF out
<1>6. Waits' = Waits /\ Stored' = Stored
  BY <1>1 DEF Waits, Stored
<1>7. out \in SUBSET (Stored \cup InCall)
  BY <1>5
<1>8. ends' \in [StoreMessage -> Nat]
  BY <1>3, <1>7, MessagesEnd
<1>9. StoreTypes'
  BY <1>1, <1>4, <1>8 DEF StoreTypes
<1>10. Stored' \cup InCall' = (Stored \cup InCall) \ out /\ Stored' \subseteq Stored /\ InCall' \subseteq InCall
  BY <1>4, <1>5, <1>6 DEF Fates, Disjoint
<1>11. \A id \in Waits' : id \in Waits /\ store'[id] = store[id]
  BY <1>1, <1>6
<1>12. \A d \in Sets' : d \in Sets /\ call'[d] = call[d]
  BY <1>4
<1>13. Fates'
  BY <1>1, <1>3, <1>7, <1>10, <1>11, <1>12, OthersKeepFate
<1> QED
  BY <1>9, <1>13

(* The other calls begin and get the lock, which is no message's fate. *)
LEMMA CallFate ==
    ASSUME StoreTypes, Fates, NEW c \in Caller, UNCHANGED <<store, used, ends>>, clock' \in 0 .. StoreTime,
           NEW x \in {AS!NoCall} \cup SetCalls \cup GetCalls \cup DropCalls, call' = [call EXCEPT ![c] = x],
           c \in Sets <=> x \in SetCalls, c \in Sets => x.request = call[c].request
    PROVE  StoreTypes' /\ Fates'
<1>1. StoreTypes'
  BY DEF StoreTypes
<1>2. Waits' = Waits /\ Stored' = Stored /\ Over' = Over
  BY DEF Waits, Stored, Over
<1>3. Sets' = Sets /\ \A d \in Sets : call'[d].request = call[d].request
  BY DEF Sets, StoreTypes
<1>4. InCall' = InCall
  BY <1>3 DEF InCall
<1>5. /\ \A i, j \in Waits' : store'[i].message = store'[j].message => i = j
      /\ \A d, e \in Sets' : call'[d].request.message = call'[e].request.message => d = e
      /\ \A m \in StoreMessage : ends'[m] <= 1
  BY <1>2, <1>3 DEF Fates
<1>6. /\ Disjoint(Stored', InCall' \cup Over') /\ Disjoint(InCall', Over')
      /\ used' = Stored' \cup InCall' \cup Over' /\ \E k \in Nat : used' = 1 .. k
  BY <1>2, <1>4 DEF Fates, Disjoint
<1> QED
  BY <1>1, <1>5, <1>6 DEF Fates, Disjoint

(* Calls that touch neither the store nor a call change no fate. *)
LEMMA SameFate ==
    ASSUME StoreTypes, Fates, UNCHANGED <<store, call, used, ends>>, clock' \in 0 .. StoreTime
    PROVE  StoreTypes' /\ Fates'
<1>1. StoreTypes'
  BY DEF StoreTypes
<1>2. Waits' = Waits /\ Stored' = Stored /\ Over' = Over /\ Sets' = Sets /\ InCall' = InCall
  BY DEF Waits, Stored, Over, Sets, InCall
<1>3. Fates'
  BY <1>2 DEF Fates, Disjoint
<1> QED
  BY <1>1, <1>3

(* dtn_async_set, get and drop, the timer and the end of the store: a message is *)
(* in one place, and ends once.                                                   *)
LEMMA NextFate == StoreTypes /\ AtWork /\ Fates /\ [AS!Next]_storeVars => StoreTypes' /\ Fates'
<1> SUFFICES ASSUME StoreTypes, AtWork, Fates, [AS!Next]_storeVars PROVE StoreTypes' /\ Fates'
  OBVIOUS
<1> USE StoreAssumption
<1>0. clock \in 0 .. StoreTime
  BY DEF StoreTypes
<1>1. ASSUME NEW c \in Caller, NEW id \in StoreId, NEW m \in StoreMessage, NEW s \in StoreSocket,
             NEW life \in Lifetimes, NEW told \in BOOLEAN, AS!Set(c, id, m, s, life, told)
      PROVE  StoreTypes' /\ Fates'
  BY <1>1, AskFate
<1>2. ASSUME NEW c \in Caller, NEW x \in GetCalls \cup DropCalls, call[c] = AS!NoCall,
             call' = [call EXCEPT ![c] = x], UNCHANGED <<store, clock, used, ends>>
      PROVE  StoreTypes' /\ Fates'
  <2>1. c \notin Sets /\ x \notin SetCalls
    BY <1>2, CallKinds DEF Sets
  <2>2. x \in {AS!NoCall} \cup SetCalls \cup GetCalls \cup DropCalls
    OBVIOUS
  <2> QED
    BY <1>0, <1>2, <2>1, <2>2, CallFate
<1>3. ASSUME NEW c \in Caller, NEW id \in StoreId, AS!Get(c, id) PROVE StoreTypes' /\ Fates'
  <2>1. [at |-> "wait", op |-> "get", id |-> id] \in GetCalls \cup DropCalls
    BY DEF GetCalls, Steps
  <2> QED
    BY <1>2, <1>3, <2>1 DEF AS!Get
<1>4. ASSUME NEW c \in Caller, NEW s \in StoreSocket, AS!Drop(c, s) PROVE StoreTypes' /\ Fates'
  <2>1. [at |-> "wait", op |-> "drop", socket |-> s] \in GetCalls \cup DropCalls
    BY DEF DropCalls, Steps
  <2> QED
    BY <1>2, <1>4, <2>1 DEF AS!Drop
<1>5. ASSUME NEW c \in Caller, AS!Lock(c) PROVE StoreTypes' /\ Fates'
  <2> DEFINE x == [call[c] EXCEPT !.at = "in"]
  <2>1. /\ call[c].at \in Steps /\ call' = [call EXCEPT ![c] = x] /\ UNCHANGED <<store, clock, used, ends>>
    BY <1>5 DEF AS!Lock, Steps, StoreTypes
  <2>2. call[c] \in SetCalls \/ call[c] \in GetCalls \/ call[c] \in DropCalls
    BY <2>1, CallIs
  <2>3. /\ x \in {AS!NoCall} \cup SetCalls \cup GetCalls \cup DropCalls
        /\ c \in Sets <=> x \in SetCalls
        /\ c \in Sets => x.request = call[c].request
    <3>1. CASE call[c] \in SetCalls
      BY <3>1, CallKinds DEF Sets
    <3>2. CASE call[c] \in GetCalls
      <4>1. x \in GetCalls /\ x.op = "get" /\ call[c].op = "get"
        BY <3>2, CallKinds
      <4> QED
        BY <4>1, CallKinds DEF Sets
    <3>3. CASE call[c] \in DropCalls
      <4>1. x \in DropCalls /\ x.op = "drop" /\ call[c].op = "drop"
        BY <3>3, CallKinds
      <4> QED
        BY <4>1, CallKinds DEF Sets
    <3> QED
      BY <2>2, <3>1, <3>2, <3>3
  <2> HIDE DEF x
  <2> QED
    BY <1>0, <2>1, <2>3, CallFate
<1>6. ASSUME NEW c \in Caller, AS!TimedOut(c) PROVE StoreTypes' /\ Fates'
  BY <1>6, TimedOutFate
<1>7. ASSUME NEW c \in Caller, AS!DoSet(c) PROVE StoreTypes' /\ Fates'
  BY <1>7, SetFate
<1>8. ASSUME NEW c \in Caller, AS!DoGet(c) PROVE StoreTypes' /\ Fates'
  <2> DEFINE id == call[c].id
  <2>1. call[c] \in GetCalls
    BY <1>8, CallIs DEF AS!DoGet, Steps
  <2>2. id \in StoreId /\ c \in Caller \ Sets
    BY <2>1, CallIs, CallKinds
  <2>3. /\ store' = [store EXCEPT ![id] = Nobody] /\ AS!Ended(AS!Waiting(id))
        /\ call' = [call EXCEPT ![c] = AS!NoCall] /\ UNCHANGED <<clock, used>>
    BY <1>8 DEF AS!DoGet, AS!Leave
  <2> HIDE DEF id
  <2>4. store' = [i \in StoreId |-> IF i \in {id} THEN Nobody ELSE store[i]]
    BY <2>2, <2>3 DEF StoreTypes
  <2>5. AS!Waiting(id) = {store[i].message : i \in Waits \cap {id}}
    BY <2>2, WaitingIs
  <2>6. {id} \in SUBSET StoreId
    BY <2>2
  <2> QED
    BY <2>2, <2>3, <2>4, <2>5, <2>6, RemovalFate
<1>9. ASSUME NEW c \in Caller, AS!DoDrop(c) PROVE StoreTypes' /\ Fates'
  <2> DEFINE ids == AS!IdsOf(call[c].socket)
  <2>1. call[c] \in DropCalls
    BY <1>9, CallIs DEF AS!DoDrop, Steps
  <2>2. c \in Caller \ Sets
    BY <2>1, CallIs, CallKinds
  <2>3. /\ store' = [id \in StoreId |-> IF id \in ids THEN Nobody ELSE store[id]]
        /\ AS!Ended(UNION {AS!Waiting(id) : id \in ids})
        /\ call' = [call EXCEPT ![c] = AS!NoCall] /\ UNCHANGED <<clock, used>>
    BY <1>9 DEF AS!DoDrop, AS!Leave
  <2>4. ids \in SUBSET StoreId /\ ids \subseteq Waits
    BY DEF AS!IdsOf, Waits
  <2> HIDE DEF ids
  <2>5. UNION {AS!Waiting(id) : id \in ids} = {store[i].message : i \in Waits \cap ids}
    BY <2>4, WaitingIs
  <2> QED
    BY <2>2, <2>3, <2>4, <2>5, RemovalFate
<1>10. ASSUME NEW id \in StoreId, AS!InvalidateNext(id) PROVE StoreTypes' /\ Fates'
  <2>1. id \in Waits
    BY <1>10 DEF AS!InvalidateNext, AtWork
  <2>2. store' = [i \in StoreId |-> IF i \in {id} THEN Nobody ELSE store[i]] /\ UNCHANGED <<call, clock, used>>
    BY <1>10 DEF AS!InvalidateNext, StoreTypes
  <2>3. ends' = [ends EXCEPT ![store[id].message] = @ + 1]
    BY <1>10 DEF AS!InvalidateNext, AS!HandedOver
  <2>4. AS!Ended({store[i].message : i \in Waits \cap {id}})
    <3>1. {store[i].message : i \in Waits \cap {id}} = {store[id].message}
      BY <2>1
    <3>2. AS!Ended({store[id].message})
      BY <2>3 DEF AS!Ended, StoreTypes
    <3> QED
      BY <3>1, <3>2
  <2>5. {id} \in SUBSET StoreId
    OBVIOUS
  <2> QED
    BY <2>2, <2>4, <2>5, RemovalFate
<1>11. CASE AS!Free
  <2>1. /\ store' = [id \in StoreId |-> IF id \in StoreId THEN Nobody ELSE store[id]]
        /\ AS!Ended(UNION {AS!Waiting(id) : id \in StoreId}) /\ UNCHANGED <<call, clock, used>>
    BY <1>11 DEF AS!Free
  <2>2. UNION {AS!Waiting(id) : id \in StoreId} = {store[i].message : i \in Waits \cap StoreId}
    <3>1. Waits \subseteq StoreId
      BY DEF Waits
    <3> QED
      BY <3>1, WaitingIs
  <2>3. StoreId \in SUBSET StoreId
    OBVIOUS
  <2> QED
    BY <2>1, <2>2, <2>3, RemovalFate
<1>12. CASE AS!InvalidateStart \/ AS!InvalidateBusy \/ AS!InvalidateEnd \/ UNCHANGED storeVars
  BY <1>0, <1>12, SameFate DEF AS!InvalidateStart, AS!InvalidateBusy, AS!InvalidateEnd, storeVars
<1>13. CASE AS!Tick
  <2>1. clock' \in 0 .. StoreTime /\ UNCHANGED <<store, call, used, ends>>
    BY <1>0, <1>13 DEF AS!Tick
  <2> QED
    BY <2>1, SameFate
<1> QED
  BY <1>1, <1>3, <1>4, <1>5, <1>6, <1>7, <1>8, <1>9, <1>10, <1>11, <1>12, <1>13 DEF AS!Next

(* Until the counter of the clock wraps, the deadline of a request is the sum of   *)
(* its beginning and its lifetime.                                                *)
LEMMA RequestTimes ==
    ASSUME NEW r \in Requests
    PROVE  /\ r.created \in Nat /\ r.life \in Nat /\ AS!Deadline(r) \in Int
           /\ r.created + r.life < StoreModulus => AS!Deadline(r) = r.created + r.life
<1>1. r.created \in 0 .. StoreTime /\ r.life \in Lifetimes
  BY DEF Requests
<1>2. r.created \in Nat /\ r.life \in Nat /\ StoreModulus \in Nat \ {0}
  <2>1. Lifetimes \subseteq Nat /\ StoreTime \in Nat /\ StoreModulus \in Nat \ {0}
    BY StoreAssumption
  <2>2. r.created \in Nat
    BY <1>1, <2>1
  <2>3. r.life \in Nat
    BY <1>1, <2>1
  <2> QED
    BY <2>1, <2>2, <2>3
<1>3. PICK n \in Nat : n = r.created + r.life
  BY <1>2
<1>4. n % StoreModulus \in Int /\ (n < StoreModulus => n % StoreModulus = n)
  BY <1>2
<1> QED
  BY <1>2, <1>3, <1>4 DEF AS!Deadline

(* A call that begins, or gives up, does not have the lock. *)
LEMMA OutsideAtWork ==
    ASSUME StoreTypes, AtWork, NEW c \in Caller, NEW x, x.at # "in", call' = [call EXCEPT ![c] = x], holder # c,
           UNCHANGED <<store, holder, invalidate, overdue, clock>>
    PROVE  AtWork'
<1>1. \A d \in Caller : call'[d].at = "in" <=> holder' = d
  BY DEF StoreTypes, AtWork
<1>2. Waits' = Waits
  BY DEF Waits
<1>3. \A id \in overdue' : id \in Waits' /\ AS!Deadline(store'[id]) < clock'
  BY <1>2 DEF AtWork
<1> QED
  BY <1>1, <1>3 DEF AtWork

(* One call at a time has the lock, and the timer's list is made and used under it. *)
LEMMA NextAtWork == StoreTypes /\ AtWork /\ [AS!Next]_storeVars => AtWork'
<1> SUFFICES ASSUME StoreTypes, AtWork, [AS!Next]_storeVars PROVE AtWork'
  OBVIOUS
<1> USE StoreAssumption
<1>0. \A c \in Caller : c # Nobody /\ c # "timer"
  OBVIOUS
<1>2. ASSUME NEW c \in Caller, call[c] = AS!NoCall \/ call[c].at = "wait" PROVE holder # c
  BY <1>2, CallKinds DEF AtWork
<1>3. ASSUME NEW c \in Caller, NEW id \in StoreId, NEW m \in StoreMessage, NEW s \in StoreSocket,
             NEW life \in Lifetimes, NEW told \in BOOLEAN, AS!Set(c, id, m, s, life, told)
      PROVE  AtWork'
  <2> DEFINE x == [at |-> "wait", op |-> "set", id |-> id, request |-> AS!Request(m, s, clock, life, told)]
  <2>1. x.at # "in" /\ call' = [call EXCEPT ![c] = x] /\ UNCHANGED <<store, holder, invalidate, overdue, clock>>
    BY <1>3 DEF AS!Set
  <2>2. holder # c
    BY <1>2, <1>3 DEF AS!Set
  <2> HIDE DEF x
  <2> QED
    BY <2>1, <2>2, OutsideAtWork
<1>4. ASSUME NEW c \in Caller, NEW id \in StoreId, AS!Get(c, id) PROVE AtWork'
  <2> DEFINE x == [at |-> "wait", op |-> "get", id |-> id]
  <2>1. x.at # "in" /\ call' = [call EXCEPT ![c] = x] /\ UNCHANGED <<store, holder, invalidate, overdue, clock>>
    BY <1>4 DEF AS!Get
  <2>2. holder # c
    BY <1>2, <1>4 DEF AS!Get
  <2> HIDE DEF x
  <2> QED
    BY <2>1, <2>2, OutsideAtWork
<1>5. ASSUME NEW c \in Caller, NEW s \in StoreSocket, AS!Drop(c, s) PROVE AtWork'
  <2> DEFINE x == [at |-> "wait", op |-> "drop", socket |-> s]
  <2>1. x.at # "in" /\ call' = [call EXCEPT ![c] = x] /\ UNCHANGED <<store, holder, invalidate, overdue, clock>>
    BY <1>5 DEF AS!Drop
  <2>2. holder # c
    BY <1>2, <1>5 DEF AS!Drop
  <2> HIDE DEF x
  <2> QED
    BY <2>1, <2>2, OutsideAtWork
<1>6. ASSUME NEW c \in Caller, AS!TimedOut(c) PROVE AtWork'
  <2>1. call' = [call EXCEPT ![c] = AS!NoCall] /\ UNCHANGED <<store, holder, invalidate, overdue, clock>>
    BY <1>6 DEF AS!TimedOut
  <2>2. holder # c
    BY <1>2, <1>6 DEF AS!TimedOut
  <2>3. AS!NoCall.at # "in"
    BY CallKinds
  <2> QED
    BY <2>1, <2>2, <2>3, OutsideAtWork
<1>7. ASSUME NEW c \in Caller, AS!Lock(c) PROVE AtWork'
  <2>1. /\ holder = Nobody /\ holder' = c /\ call[c].at \in Steps
        /\ call' = [call EXCEPT ![c] = [call[c] EXCEPT !.at = "in"]]
        /\ UNCHANGED <<store, invalidate, overdue, clock>>
    BY <1>7 DEF AS!Lock, StoreTypes, Steps
  <2>2. call'[c].at = "in" /\ \A d \in Caller \ {c} : call'[d] = call[d]
    <3>1. [call[c] EXCEPT !.at = "in"].at = "in"
      BY <2>1, CallIs, CallKinds
    <3> QED
      BY <2>1, <3>1 DEF StoreTypes
  <2>3. \A d \in Caller : call'[d].at = "in" <=> holder' = d
    BY <1>0, <2>1, <2>2 DEF AtWork
  <2>4. invalidate # "running" /\ overdue = {}
    BY <1>0, <2>1 DEF AtWork
  <2> QED
    BY <1>0, <2>1, <2>3, <2>4 DEF AtWork
<1>8. ASSUME NEW c \in Caller, call[c].at = "in", AS!Leave(c) PROVE AtWork'
  <2>1. holder = c /\ holder' = Nobody /\ call' = [call EXCEPT ![c] = AS!NoCall] /\ UNCHANGED <<invalidate, overdue>>
    BY <1>8 DEF AS!Leave, AtWork
  <2>2. \A d \in Caller : call'[d].at = "in" <=> holder' = d
    BY <1>0, <2>1, CallKinds DEF StoreTypes, AtWork
  <2>3. invalidate # "running" /\ overdue = {}
    BY <1>0, <2>1 DEF AtWork
  <2> QED
    BY <1>0, <2>1, <2>2, <2>3 DEF AtWork
<1>9. ASSUME NEW c \in Caller, AS!DoSet(c) \/ AS!DoGet(c) \/ AS!DoDrop(c) PROVE AtWork'
  BY <1>8, <1>9 DEF AS!DoSet, AS!DoGet, AS!DoDrop
<1>10. CASE AS!InvalidateStart
  <2>1. holder = Nobody /\ holder' = "timer" /\ invalidate' = "running" /\ overdue' = AS!TimedOutIds
        /\ UNCHANGED <<store, call, clock>>
    BY <1>10 DEF AS!InvalidateStart
  <2>2. \A d \in Caller : call'[d].at = "in" <=> holder' = d
    BY <1>0, <2>1 DEF AtWork
  <2>3. \A id \in overdue' : id \in Waits' /\ AS!Deadline(store'[id]) < clock'
    BY <2>1 DEF AS!TimedOutIds, Waits
  <2> QED
    BY <2>1, <2>2, <2>3 DEF AtWork
<1>11. CASE AS!InvalidateBusy
  <2>1. invalidate # "running" /\ invalidate' # "running" /\ overdue = {}
        /\ UNCHANGED <<store, holder, call, overdue, clock>>
    BY <1>11 DEF AS!InvalidateBusy, AS!Reschedule, AtWork
  <2> QED
    BY <2>1 DEF AtWork
<1>12. ASSUME NEW id \in StoreId, AS!InvalidateNext(id) PROVE AtWork'
  <2>1. /\ overdue' = overdue \ {id} /\ store' = [store EXCEPT ![id] = Nobody] /\ invalidate = "running"
        /\ UNCHANGED <<holder, call, invalidate, clock>>
    BY <1>12 DEF AS!InvalidateNext
  <2>2. \A i \in overdue' : i \in Waits' /\ store'[i] = store[i]
    BY <2>1 DEF AtWork, Waits, StoreTypes
  <2>3. \A i \in overdue' : AS!Deadline(store'[i]) < clock'
    BY <2>1, <2>2 DEF AtWork
  <2> QED
    BY <2>1, <2>2, <2>3 DEF AtWork
<1>13. CASE AS!InvalidateEnd
  <2>1. holder = "timer" /\ holder' = Nobody /\ invalidate' # "running" /\ overdue' = {} /\ UNCHANGED call
    BY <1>13 DEF AS!InvalidateEnd, AS!Reschedule, AtWork
  <2>2. \A d \in Caller : call'[d].at = "in" <=> holder' = d
    BY <1>0, <2>1 DEF AtWork
  <2> QED
    BY <2>1, <2>2 DEF AtWork
<1>14. CASE AS!Free
  <2>1. holder = Nobody /\ invalidate' = "off" /\ overdue' = overdue /\ UNCHANGED <<holder, call>>
    BY <1>14 DEF AS!Free
  <2>2. overdue = {}
    BY <2>1 DEF AtWork
  <2> QED
    BY <2>1, <2>2 DEF AtWork
<1>15. CASE AS!Tick
  <2>1. clock' = clock + 1 /\ clock \in Nat /\ UNCHANGED <<store, holder, call, invalidate, overdue>>
    BY <1>15 DEF AS!Tick, StoreTypes
  <2>2. \A id \in overdue : AS!Deadline(store[id]) < clock'
    <3> SUFFICES ASSUME NEW id \in overdue PROVE AS!Deadline(store[id]) < clock'
      OBVIOUS
    <3>1. AS!Deadline(store[id]) < clock /\ store[id] \in Requests
      BY DEF AtWork, Waits, StoreTypes
    <3>2. AS!Deadline(store[id]) \in Int
      BY <3>1, RequestTimes
    <3> QED
      BY <2>1, <3>1, <3>2
  <2>3. Waits' = Waits
    BY <2>1 DEF Waits
  <2> QED
    BY <2>1, <2>2, <2>3 DEF AtWork
<1>16. CASE UNCHANGED storeVars
  BY <1>16 DEF storeVars, AtWork, Waits
<1> QED
  BY <1>3, <1>4, <1>5, <1>6, <1>7, <1>9, <1>10, <1>11, <1>12, <1>13, <1>14, <1>15, <1>16 DEF AS!Next

(* No request is ended before its time but where the deadline overflows. *)
LEMMA NextNotEarly == StoreTypes /\ AtWork /\ AS!NotEarly /\ [AS!Next]_storeVars => AS!NotEarly'
<1> SUFFICES ASSUME StoreTypes, AtWork, AS!NotEarly, [AS!Next]_storeVars PROVE AS!NotEarly'
  OBVIOUS
<1> USE StoreAssumption
<1>1. ASSUME NEW id \in StoreId, AS!InvalidateNext(id) PROVE AS!NotEarly'
  <2> DEFINE r == store[id]
  <2>1. /\ r \in Requests /\ AS!Deadline(r) < clock /\ clock \in Nat
        /\ early' = IF clock < r.created + r.life THEN early \cup {r} ELSE early
    BY <1>1 DEF AS!InvalidateNext, AtWork, Waits, StoreTypes
  <2> HIDE DEF r
  <2>2. r.created \in Nat /\ r.life \in Nat
    BY <2>1, RequestTimes
  <2>3. r.created + r.life < StoreModulus => AS!Deadline(r) = r.created + r.life
    BY <2>1, RequestTimes
  <2>4. clock < r.created + r.life => r.created + r.life >= StoreModulus
    BY <2>1, <2>2, <2>3
  <2> QED
    BY <2>1, <2>4 DEF AS!NotEarly
<1>2. ASSUME UNCHANGED early PROVE AS!NotEarly'
  BY <1>2 DEF AS!NotEarly
<1> QED
  BY <1>1, <1>2 DEF AS!Next, AS!Set, AS!Get, AS!Drop, AS!Lock, AS!TimedOut, AS!DoSet, AS!DoGet, AS!DoDrop, AS!Leave,
     AS!InvalidateStart, AS!InvalidateBusy, AS!InvalidateEnd, AS!Free, AS!Tick, storeVars

(* One fate for a message is one place, or one end. *)
LEMMA FateIs == StoreTypes /\ Fates => AS!OneFate
<1> SUFFICES ASSUME StoreTypes, Fates, NEW m \in used
             PROVE  AS!Here(m) + ends[m] = 1
  BY DEF AS!OneFate
<1>0. \A S : AS!Cardinality(S) = Cardinality(S)
  BY DEF AS!Cardinality, Cardinality
<1>1. Cardinality({id \in StoreId : store[id] # Nobody /\ store[id].message = m}) = IF m \in Stored THEN 1 ELSE 0
  <2> DEFINE S == {id \in StoreId : store[id] # Nobody /\ store[id].message = m}
  <2>1. \A i, j \in S : i = j
    BY DEF Fates, Waits
  <2>2. S = {} <=> m \notin Stored
    BY DEF Stored, Waits
  <2> QED
    BY <2>1, <2>2, OneAtMost
<1>2. Cardinality({c \in Caller : call[c] # AS!NoCall /\ call[c].op = "set" /\ call[c].request.message = m})
        = IF m \in InCall THEN 1 ELSE 0
  <2> DEFINE S == {c \in Caller : call[c] # AS!NoCall /\ call[c].op = "set" /\ call[c].request.message = m}
  <2>0. S = {c \in Sets : call[c].request.message = m}
    BY CallIs DEF Sets
  <2>1. \A c, d \in S : c = d
    BY <2>0 DEF Fates
  <2>2. S = {} <=> m \notin InCall
    BY <2>0 DEF InCall
  <2> QED
    BY <2>1, <2>2, OneAtMost
<1>3. ends[m] = IF m \in Over THEN 1 ELSE 0
  BY DEF StoreTypes, Fates, Over
<1>4. m \in Stored \cup InCall \cup Over
      /\ (m \in Stored => m \notin InCall \cup Over) /\ (m \in InCall => m \notin Over)
  BY DEF Fates, Disjoint
<1> QED
  BY <1>0, <1>1, <1>2, <1>3, <1>4 DEF AS!Here

-----------------------------------------------------------------------------
ItemsInv == ItemTypes /\ OnePlace /\ LocksHeld /\ IT!FreedUnused
StoreInv == StoreTypes /\ AtWork /\ Fates /\ AS!NotEarly

(* Interfaces and store as they are created. *)
LEMMA InitKept == Init => ItemsInv /\ StoreInv
<1> SUFFICES ASSUME Init PROVE ItemsInv /\ StoreInv
  OBVIOUS
<1>1. IT!Init /\ AS!Init
  BY DEF Init
<1>2. IT!FreedUnused
  BY <1>1 DEF IT!Init, IT!FreedUnused
<1>3. AS!NotEarly
  BY <1>1 DEF AS!Init, AS!NotEarly
<1> QED
  BY <1>1, <1>2, <1>3, InitItems, InitStore DEF ItemsInv, StoreInv

(* A step of the one leaves the other alone. *)
LEMMA NextKept == ItemsInv /\ StoreInv /\ [Next]_vars => (ItemsInv /\ StoreInv)'
<1> SUFFICES ASSUME ItemsInv, StoreInv, [Next]_vars PROVE (ItemsInv /\ StoreInv)'
  OBVIOUS
<1>1. [IT!Next]_itemVars
  BY DEF Next, PollStep, EpollStep, IoStep, SendStep, ReceiveStep, ItemStep, StoreStep, AppStep, RoutesStep,
     FileSent, FileReceived, vars, loopVars
<1>2. [AS!Next]_storeVars
  BY DEF Next, PollStep, EpollStep, IoStep, SendStep, ReceiveStep, ItemStep, StoreStep, AppStep, RoutesStep,
     FileSent, FileReceived, vars, nodeVars
<1>3. ItemsInv'
  BY <1>1, NextItemTypes, NextOnePlace, NextLocksHeld, NextUntouched DEF ItemsInv
<1>4. StoreInv'
  BY <1>2, NextFate, NextAtWork, NextNotEarly DEF StoreInv
<1> QED
  BY <1>3, <1>4

(* An item of an interface has one keeper and is freed once, by someone who       *)
(* finds its lock free; a message in the store ends once and not early.           *)
THEOREM ItemsCorrect == Spec => []ItemsAreKept
<1>1. ItemsInv /\ StoreInv => ItemsAreKept
  BY KeeperIs, FateIs DEF ItemsInv, StoreInv, ItemsAreKept
<1> QED
  BY <1>1, InitKept, NextKept, PTL DEF Spec

-----------------------------------------------------------------------------
(* The tables of the loop over poll, by their types. *)
PollTypes ==
    /\ func \in [PollFd -> Nat] /\ container \in BOOLEAN /\ conns \in Nat
    /\ timer \in [PO!Slot -> [owner : User \cup {0}, due : BOOLEAN]]
    /\ remembered \in [User -> PO!Slot \cup {0}] /\ armed \subseteq User

(* The slots of a user but the one that is being called. *)
Own(u) == {s \in PO!Slot : timer[s].owner = u /\ ~(pc = "timer call" /\ at = s)}

(* A user that waits has one slot, the one it remembers; the slot that is being   *)
(* called is no one's.                                                            *)
Timers ==
    /\ \A u \in User : u \in armed => remembered[u] \in PO!Slot /\ Own(u) = {remembered[u]}
    /\ \A u \in User : u \notin armed => remembered[u] = 0 /\ Own(u) = {}
    /\ pc = "timer call" => at \in PO!Slot /\ timer[at].owner # 0

(* Only a loop that runs on and on is running; what stops it wakes it. *)
Running ==
    /\ running => mode = "endless"
    /\ PO!StopIsHeard

(* The loop over poll as it is created. *)
LEMMA InitPoll == PO!Init => PollTypes /\ Timers /\ Running /\ PO!ContainerIsHeld
<1> SUFFICES ASSUME PO!Init PROVE PollTypes /\ Timers /\ Running /\ PO!ContainerIsHeld
  OBVIOUS
<1>0. \A u \in User : u # 0
  BY PollAssumption
<1>1. PollTypes
  BY DEF PO!Init, PollTypes, PO!NONE
<1>2. Timers
  BY <1>0 DEF PO!Init, Timers, Own, PO!NONE
<1>3. Running
  BY DEF PO!Init, Running, PO!StopIsHeard
<1>4. PO!ContainerIsHeld
  BY DEF PO!Init, PO!ContainerIsHeld, PO!NONE
<1> QED
  BY <1>1, <1>2, <1>3, <1>4

(* impl_poll_event_loop_timer_set finds a free slot if there is one. *)
LEMMA FirstFreeIs ==
    ASSUME PollTypes, \E s \in PO!Slot : timer[s].owner = 0
    PROVE  PO!FirstFree \in PO!Slot /\ timer[PO!FirstFree].owner = 0
<1> DEFINE T == {s \in PO!Slot : timer[s].owner = 0}
<1>1. PO!Slot \subseteq Nat
  BY PollAssumption DEF PO!Slot
<1>2. PICK m \in PO!Slot : timer[m].owner = 0 /\ \A r \in PO!Slot : r < m => timer[r].owner # 0
  <2>1. T # {} /\ T \subseteq Nat
    BY <1>1
  <2>2. PICK m \in T : \A k \in T : m <= k
    BY <2>1, LeastElement
  <2> QED
    BY <1>1, <2>2
<1> QED
  BY <1>2 DEF PO!FirstFree, PO!NONE

(* Registrations and timers stay in their tables. *)
LEMMA NextPollTypes == PollTypes /\ Timers /\ [PO!Next]_pollVars => PollTypes'
<1> SUFFICES ASSUME PollTypes, Timers, [PO!Next]_pollVars PROVE PollTypes'
  OBVIOUS
<1> USE DEF PO!NONE
<1>1. ASSUME NEW f \in PollFd, PO!Set(f) \/ PO!Unset(f), conns' = conns \/ PO!Set(f), container' \in BOOLEAN,
             UNCHANGED <<timer, remembered, armed>>
      PROVE  PollTypes'
  <2>1. conns' \in Nat
    BY <1>1 DEF PollTypes, PO!Set
  <2>2. func' \in [PollFd -> Nat]
    BY <1>1, <2>1 DEF PollTypes, PO!Set, PO!Unset
  <2> QED
    BY <1>1, <2>1, <2>2 DEF PollTypes
<1>2. ASSUME NEW f \in PollFd, PO!CallbackSet(f) \/ PO!CallbackUnset(f) \/ PO!Accept(f) PROVE PollTypes'
  <2>1. container' \in BOOLEAN /\ UNCHANGED <<timer, remembered, armed>>
    BY <1>2 DEF PollTypes, PO!CallbackSet, PO!CallbackUnset, PO!Accept, PO!timers
  <2>2. (PO!Set(f) \/ PO!Unset(f)) /\ (conns' = conns \/ PO!Set(f))
    BY <1>2 DEF PO!CallbackSet, PO!CallbackUnset, PO!Accept
  <2> QED
    BY <1>1, <2>1, <2>2
<1>10. CASE PO!AddConnectionAccept \/ PO!RemoveConnectionAccept
  <2>1. container' \in BOOLEAN /\ UNCHANGED <<timer, remembered, armed>>
    BY <1>10 DEF PO!AddConnectionAccept, PO!RemoveConnectionAccept, PO!timers
  <2>2. Listener \in PollFd /\ (PO!Set(Listener) \/ PO!Unset(Listener)) /\ (conns' = conns \/ PO!Set(Listener))
    BY <1>10 DEF PO!AddConnectionAccept, PO!RemoveConnectionAccept
  <2> QED
    BY <1>1, <2>1, <2>2
<1>11. CASE PO!ListenerLost
  <2>1. container' \in BOOLEAN /\ UNCHANGED <<timer, remembered, armed, conns>>
    BY <1>11 DEF PO!ListenerLost, PO!timers
  <2>2. func' \in [PollFd -> Nat]
    BY <1>11 DEF PO!ListenerLost, PO!Unset, PollTypes
  <2> QED
    BY <2>1, <2>2 DEF PollTypes
<1>3. ASSUME NEW u \in User, PO!TimerSet(u) PROVE PollTypes'
  <2>1. PO!FirstFree \in PO!Slot
    BY <1>3, FirstFreeIs DEF PO!TimerSet
  <2> QED
    BY <1>3, <2>1 DEF PollTypes, PO!TimerSet, PO!tables
<1>4. ASSUME NEW u \in User, PO!TimerUnset(u) PROVE PollTypes'
  <2>1. remembered[u] \in PO!Slot
    BY <1>4 DEF PollTypes, PO!TimerUnset
  <2> QED
    BY <1>4, <2>1 DEF PollTypes, PO!TimerUnset, PO!tables
<1>5. ASSUME NEW s \in PO!Slot, PO!TimeComes(s) PROVE PollTypes'
  <2>1. timer' \in [PO!Slot -> [owner : User \cup {0}, due : BOOLEAN]]
    BY <1>5 DEF PollTypes, PO!TimeComes
  <2> QED
    BY <1>5, <2>1 DEF PollTypes, PO!TimeComes, PO!tables
<1>6. CASE PO!CallTimer
  <2>1. at \in PO!Slot => (timer[at].owner # 0 => timer[at].owner \in User)
    BY DEF PollTypes
  <2>2. remembered' \in [User -> PO!Slot \cup {0}] /\ armed' \subseteq User
    BY <1>6, <2>1 DEF PollTypes, PO!CallTimer
  <2> QED
    BY <1>6, <2>2 DEF PollTypes, PO!CallTimer, PO!tables
<1>7. CASE PO!TimerCalled
  <2>1. timer' \in [PO!Slot -> [owner : User \cup {0}, due : BOOLEAN]]
    BY <1>7 DEF PollTypes, PO!TimerCalled, Timers
  <2> QED
    BY <1>7, <2>1 DEF PollTypes, PO!TimerCalled, PO!tables
<1>8. ASSUME UNCHANGED <<func, container, conns, timer, remembered, armed>> PROVE PollTypes'
  BY <1>8 DEF PollTypes
<1>9. ASSUME NEW f \in PollFd, PO!DataComes(f) PROVE PollTypes'
  BY <1>8, <1>9 DEF PO!DataComes, PO!timers
<1> QED
  BY <1>2, <1>3, <1>4, <1>5, <1>6, <1>7, <1>8, <1>9, <1>10, <1>11 DEF PO!Next, PO!Stop, PO!Run, PO!Block, PO!Return,
     PO!TimersDone, PO!CallSocket, PO!SocketCalled, PO!SocketsDone, PO!tables, PO!timers, pollVars

(* A user that waits has one timer, which is not the one being called. *)
LEMMA NextTimers == PollTypes /\ Timers /\ [PO!Next]_pollVars => Timers'
<1> SUFFICES ASSUME PollTypes, Timers, [PO!Next]_pollVars PROVE Timers'
  OBVIOUS
<1> USE DEF PO!NONE
<1>0. \A u \in User : u # 0
  BY PollAssumption
<1>1. ASSUME NEW u \in User, PO!TimerSet(u) PROVE Timers'
  <2> DEFINE s == PO!FirstFree
  <2>1. /\ s \in PO!Slot /\ timer[s].owner = 0 /\ u \notin armed
        /\ timer' = [timer EXCEPT ![s] = [owner |-> u, due |-> FALSE]]
        /\ armed' = armed \cup {u} /\ remembered' = [remembered EXCEPT ![u] = s] /\ UNCHANGED <<pc, at>>
    BY <1>1, FirstFreeIs DEF PO!TimerSet, PO!control
  <2> HIDE DEF s
  <2>2. \A r \in PO!Slot : timer'[r].owner = IF r = s THEN u ELSE timer[r].owner
    BY <2>1 DEF PollTypes
  <2>3. pc = "timer call" => at # s
    BY <2>1 DEF Timers
  <2>4. Own(u)' = {s} /\ remembered'[u] = s
    <3>1. Own(u) = {}
      BY <2>1 DEF Timers
    <3> QED
      BY <2>1, <2>2, <2>3, <3>1 DEF Own, PollTypes
  <2>5. \A v \in User \ {u} : Own(v)' = Own(v) /\ remembered'[v] = remembered[v]
    BY <1>0, <2>1, <2>2 DEF Own, PollTypes
  <2>6. pc' = "timer call" => at' \in PO!Slot /\ timer'[at'].owner # 0
    BY <1>0, <2>1, <2>2 DEF Timers
  <2>7. \A v \in User : v \in armed' => remembered'[v] \in PO!Slot /\ Own(v)' = {remembered'[v]}
    BY <2>1, <2>4, <2>5 DEF Timers
  <2>8. \A v \in User : v \notin armed' => remembered'[v] = 0 /\ Own(v)' = {}
    BY <2>1, <2>4, <2>5 DEF Timers
  <2> QED
    BY <2>6, <2>7, <2>8 DEF Timers
<1>2. ASSUME NEW u \in User, PO!TimerUnset(u) PROVE Timers'
  <2> DEFINE s == remembered[u]
  <2>1. /\ s # 0 /\ timer' = [timer EXCEPT ![s] = [owner |-> 0, due |-> FALSE]]
        /\ armed' = armed \ {u} /\ remembered' = [remembered EXCEPT ![u] = 0] /\ UNCHANGED <<pc, at>>
    BY <1>2 DEF PO!TimerUnset, PO!control
  <2>2. u \in armed /\ s \in PO!Slot /\ Own(u) = {s}
    BY <2>1 DEF Timers
  <2> HIDE DEF s
  <2>3. \A r \in PO!Slot : timer'[r].owner = IF r = s THEN 0 ELSE timer[r].owner
    BY <2>1, <2>2 DEF PollTypes
  <2>4. timer[s].owner = u /\ ~(pc = "timer call" /\ at = s)
    BY <2>2 DEF Own
  <2>5. Own(u)' = {} /\ remembered'[u] = 0
    BY <1>0, <2>1, <2>2, <2>3 DEF Own, PollTypes
  <2>6. \A v \in User \ {u} : Own(v)' = Own(v) /\ remembered'[v] = remembered[v]
    BY <1>0, <2>1, <2>3, <2>4 DEF Own, PollTypes
  <2>7. pc' = "timer call" => at' \in PO!Slot /\ timer'[at'].owner # 0
    BY <2>1, <2>3, <2>4 DEF Timers
  <2>8. \A v \in User : v \in armed' => remembered'[v] \in PO!Slot /\ Own(v)' = {remembered'[v]}
    BY <2>1, <2>6 DEF Timers
  <2>9. \A v \in User : v \notin armed' => remembered'[v] = 0 /\ Own(v)' = {}
    BY <2>1, <2>5, <2>6 DEF Timers
  <2> QED
    BY <2>7, <2>8, <2>9 DEF Timers
<1>3. ASSUME UNCHANGED <<remembered, armed>>, \A r \in PO!Slot : timer'[r].owner = timer[r].owner,
             \/ pc' = pc /\ at' = at
             \/ pc # "timer call" /\ pc' # "timer call"
      PROVE  Timers'
  <2>1. \A v \in User : Own(v)' = Own(v)
    BY <1>3 DEF Own
  <2>2. pc' = "timer call" => at' \in PO!Slot /\ timer'[at'].owner # 0
    BY <1>3 DEF Timers
  <2> QED
    BY <1>3, <2>1, <2>2 DEF Timers
<1>4. ASSUME NEW s \in PO!Slot, PO!TimeComes(s) PROVE Timers'
  <2>1. UNCHANGED <<remembered, armed, pc, at>> /\ timer' = [timer EXCEPT ![s].due = TRUE]
    BY <1>4 DEF PO!TimeComes, PO!control
  <2>2. \A r \in PO!Slot : timer'[r].owner = timer[r].owner
    BY <2>1 DEF PollTypes
  <2> QED
    BY <1>3, <2>1, <2>2
<1>5. CASE PO!CallTimer
  <2>1. CASE pc' = pc /\ UNCHANGED <<timer, armed, remembered>>
    <3>1. pc # "timer call"
      BY <1>5 DEF PO!CallTimer
    <3> QED
      BY <1>3, <2>1, <3>1
  <2>2. CASE pc' = "timer call" /\ timer[at].owner # 0
    <3>0. PICK u \in User : u = timer[at].owner
      BY <1>5, <2>2 DEF PO!CallTimer, PollTypes
    <3>1. /\ pc = "timers" /\ at \in PO!Slot /\ at' = at /\ UNCHANGED timer
          /\ armed' = armed \ {u} /\ remembered' = [remembered EXCEPT ![u] = 0]
      BY <1>5, <2>2, <3>0 DEF PO!CallTimer
    <3>2. u \in armed /\ Own(u) = {at}
      <4>1. at \in Own(u)
        BY <3>0, <3>1 DEF Own
      <4>2. remembered[u] = at /\ u \in armed
        BY <3>1, <4>1 DEF Timers
      <4> QED
        BY <3>1, <4>2 DEF Timers
    <3>3. Own(u)' = {} /\ remembered'[u] = 0
      <4>1. \A r \in PO!Slot : timer[r].owner = u /\ ~(pc = "timer call" /\ at = r) => r = at
        BY <3>2 DEF Own
      <4>2. \A r \in PO!Slot : timer'[r].owner = u => r = at
        BY <3>1, <4>1
      <4>3. Own(u)' = {}
        BY <2>2, <3>1, <4>2 DEF Own
      <4> QED
        BY <3>1, <4>3 DEF PollTypes
    <3>4. \A v \in User \ {u} : Own(v)' = Own(v) /\ remembered'[v] = remembered[v]
      <4>1. \A v \in User \ {u} : remembered'[v] = remembered[v]
        BY <3>1 DEF PollTypes
      <4>3. ASSUME NEW v \in User \ {u} PROVE Own(v)' = Own(v)
        BY <2>2, <3>0, <3>1 DEF Own
      <4> QED
        BY <4>1, <4>3
    <3>5. \A v \in User : v \in armed' => remembered'[v] \in PO!Slot /\ Own(v)' = {remembered'[v]}
      BY <3>1, <3>4 DEF Timers
    <3>6. \A v \in User : v \notin armed' => remembered'[v] = 0 /\ Own(v)' = {}
      BY <3>1, <3>3, <3>4 DEF Timers
    <3> QED
      BY <2>2, <3>1, <3>5, <3>6 DEF Timers
  <2> QED
    BY <1>5, <2>1, <2>2 DEF PO!CallTimer
<1>6. CASE PO!TimerCalled
  <2>1. /\ pc = "timer call" /\ pc' = "timers" /\ UNCHANGED <<remembered, armed>> /\ at \in PO!Slot
        /\ timer' = [timer EXCEPT ![at] = [owner |-> 0, due |-> FALSE]]
    BY <1>6 DEF PO!TimerCalled, Timers
  <2>2. \A v \in User : Own(v)' = Own(v)
    BY <1>0, <2>1 DEF Own, PollTypes
  <2> QED
    BY <2>1, <2>2 DEF Timers
<1>7. ASSUME NEW f \in PollFd, PO!CallbackSet(f) \/ PO!CallbackUnset(f) \/ PO!Accept(f) \/ PO!DataComes(f) PROVE Timers'
  BY <1>3, <1>7 DEF PO!CallbackSet, PO!CallbackUnset, PO!Accept, PO!DataComes, PO!timers, PO!control, PO!InAccept
<1>8. CASE PO!AddConnectionAccept \/ PO!RemoveConnectionAccept \/ PO!ListenerLost
  BY <1>3, <1>8 DEF PO!AddConnectionAccept, PO!RemoveConnectionAccept, PO!ListenerLost, PO!timers, PO!control, PO!InAccept
<1>9. CASE PO!Stop \/ PO!Run \/ PO!Block \/ PO!Return \/ PO!TimersDone
  BY <1>3, <1>9 DEF PO!Stop, PO!Run, PO!Block, PO!Return, PO!TimersDone, PO!timers
<1>10. CASE PO!CallSocket \/ PO!SocketCalled \/ PO!SocketsDone \/ UNCHANGED pollVars
  BY <1>3, <1>10 DEF PO!CallSocket, PO!SocketCalled, PO!SocketsDone, PO!timers, pollVars
<1> QED
  BY <1>1, <1>2, <1>4, <1>5, <1>6, <1>7, <1>8, <1>9, <1>10 DEF PO!Next

(* What stops the loop wakes it, and only a call of the timers makes it sleep again. *)
LEMMA NextRunning == Running /\ [PO!Next]_pollVars => Running'
<1> SUFFICES ASSUME Running, [PO!Next]_pollVars PROVE Running'
  OBVIOUS
<1>1. ASSUME UNCHANGED <<pc, running, mode>>, wake => wake' PROVE Running'
  BY <1>1 DEF Running, PO!StopIsHeard
<1>2. ASSUME UNCHANGED <<running, mode>>, pc' \notin {"begin", "blocked"} PROVE Running'
  BY <1>2 DEF Running, PO!StopIsHeard
<1>3. PO!Announce => (wake => wake')
  BY DEF PO!Announce
<1>4. ASSUME NEW f \in PollFd, PO!CallbackSet(f) \/ PO!CallbackUnset(f) PROVE Running'
  BY <1>1, <1>3, <1>4 DEF PO!CallbackSet, PO!CallbackUnset, PO!Set, PO!Unset, PO!control
<1>5. ASSUME NEW f \in PollFd, PO!Accept(f) PROVE Running'
  BY <1>2, <1>5 DEF PO!Accept
<1>6. CASE PO!AddConnectionAccept \/ PO!RemoveConnectionAccept
  BY <1>1, <1>3, <1>6 DEF PO!AddConnectionAccept, PO!RemoveConnectionAccept, PO!Set, PO!Unset, PO!control
<1>7. CASE PO!ListenerLost
  BY <1>2, <1>7 DEF PO!ListenerLost
<1>8. ASSUME NEW u \in User, PO!TimerSet(u) \/ PO!TimerUnset(u) PROVE Running'
  BY <1>1, <1>3, <1>8 DEF PO!TimerSet, PO!TimerUnset, PO!control
<1>9. ASSUME NEW s \in PO!Slot, PO!TimeComes(s) PROVE Running'
  BY <1>1, <1>9 DEF PO!TimeComes, PO!control
<1>10. ASSUME NEW f \in PollFd, PO!DataComes(f) PROVE Running'
  BY <1>1, <1>10 DEF PO!DataComes, PO!control
<1>11. CASE PO!Stop
  BY <1>11 DEF PO!Stop, Running, PO!StopIsHeard
<1>12. CASE PO!Run
  <2>1. mode' \in {"once", "endless"} /\ running' = (mode' = "endless")
    BY <1>12 DEF PO!Run
  <2> QED
    BY <2>1 DEF Running, PO!StopIsHeard
<1>13. CASE PO!Block
  BY <1>13 DEF PO!Block, Running, PO!StopIsHeard
<1>14. CASE PO!Return \/ PO!TimerCalled \/ PO!TimersDone \/ PO!SocketCalled
  BY <1>2, <1>14 DEF PO!Return, PO!TimerCalled, PO!TimersDone, PO!SocketCalled
<1>15. CASE PO!CallTimer
  <2>1. pc' \in {"timers", "timer call"} /\ UNCHANGED <<running, mode>>
    BY <1>15 DEF PO!CallTimer
  <2> QED
    BY <1>2, <2>1
<1>16. CASE PO!CallSocket
  <2>1. pc' \in {"sockets", "socket call"} /\ UNCHANGED <<running, mode>>
    BY <1>16 DEF PO!CallSocket
  <2> QED
    BY <1>2, <2>1
<1>17. CASE PO!SocketsDone
  <2>1. UNCHANGED <<running, mode>> /\ (running \/ pc' = "out")
    BY <1>17 DEF PO!SocketsDone
  <2>2. CASE running
    BY <2>1, <2>2 DEF Running, PO!StopIsHeard
  <2>3. CASE pc' = "out"
    BY <1>2, <2>1, <2>3
  <2> QED
    BY <2>1, <2>2, <2>3
<1>18. CASE UNCHANGED pollVars
  BY <1>1, <1>18 DEF pollVars
<1> QED
  BY <1>4, <1>5, <1>6, <1>7, <1>8, <1>9, <1>10, <1>11, <1>12, <1>13, <1>14, <1>15, <1>16, <1>17, <1>18 DEF PO!Next

(* The container comes and goes with the registration of the listener: the    *)
(* callbacks of other descriptors do not touch it.                            *)
LEMMA NextContainer == PollTypes /\ PO!ContainerIsHeld /\ [PO!Next]_pollVars => PO!ContainerIsHeld'
<1> SUFFICES ASSUME PollTypes, PO!ContainerIsHeld, [PO!Next]_pollVars PROVE PO!ContainerIsHeld'
  OBVIOUS
<1> USE DEF PO!NONE
<1>1. ASSUME NEW f \in PollFd, PO!Set(f) \/ PO!Unset(f), f # Listener, UNCHANGED container PROVE PO!ContainerIsHeld'
  <2>1. Listener \in PollFd => func'[Listener] = func[Listener]
    BY <1>1 DEF PO!Set, PO!Unset, PollTypes
  <2> QED
    BY <1>1, <2>1 DEF PO!ContainerIsHeld
<1>2. ASSUME NEW f \in PollFd, PO!CallbackSet(f) \/ PO!CallbackUnset(f) \/ PO!Accept(f) PROVE PO!ContainerIsHeld'
  BY <1>1, <1>2 DEF PO!CallbackSet, PO!CallbackUnset, PO!Accept
<1>3. CASE PO!AddConnectionAccept
  <2>1. Listener \in PollFd => func'[Listener] = conns + 1
    BY <1>3 DEF PO!AddConnectionAccept, PO!Set, PollTypes
  <2>2. conns \in Nat /\ container' = TRUE
    BY <1>3 DEF PollTypes, PO!AddConnectionAccept
  <2>3. conns + 1 # 0
    BY <2>2
  <2> QED
    BY <2>1, <2>2, <2>3 DEF PO!ContainerIsHeld
<1>4. CASE PO!RemoveConnectionAccept \/ PO!ListenerLost
  <2>1. Listener \in PollFd => func'[Listener] = 0
    BY <1>4 DEF PO!RemoveConnectionAccept, PO!ListenerLost, PO!Unset, PollTypes
  <2>2. container' = FALSE
    BY <1>4 DEF PO!RemoveConnectionAccept, PO!ListenerLost
  <2> QED
    BY <2>1, <2>2 DEF PO!ContainerIsHeld
<1>5. ASSUME UNCHANGED <<func, container>> PROVE PO!ContainerIsHeld'
  BY <1>5 DEF PO!ContainerIsHeld
<1>6. ASSUME NEW u \in User, PO!TimerSet(u) \/ PO!TimerUnset(u) PROVE PO!ContainerIsHeld'
  BY <1>5, <1>6 DEF PO!TimerSet, PO!TimerUnset, PO!tables
<1>7. ASSUME NEW s \in PO!Slot, PO!TimeComes(s) PROVE PO!ContainerIsHeld'
  BY <1>5, <1>7 DEF PO!TimeComes, PO!tables
<1>8. ASSUME NEW f \in PollFd, PO!DataComes(f) PROVE PO!ContainerIsHeld'
  BY <1>5, <1>8 DEF PO!DataComes
<1>9. CASE PO!Stop \/ PO!Run \/ PO!Block \/ PO!Return \/ PO!CallTimer \/ PO!TimerCalled
  BY <1>5, <1>9 DEF PO!Stop, PO!Run, PO!Block, PO!Return, PO!CallTimer, PO!TimerCalled, PO!tables
<1>10. CASE PO!TimersDone \/ PO!CallSocket \/ PO!SocketCalled \/ PO!SocketsDone \/ UNCHANGED pollVars
  BY <1>5, <1>10 DEF PO!TimersDone, PO!CallSocket, PO!SocketCalled, PO!SocketsDone, PO!tables, pollVars
<1> QED
  BY <1>2, <1>3, <1>4, <1>6, <1>7, <1>8, <1>9, <1>10 DEF PO!Next

(* What is kept of the timers says that a user's timer is its own. *)
LEMMA PollTimerIs == Timers => PO!TimerIsOwn
<1> SUFFICES ASSUME Timers, NEW u \in User
             PROVE  IF u \in armed THEN Own(u) = {remembered[u]} ELSE Own(u) = {} /\ remembered[u] = 0
  BY DEF PO!TimerIsOwn, Own, PO!NONE
<1> QED
  BY DEF Timers

-----------------------------------------------------------------------------
(* The tables of the loop over epoll, by their types. *)
EpollTypes ==
    /\ etable \in [EP!Place -> EP!Fd \cup {-1}] /\ owner \in [EP!Fd -> User \cup {0, -1, -2}]
    /\ known \subseteq EP!Fd /\ available \in Seq(EP!Fd)
    /\ eremembered \in [User -> EP!Fd \cup {-1}] /\ earmed \subseteq User

(* Every callback is in the place of its own number; a timer in use has one,  *)
(* a timer out of use and a closed descriptor have none.                      *)
Tidy ==
    /\ \A p \in EP!Place : etable[p] = IF p \in known THEN p ELSE -1
    /\ \A f \in EP!Fd : (owner[f] \in User => f \in known) /\ (owner[f] \in {0, -1} => f \notin known)
    /\ epc = "hangup call" => eat \in EP!Fd /\ owner[eat] \in {-2, -1}

(* The timers out of use, each once. *)
Kept ==
    /\ Len(available) <= EpollTimers
    /\ \A i, j \in DOMAIN available : available[i] = available[j] => i = j
    /\ \A f \in EP!Fd : owner[f] = 0 <=> \E i \in DOMAIN available : available[i] = f

(* The timer of a user that waits is the one it remembers. *)
Armed ==
    /\ \A u \in User : u \in earmed => eremembered[u] \in EP!Fd /\ owner[eremembered[u]] = u
    /\ \A u \in User : u \notin earmed => eremembered[u] = -1
    /\ \A f \in EP!Fd : owner[f] \in User => owner[f] \in earmed /\ eremembered[owner[f]] = f

(* Every descriptor has a place in the table. *)
LEMMA FdIs == EP!Fd \subseteq EP!Place /\ EP!Fd \subseteq Nat /\ -1 \notin EP!Fd
  BY EpollAssumption DEF EP!Fd, EP!Place

(* SOCKET, NONE and IDLE differ. *)
LEMMA NegativesDiffer == -2 # -1 /\ -2 # 0 /\ -1 # 0
  OBVIOUS

(* No user is taken for a mark of the table of owners. *)
LEMMA UserIs == \A u \in User : u # 0 /\ u # -1 /\ u # -2
  BY PollAssumption

(* The loop over epoll as it is created. *)
LEMMA InitEpoll == EP!Init => EpollTypes /\ Tidy /\ Kept /\ Armed
<1> SUFFICES ASSUME EP!Init PROVE EpollTypes /\ Tidy /\ Kept /\ Armed
  OBVIOUS
<1> USE DEF EP!NONE
<1>1. EpollTypes
  BY DEF EP!Init, EpollTypes
<1>2. Tidy
  BY UserIs DEF EP!Init, Tidy
<1>3. Kept
  <2>1. available = <<>> /\ owner = [f \in EP!Fd |-> -1]
    BY DEF EP!Init
  <2>2. Len(available) <= EpollTimers
    BY <2>1, EpollAssumption
  <2>3. DOMAIN available = {}
    BY <2>1
  <2> QED
    BY <2>1, <2>2, <2>3 DEF Kept
<1>4. Armed
  BY UserIs DEF EP!Init, Armed
<1> QED
  BY <1>1, <1>2, <1>3, <1>4

(* As long as no two numbers point to the same place, the search of           *)
(* get_callback_for_fd_unsafe ends where it begins.                           *)
LEMMA PlaceIs ==
    ASSUME NEW t, NEW f \in EP!Fd, t[f] \in {f, -1}
    PROVE  EP!PlaceOf(t, f) = f
<1> DEFINE hits == {i \in EP!Place : t[(f + i) % Size] \in {f, EP!NONE}}
<1>1. f \in Nat /\ f < Size /\ Size \in Nat /\ EP!Place = 0 .. Size - 1
  BY EpollAssumption DEF EP!Fd, EP!Place
<1>2. (f + 0) % Size = f
  BY <1>1
<1>3. 0 \in hits
  BY <1>1, <1>2 DEF EP!NONE
<1>4. hits \subseteq Nat
  BY <1>1
<1>5. (CHOOSE i \in hits : \A j \in hits : i <= j) = 0
  <2> HIDE DEF hits
  <2>1. \A j \in hits : 0 <= j
    BY <1>4
  <2>2. \A i \in hits : (\A j \in hits : i <= j) => i = 0
    BY <1>3, <1>4
  <2>3. \E i \in hits : \A j \in hits : i <= j
    BY <1>3, <2>1
  <2> QED
    BY <2>2, <2>3
<1>6. EP!PlaceOf(t, f) = IF hits = {} THEN EP!NONE ELSE (f + (CHOOSE i \in hits : \A j \in hits : i <= j)) % Size
  BY DEF EP!PlaceOf
<1> HIDE DEF hits
<1> QED
  BY <1>2, <1>3, <1>5, <1>6

(* So a callback is found where its number is, set there and released there. *)
LEMMA LookupIs ==
    ASSUME EpollTypes, Tidy, NEW f \in EP!Fd
    PROVE  /\ EP!PlaceOf(etable, f) = f
           /\ EP!Has(etable, f) <=> f \in known
           /\ EP!Registered(etable, f) = [etable EXCEPT ![f] = f]
           /\ EP!Released(etable, f) = [etable EXCEPT ![f] = -1]
<1>1. f \in EP!Place /\ f # -1
  BY FdIs
<1>2. etable[f] = IF f \in known THEN f ELSE -1
  BY <1>1 DEF Tidy
<1>3. EP!PlaceOf(etable, f) = f
  BY <1>2, PlaceIs
<1>4. EP!Has(etable, f) <=> f \in known
  BY <1>1, <1>2, <1>3 DEF EP!Has, EP!NONE
<1>5. EP!Registered(etable, f) = [etable EXCEPT ![f] = f]
  BY <1>3 DEF EP!Registered
<1>6. EP!Released(etable, f) = [etable EXCEPT ![f] = -1]
  BY <1>2, <1>3, <1>4 DEF EP!Released, EP!NONE, EpollTypes
<1> QED
  BY <1>3, <1>4, <1>5, <1>6

(* The system has a free number if one is free. *)
LEMMA LowestIs ==
    ASSUME \E f \in EP!Fd : owner[f] = -1
    PROVE  EP!Lowest \in EP!Fd /\ owner[EP!Lowest] = -1
<1> DEFINE T == {f \in EP!Fd : owner[f] = -1}
<1>1. PICK m \in EP!Fd : owner[m] = -1 /\ \A g \in EP!Fd : g < m => owner[g] # -1
  <2>1. T # {} /\ T \subseteq Nat
    BY FdIs
  <2>2. PICK m \in T : \A k \in T : m <= k
    BY <2>1, LeastElement
  <2> QED
    BY <2>2, FdIs
<1> QED
  BY <1>1 DEF EP!Lowest, EP!NONE

(* What the calls do to the tables: a number is taken for a callback or a     *)
(* timer, or its callback is released.                                        *)
Occupy(id, w) ==
    /\ id \in EP!Fd /\ owner[id] \in {0, -1} /\ (epc = "hangup call" => eat # id)
    /\ owner' = [owner EXCEPT ![id] = w] /\ etable' = [etable EXCEPT ![id] = id] /\ known' = known \cup {id}

Vacate(f, w) ==
    /\ f \in EP!Fd
    /\ owner' = [owner EXCEPT ![f] = w] /\ etable' = [etable EXCEPT ![f] = -1] /\ known' = known \ {f}

OpenSocket == \E id \in EP!Fd :
    /\ Occupy(id, -2) /\ owner[id] = -1
    /\ UNCHANGED <<available, eremembered, earmed, epc, eat>>

CloseSocket == \E f \in EP!Fd :
    /\ Vacate(f, -1) /\ owner[f] = -2
    /\ UNCHANGED <<available, eremembered, earmed, epc, eat>>

StartTimer == \E u \in User, id \in EP!Fd :
    /\ Occupy(id, u) /\ u \notin earmed
    /\ \/ owner[id] = -1 /\ UNCHANGED available
       \/ available # <<>> /\ id = EP!Last(available) /\ available' = EP!Front(available)
    /\ eremembered' = [eremembered EXCEPT ![u] = id] /\ earmed' = earmed \cup {u}
    /\ UNCHANGED <<epc, eat>>

EndTimer == \E u \in User, f \in EP!Fd :
    /\ owner[f] = u /\ eremembered[u] = f
    /\ \/ Vacate(f, 0) /\ Len(available) < EpollTimers /\ available' = Append(available, f)
       \/ Vacate(f, -1) /\ UNCHANGED available
    /\ eremembered' = [eremembered EXCEPT ![u] = -1] /\ earmed' = earmed \ {u}
    /\ epc' = "call" \/ UNCHANGED <<epc, eat>>

AfterHangup ==
    /\ epc = "hangup call"
    /\ etable' = [etable EXCEPT ![eat] = -1] /\ known' = known \ {eat}
    /\ epc' \in {"wait", "out"} /\ UNCHANGED <<owner, available, eremembered, earmed>>

OnlyControl ==
    /\ UNCHANGED <<etable, owner, known, available, eremembered, earmed>>
    /\ \/ UNCHANGED <<epc, eat>>
       \/ epc' # "hangup call"
       \/ eat' \in EP!Fd /\ owner[eat'] = -2

(* release_timer_fd_unsafe keeps the timer for the next user or closes it. *)
LEMMA ReleaseIs ==
    ASSUME EpollTypes, Tidy, NEW f \in EP!Fd, EP!Release(f)
    PROVE  \/ Vacate(f, 0) /\ Len(available) < EpollTimers /\ available' = Append(available, f)
           \/ Vacate(f, -1) /\ UNCHANGED available
<1>1. etable' = [etable EXCEPT ![f] = -1] /\ known' = known \ {f}
  BY LookupIs DEF EP!Release
<1>2. CASE Len(available) < EpollTimers
  BY <1>1, <1>2 DEF EP!Release, Vacate, EP!IDLE
<1>3. CASE ~(Len(available) < EpollTimers)
  BY <1>1, <1>3 DEF EP!Release, Vacate, EP!NONE
<1> QED
  BY <1>2, <1>3

(* Every call, event and return of the loop does one of these. *)
LEMMA EpollSteps ==
    ASSUME EpollTypes, Tidy, Kept, Armed, [EP!Next]_epollVars
    PROVE  OpenSocket \/ CloseSocket \/ StartTimer \/ EndTimer \/ AfterHangup \/ OnlyControl
<1> USE DEF EP!NONE, EP!SOCKET, EP!IDLE
<1>0. EP!MayCall => \A id \in EP!Fd : owner[id] \in {0, -1} => (epc = "hangup call" => eat # id)
  <2>1. SUFFICES ASSUME EP!MayCall, epc = "hangup call" PROVE owner[eat] = -2
    BY NegativesDiffer
  <2>2. owner[eat] \in {-2, -1} /\ owner[eat] # -1
    BY <2>1 DEF EP!MayCall, Tidy
  <2> QED
    BY <2>2
<1>1. CASE EP!CallbackSet
  <2>1. EP!Lowest \in EP!Fd /\ owner[EP!Lowest] = -1
    BY <1>1, LowestIs DEF EP!CallbackSet
  <2>2. Occupy(EP!Lowest, -2)
    BY <1>0, <1>1, <2>1, LookupIs DEF EP!CallbackSet, Occupy
  <2>3. UNCHANGED <<available, eremembered, earmed, epc, eat>>
    BY <1>1 DEF EP!CallbackSet, EP!users, EP!control
  <2> QED
    BY <2>1, <2>2, <2>3 DEF OpenSocket
<1>2. ASSUME NEW f \in EP!Fd, EP!CallbackUnset(f) PROVE CloseSocket
  <2>1. Vacate(f, -1) /\ owner[f] = -2
    BY <1>2, LookupIs DEF EP!CallbackUnset, Vacate
  <2>2. UNCHANGED <<available, eremembered, earmed, epc, eat>>
    BY <1>2 DEF EP!CallbackUnset, EP!users, EP!control
  <2> QED
    BY <2>1, <2>2 DEF CloseSocket
<1>3. ASSUME NEW u \in User, EP!TimerSet(u) PROVE StartTimer
  <2> DEFINE id == IF available # <<>> THEN EP!Last(available) ELSE EP!Lowest
  <2>1. /\ owner' = [owner EXCEPT ![id] = u] /\ etable' = EP!Registered(etable, id) /\ known' = known \cup {id}
        /\ eremembered' = [eremembered EXCEPT ![u] = id] /\ earmed' = earmed \cup {u} /\ u \notin earmed
        /\ available' = IF available # <<>> THEN EP!Front(available) ELSE available
        /\ UNCHANGED <<epc, eat>> /\ EP!MayCall
    BY <1>3 DEF EP!TimerSet, EP!control
  <2>2. CASE available # <<>>
    <3>1. Len(available) \in DOMAIN available /\ EP!Last(available) = available[Len(available)]
      BY <2>2 DEF EP!Last, EpollTypes
    <3>2. id \in EP!Fd /\ owner[id] = 0
      BY <2>2, <3>1 DEF Kept, EpollTypes
    <3>3. Occupy(id, u)
      BY <1>0, <2>1, <3>2, LookupIs DEF Occupy
    <3>4. id = EP!Last(available) /\ available' = EP!Front(available)
      BY <2>1, <2>2
    <3> QED
      BY <2>1, <2>2, <3>2, <3>3, <3>4 DEF StartTimer
  <2>3. CASE available = <<>>
    <3>1. id \in EP!Fd /\ owner[id] = -1
      BY <1>3, <2>3, LowestIs DEF EP!TimerSet
    <3>2. Occupy(id, u)
      BY <1>0, <2>1, <3>1, LookupIs DEF Occupy
    <3>3. UNCHANGED available
      BY <2>1, <2>3
    <3> QED
      BY <2>1, <3>1, <3>2, <3>3 DEF StartTimer
  <2> QED
    BY <2>2, <2>3
<1>4. ASSUME NEW u \in User, EP!TimerUnset(u) PROVE EndTimer
  <2>1. eremembered[u] # -1 /\ EP!Release(eremembered[u])
    BY <1>4 DEF EP!TimerUnset
  <2>2. PICK f \in EP!Fd : f = eremembered[u] /\ owner[f] = u
    BY <2>1 DEF Armed
  <2>3. \/ Vacate(f, 0) /\ Len(available) < EpollTimers /\ available' = Append(available, f)
        \/ Vacate(f, -1) /\ UNCHANGED available
    BY <2>1, <2>2, ReleaseIs
  <2>4. eremembered' = [eremembered EXCEPT ![u] = -1] /\ earmed' = earmed \ {u} /\ UNCHANGED <<epc, eat>>
    BY <1>4 DEF EP!TimerUnset, EP!control
  <2> QED
    BY <2>2, <2>3, <2>4 DEF EndTimer
<1>5. ASSUME NEW f \in EP!Fd, EP!EventOf(f) PROVE EndTimer \/ OnlyControl
  <2>1. f \in known /\ eat' = f
    BY <1>5 DEF EP!EventOf
  <2>2. CASE owner[f] = -2
    BY <1>5, <2>1, <2>2 DEF EP!EventOf, OnlyControl, EP!users
  <2>3. CASE owner[f] # -2
    <3>1. PICK u \in User : u = owner[f]
      BY <2>1, <2>3 DEF Tidy, EpollTypes
    <3>2. epc' = "call" /\ EP!Release(f) /\ eremembered' = [eremembered EXCEPT ![u] = -1] /\ earmed' = earmed \ {u}
      BY <1>5, <2>3, <3>1 DEF EP!EventOf
    <3>3. eremembered[u] = f
      BY <3>1 DEF Armed
    <3>4. \/ Vacate(f, 0) /\ Len(available) < EpollTimers /\ available' = Append(available, f)
          \/ Vacate(f, -1) /\ UNCHANGED available
      BY <3>2, ReleaseIs
    <3> QED
      BY <3>1, <3>2, <3>3, <3>4 DEF EndTimer
  <2> QED
    BY <2>2, <2>3
<1>6. CASE EP!Back
  <2>1. epc' \in {"wait", "out"} /\ UNCHANGED <<owner, available, eremembered, earmed>>
    BY <1>6 DEF EP!Back, EP!users
  <2>2. CASE epc = "hangup call"
    <3>1. eat \in EP!Fd
      BY <2>2 DEF Tidy
    <3>2. etable' = [etable EXCEPT ![eat] = -1] /\ known' = known \ {eat}
      BY <1>6, <2>2, <3>1, LookupIs DEF EP!Back
    <3> QED
      BY <2>1, <2>2, <3>2 DEF AfterHangup
  <2>3. CASE epc # "hangup call"
    BY <1>6, <2>1, <2>3 DEF EP!Back, OnlyControl
  <2> QED
    BY <2>2, <2>3
<1>7. CASE EP!Stop \/ EP!Run \/ EP!NoEvent \/ UNCHANGED epollVars
  BY <1>7 DEF EP!Stop, EP!Run, EP!NoEvent, epollVars, EP!users, OnlyControl
<1> QED
  BY <1>1, <1>2, <1>3, <1>4, <1>5, <1>6, <1>7 DEF EP!Next

(* A number that is taken was unknown to epoll, and is not the one that hung up. *)
LEMMA AfterOccupy ==
    ASSUME EpollTypes, Tidy, NEW id, NEW w \in User \cup {-2}, Occupy(id, w), UNCHANGED <<epc, eat>>
    PROVE  /\ etable' \in [EP!Place -> EP!Fd \cup {-1}] /\ owner' \in [EP!Fd -> User \cup {0, -1, -2}]
           /\ known' \subseteq EP!Fd
           /\ Tidy'
<1>1. /\ id \in EP!Fd /\ id \in EP!Place /\ owner[id] \in {0, -1} /\ (epc = "hangup call" => eat # id)
      /\ owner' = [owner EXCEPT ![id] = w] /\ etable' = [etable EXCEPT ![id] = id] /\ known' = known \cup {id}
  BY FdIs DEF Occupy
<1>2. etable' \in [EP!Place -> EP!Fd \cup {-1}] /\ owner' \in [EP!Fd -> User \cup {0, -1, -2}] /\ known' \subseteq EP!Fd
  BY <1>1 DEF EpollTypes
<1>3. \A p \in EP!Place : etable'[p] = IF p \in known' THEN p ELSE -1
  BY <1>1 DEF EpollTypes, Tidy
<1>4. \A f \in EP!Fd : (owner'[f] \in User => f \in known') /\ (owner'[f] \in {0, -1} => f \notin known')
  <2>1. ASSUME NEW f \in EP!Fd, f # id PROVE owner'[f] = owner[f] /\ (f \in known' <=> f \in known)
    BY <1>1, <2>1 DEF EpollTypes
  <2>2. owner'[id] = w /\ id \in known' /\ w \notin {0, -1}
    <3>1. owner'[id] = w /\ id \in known'
      BY <1>1 DEF EpollTypes
    <3> QED
      BY <3>1, UserIs, NegativesDiffer
  <2> QED
    BY <2>1, <2>2 DEF Tidy
<1>5. epc' = "hangup call" => eat' \in EP!Fd /\ owner'[eat'] \in {-2, -1}
  BY <1>1 DEF Tidy, EpollTypes
<1> QED
  BY <1>2, <1>3, <1>4, <1>5 DEF Tidy

(* A number that is released is unknown to epoll. *)
LEMMA AfterVacate ==
    ASSUME EpollTypes, Tidy, NEW f, NEW w \in {0, -1}, Vacate(f, w)
    PROVE  /\ etable' \in [EP!Place -> EP!Fd \cup {-1}] /\ owner' \in [EP!Fd -> User \cup {0, -1, -2}]
           /\ known' \subseteq EP!Fd
           /\ \A p \in EP!Place : etable'[p] = IF p \in known' THEN p ELSE -1
           /\ \A g \in EP!Fd : (owner'[g] \in User => g \in known') /\ (owner'[g] \in {0, -1} => g \notin known')
<1>1. /\ f \in EP!Fd /\ f \in EP!Place
      /\ owner' = [owner EXCEPT ![f] = w] /\ etable' = [etable EXCEPT ![f] = -1] /\ known' = known \ {f}
  BY FdIs DEF Vacate
<1>2. etable' \in [EP!Place -> EP!Fd \cup {-1}] /\ owner' \in [EP!Fd -> User \cup {0, -1, -2}] /\ known' \subseteq EP!Fd
  BY <1>1 DEF EpollTypes
<1>3. \A p \in EP!Place : etable'[p] = IF p \in known' THEN p ELSE -1
  BY <1>1 DEF EpollTypes, Tidy
<1>4. ASSUME NEW g \in EP!Fd, g # f PROVE owner'[g] = owner[g] /\ (g \in known' <=> g \in known)
  BY <1>1, <1>4 DEF EpollTypes
<1>5. owner'[f] = w /\ f \notin known' /\ w \notin User
  BY <1>1, UserIs DEF EpollTypes
<1> QED
  BY <1>2, <1>3, <1>4, <1>5 DEF Tidy

(* The table has what epoll knows; after a hangup a number is released that no     *)
(* timer has.                                                                     *)
LEMMA NextTidy ==
    ASSUME EpollTypes, Tidy, Kept, Armed, [EP!Next]_epollVars
    PROVE  EpollTypes' /\ Tidy'
<1>1. CASE OpenSocket
  <2>1. PICK id \in EP!Fd : Occupy(id, -2) /\ owner[id] = -1 /\ UNCHANGED <<available, eremembered, earmed, epc, eat>>
    BY <1>1 DEF OpenSocket
  <2>2. -2 \in User \cup {-2}
    OBVIOUS
  <2> QED
    BY <2>1, <2>2, AfterOccupy DEF EpollTypes
<1>2. CASE CloseSocket
  <2>1. PICK f \in EP!Fd : Vacate(f, -1) /\ owner[f] = -2 /\ UNCHANGED <<available, eremembered, earmed, epc, eat>>
    BY <1>2 DEF CloseSocket
  <2>2. -1 \in {0, -1}
    OBVIOUS
  <2>3. EpollTypes'
    BY <2>1, <2>2, AfterVacate DEF EpollTypes
  <2>4. epc' = "hangup call" => eat' \in EP!Fd /\ owner'[eat'] \in {-2, -1}
    BY <2>1 DEF Tidy, Vacate, EpollTypes
  <2> QED
    BY <2>1, <2>2, <2>3, <2>4, AfterVacate DEF Tidy
<1>3. CASE StartTimer
  <2>1. PICK u \in User, id \in EP!Fd :
          /\ Occupy(id, u) /\ u \notin earmed
          /\ \/ owner[id] = -1 /\ UNCHANGED available
             \/ available # <<>> /\ id = EP!Last(available) /\ available' = EP!Front(available)
          /\ eremembered' = [eremembered EXCEPT ![u] = id] /\ earmed' = earmed \cup {u}
          /\ UNCHANGED <<epc, eat>>
    BY <1>3 DEF StartTimer
  <2>2. available' \in Seq(EP!Fd)
    <3>1. CASE available # <<>> /\ available' = EP!Front(available)
      BY <3>1, SubSeqProperties DEF EP!Front, EpollTypes
    <3> QED
      BY <2>1, <3>1 DEF EpollTypes
  <2>3. eremembered' \in [User -> EP!Fd \cup {-1}] /\ earmed' \subseteq User
    BY <2>1 DEF EpollTypes
  <2>4. u \in User \cup {-2}
    OBVIOUS
  <2> QED
    BY <2>1, <2>2, <2>3, <2>4, AfterOccupy DEF EpollTypes
<1>4. CASE EndTimer
  <2>1. PICK u \in User, f \in EP!Fd :
          /\ owner[f] = u /\ eremembered[u] = f
          /\ \/ Vacate(f, 0) /\ Len(available) < EpollTimers /\ available' = Append(available, f)
             \/ Vacate(f, -1) /\ UNCHANGED available
          /\ eremembered' = [eremembered EXCEPT ![u] = -1] /\ earmed' = earmed \ {u}
          /\ epc' = "call" \/ UNCHANGED <<epc, eat>>
    BY <1>4 DEF EndTimer
  <2>2. PICK w \in {0, -1} : Vacate(f, w)
    BY <2>1
  <2>3. available' \in Seq(EP!Fd)
    BY <2>1 DEF EpollTypes
  <2>4. eremembered' \in [User -> EP!Fd \cup {-1}] /\ earmed' \subseteq User
    BY <2>1 DEF EpollTypes
  <2>5. EpollTypes'
    BY <2>2, <2>3, <2>4, AfterVacate DEF EpollTypes
  <2>6. epc' = "hangup call" => eat' \in EP!Fd /\ owner'[eat'] \in {-2, -1}
    <3>1. SUFFICES ASSUME epc = "hangup call", UNCHANGED <<epc, eat>> PROVE eat' \in EP!Fd /\ owner'[eat'] \in {-2, -1}
      BY <2>1
    <3>2. eat \in EP!Fd /\ owner[eat] \in {-2, -1} /\ eat # f
      BY <2>1, <3>1, UserIs DEF Tidy
    <3> QED
      BY <2>2, <3>1, <3>2 DEF Vacate, EpollTypes
  <2> QED
    BY <2>2, <2>5, <2>6, AfterVacate DEF Tidy
<1>5. CASE AfterHangup
  <2>1. eat \in EP!Fd /\ eat \in EP!Place /\ owner[eat] \notin User
    BY <1>5, FdIs, UserIs DEF AfterHangup, Tidy
  <2>2. etable' = [etable EXCEPT ![eat] = -1] /\ known' = known \ {eat} /\ epc' # "hangup call"
        /\ UNCHANGED <<owner, available, eremembered, earmed>>
    BY <1>5 DEF AfterHangup
  <2>3. EpollTypes'
    BY <2>1, <2>2 DEF EpollTypes
  <2>4. \A p \in EP!Place : etable'[p] = IF p \in known' THEN p ELSE -1
    BY <2>1, <2>2 DEF EpollTypes, Tidy
  <2> QED
    BY <2>1, <2>2, <2>3, <2>4 DEF Tidy
<1>6. CASE OnlyControl
  BY <1>6 DEF OnlyControl, EpollTypes, Tidy
<1> QED
  BY <1>1, <1>2, <1>3, <1>4, <1>5, <1>6, EpollSteps

(* A timer out of use is given to one user, and comes back once. *)
LEMMA NextKeptTimers ==
    ASSUME EpollTypes, Tidy, Kept, Armed, [EP!Next]_epollVars
    PROVE  Kept'
<1>1. ASSUME UNCHANGED available, \A f \in EP!Fd : owner'[f] = 0 <=> owner[f] = 0 PROVE Kept'
  BY <1>1 DEF Kept
<1>2. CASE OpenSocket
  <2>1. PICK id \in EP!Fd : Occupy(id, -2) /\ owner[id] = -1 /\ UNCHANGED available
    BY <1>2 DEF OpenSocket
  <2>2. \A f \in EP!Fd : owner'[f] = IF f = id THEN -2 ELSE owner[f]
    BY <2>1 DEF Occupy, EpollTypes
  <2>3. \A f \in EP!Fd : owner'[f] = 0 <=> owner[f] = 0
    BY <2>1, <2>2, NegativesDiffer
  <2> QED
    BY <1>1, <2>1, <2>3
<1>3. CASE CloseSocket
  <2>1. PICK f \in EP!Fd : Vacate(f, -1) /\ owner[f] = -2 /\ UNCHANGED available
    BY <1>3 DEF CloseSocket
  <2>2. \A g \in EP!Fd : owner'[g] = 0 <=> owner[g] = 0
    BY <2>1 DEF Vacate, EpollTypes
  <2> QED
    BY <1>1, <2>1, <2>2
<1>4. CASE StartTimer
  <2>1. PICK u \in User, id \in EP!Fd :
          /\ Occupy(id, u)
          /\ \/ owner[id] = -1 /\ UNCHANGED available
             \/ available # <<>> /\ id = EP!Last(available) /\ available' = EP!Front(available)
    BY <1>4 DEF StartTimer
  <2>2. \A f \in EP!Fd : owner'[f] = IF f = id THEN u ELSE owner[f]
    BY <2>1 DEF Occupy, EpollTypes
  <2>3. u # 0
    BY UserIs
  <2>4. CASE owner[id] = -1 /\ UNCHANGED available
    BY <1>1, <2>2, <2>3, <2>4
  <2>5. CASE available # <<>> /\ id = EP!Last(available) /\ available' = EP!Front(available)
    <3>1. /\ Len(available) \in Nat \ {0} /\ DOMAIN available = 1 .. Len(available)
          /\ id = available[Len(available)]
      BY <2>5 DEF EP!Last, EpollTypes
    <3>2. available' = SubSeq(available, 1, Len(available) - 1)
      BY <2>5 DEF EP!Front
    <3>3. Len(available') = Len(available) - 1 /\ \A i \in 1 .. Len(available) - 1 : available'[i] = available[i]
      BY <3>1, <3>2, SubSeqProperties DEF EpollTypes
    <3>4. DOMAIN available' = 1 .. Len(available) - 1
      <4>1. available' \in Seq(EP!Fd)
        BY <3>2, SubSeqProperties DEF EpollTypes
      <4> QED
        BY <3>3, <4>1
    <3>5. Len(available') <= EpollTimers
      BY <3>1, <3>3, EpollAssumption DEF Kept
    <3>6. \A i, j \in DOMAIN available' : available'[i] = available'[j] => i = j
      BY <3>1, <3>3, <3>4 DEF Kept
    <3>7. ASSUME NEW f \in EP!Fd PROVE owner'[f] = 0 <=> \E i \in DOMAIN available' : available'[i] = f
      <4>1. CASE f = id
        <5>1. \A i \in 1 .. Len(available) - 1 : available[i] # id
          BY <3>1 DEF Kept
        <5> QED
          BY <2>2, <2>3, <3>3, <3>4, <4>1, <5>1
      <4>2. CASE f # id
        <5>1. (\E i \in 1 .. Len(available) : available[i] = f) <=> \E i \in 1 .. Len(available) - 1 : available[i] = f
          BY <3>1, <4>2
        <5> QED
          BY <2>2, <3>1, <3>3, <3>4, <4>2, <5>1 DEF Kept
      <4> QED
        BY <4>1, <4>2
    <3> QED
      BY <3>5, <3>6, <3>7 DEF Kept
  <2> QED
    BY <2>1, <2>4, <2>5
<1>5. CASE EndTimer
  <2>1. PICK u \in User, f \in EP!Fd :
          /\ owner[f] = u
          /\ \/ Vacate(f, 0) /\ Len(available) < EpollTimers /\ available' = Append(available, f)
             \/ Vacate(f, -1) /\ UNCHANGED available
    BY <1>5 DEF EndTimer
  <2>2. owner[f] # 0
    BY <2>1, UserIs
  <2>3. CASE Vacate(f, -1) /\ UNCHANGED available
    <3>1. \A g \in EP!Fd : owner'[g] = IF g = f THEN -1 ELSE owner[g]
      BY <2>3 DEF Vacate, EpollTypes
    <3> QED
      BY <1>1, <2>2, <2>3, <3>1
  <2>4. CASE Vacate(f, 0) /\ Len(available) < EpollTimers /\ available' = Append(available, f)
    <3>1. \A g \in EP!Fd : owner'[g] = IF g = f THEN 0 ELSE owner[g]
      BY <2>4 DEF Vacate, EpollTypes
    <3>2. /\ Len(available) \in Nat /\ DOMAIN available = 1 .. Len(available)
          /\ DOMAIN available' = 1 .. Len(available) + 1 /\ Len(available') = Len(available) + 1
          /\ available'[Len(available) + 1] = f /\ \A i \in 1 .. Len(available) : available'[i] = available[i]
      BY <2>4 DEF EpollTypes
    <3>3. Len(available') <= EpollTimers
      BY <2>4, <3>2, EpollAssumption
    <3>4. \A i \in DOMAIN available : available[i] # f
      BY <2>2 DEF Kept
    <3>5. \A i, j \in DOMAIN available' : available'[i] = available'[j] => i = j
      BY <3>2, <3>4 DEF Kept
    <3>6. ASSUME NEW g \in EP!Fd PROVE owner'[g] = 0 <=> \E i \in DOMAIN available' : available'[i] = g
      <4>1. CASE g = f
        BY <3>1, <3>2, <4>1
      <4>2. CASE g # f
        BY <3>1, <3>2, <4>2 DEF Kept
      <4> QED
        BY <4>1, <4>2
    <3> QED
      BY <3>3, <3>5, <3>6 DEF Kept
  <2> QED
    BY <2>1, <2>3, <2>4
<1>6. CASE AfterHangup \/ OnlyControl
  BY <1>1, <1>6 DEF AfterHangup, OnlyControl
<1> QED
  BY <1>2, <1>3, <1>4, <1>5, <1>6, EpollSteps

(* The timer of a user is its own until it is over. *)
LEMMA NextArmed ==
    ASSUME EpollTypes, Tidy, Kept, Armed, [EP!Next]_epollVars
    PROVE  Armed'
<1>1. ASSUME UNCHANGED <<eremembered, earmed>>, NEW f \in EP!Fd, owner[f] \notin User,
             NEW w, w \notin User, owner' = [owner EXCEPT ![f] = w]
      PROVE  Armed'
  <2>1. \A g \in EP!Fd : owner'[g] = IF g = f THEN w ELSE owner[g]
    BY <1>1 DEF EpollTypes
  <2> QED
    BY <1>1, <2>1 DEF Armed
<1>2. CASE OpenSocket
  <2>1. PICK id \in EP!Fd : owner' = [owner EXCEPT ![id] = -2] /\ owner[id] = -1 /\ UNCHANGED <<eremembered, earmed>>
    BY <1>2 DEF OpenSocket, Occupy
  <2> QED
    BY <1>1, <2>1, UserIs
<1>3. CASE CloseSocket
  <2>1. PICK f \in EP!Fd : owner' = [owner EXCEPT ![f] = -1] /\ owner[f] = -2 /\ UNCHANGED <<eremembered, earmed>>
    BY <1>3 DEF CloseSocket, Vacate
  <2> QED
    BY <1>1, <2>1, UserIs
<1>4. CASE StartTimer
  <2>1. PICK u \in User, id \in EP!Fd :
          /\ owner[id] \in {0, -1} /\ owner' = [owner EXCEPT ![id] = u] /\ u \notin earmed
          /\ eremembered' = [eremembered EXCEPT ![u] = id] /\ earmed' = earmed \cup {u}
    BY <1>4 DEF StartTimer, Occupy
  <2>2. \A g \in EP!Fd : owner'[g] = IF g = id THEN u ELSE owner[g]
    BY <2>1 DEF EpollTypes
  <2>3. \A v \in User : eremembered'[v] = IF v = u THEN id ELSE eremembered[v]
    BY <2>1 DEF EpollTypes
  <2>4. owner[id] \notin User
    BY <2>1, UserIs
  <2>5. \A v \in User : v \in earmed' => eremembered'[v] \in EP!Fd /\ owner'[eremembered'[v]] = v
    BY <2>1, <2>2, <2>3, <2>4 DEF Armed
  <2>6. \A v \in User : v \notin earmed' => eremembered'[v] = -1
    BY <2>1, <2>3 DEF Armed
  <2>7. \A f \in EP!Fd : owner'[f] \in User => owner'[f] \in earmed' /\ eremembered'[owner'[f]] = f
    BY <2>1, <2>2, <2>3 DEF Armed
  <2> QED
    BY <2>5, <2>6, <2>7 DEF Armed
<1>5. CASE EndTimer
  <2>1. PICK u \in User, f \in EP!Fd :
          /\ owner[f] = u /\ eremembered[u] = f /\ (Vacate(f, 0) \/ Vacate(f, -1))
          /\ eremembered' = [eremembered EXCEPT ![u] = -1] /\ earmed' = earmed \ {u}
    BY <1>5 DEF EndTimer
  <2>2. PICK w : w \notin User /\ owner' = [owner EXCEPT ![f] = w]
    BY <2>1, UserIs DEF Vacate
  <2>3. \A g \in EP!Fd : owner'[g] = IF g = f THEN w ELSE owner[g]
    BY <2>2 DEF EpollTypes
  <2>4. \A v \in User : eremembered'[v] = IF v = u THEN -1 ELSE eremembered[v]
    BY <2>1 DEF EpollTypes
  <2>5. \A v \in User : v \in earmed' => eremembered'[v] \in EP!Fd /\ owner'[eremembered'[v]] = v
    BY <2>1, <2>3, <2>4 DEF Armed
  <2>6. \A v \in User : v \notin earmed' => eremembered'[v] = -1
    BY <2>1, <2>4 DEF Armed
  <2>7. \A g \in EP!Fd : owner'[g] \in User => owner'[g] \in earmed' /\ eremembered'[owner'[g]] = g
    BY <2>1, <2>2, <2>3, <2>4 DEF Armed
  <2> QED
    BY <2>5, <2>6, <2>7 DEF Armed
<1>6. CASE AfterHangup \/ OnlyControl
  BY <1>6 DEF AfterHangup, OnlyControl, Armed
<1> QED
  BY <1>2, <1>3, <1>4, <1>5, <1>6, EpollSteps

(* What is kept of the tables says that they agree. *)
LEMMA EpollKnows ==
    ASSUME EpollTypes, Tidy, Kept, Armed
    PROVE  EP!TimerIsOwn /\ EP!AvailableIsIdle /\ EP!TableIsKnown
<1> USE DEF EP!NONE, EP!IDLE
<1>1. EP!TimerIsOwn
  <2>1. SUFFICES ASSUME NEW u \in User
                 PROVE  LET own == {f \in EP!Fd : owner[f] = u}
                        IN IF u \in earmed
                           THEN own = {eremembered[u]} /\ own \subseteq known
                           ELSE own = {} /\ eremembered[u] = -1
    BY DEF EP!TimerIsOwn
  <2> DEFINE own == {f \in EP!Fd : owner[f] = u}
  <2>2. own \subseteq known
    BY DEF Tidy
  <2>3. u \in earmed => own = {eremembered[u]}
    BY DEF Armed
  <2>4. u \notin earmed => own = {} /\ eremembered[u] = -1
    BY DEF Armed
  <2> QED
    BY <2>2, <2>3, <2>4
<1>2. EP!ToSet(available) = {f \in EP!Fd : owner[f] = 0}
  BY DEF EP!ToSet, Kept, EpollTypes
<1>3. EP!AvailableIsIdle
  BY <1>2 DEF EP!AvailableIsIdle, Kept, Tidy
<1>4. EP!TableIsKnown
  <2>1. \A f \in known : EP!Has(etable, f)
    BY LookupIs DEF EpollTypes
  <2>2. \A p \in EP!Place : etable[p] # -1 => p \in known /\ etable[p] = p
    BY DEF Tidy
  <2>3. \A f \in known : f # -1
    BY FdIs DEF EpollTypes
  <2> QED
    BY <2>1, <2>2, <2>3 DEF EP!TableIsKnown
<1> QED
  BY <1>1, <1>3, <1>4

-----------------------------------------------------------------------------
PollInv == PollTypes /\ Timers /\ Running /\ PO!ContainerIsHeld
EpollInv == EpollTypes /\ Tidy /\ Kept /\ Armed

(* Under poll and epoll a user has one timer or none, the one it remembers; epoll *)
(* knows what the table has a callback for; timers out of use are idle; the       *)
(* container of a listener lives as long as its registration; and a loop that was *)
(* stopped has been woken.                                                        *)
THEOREM LoopsCorrect == Spec => []LoopsKnow
<1>1. Init => PollInv /\ EpollInv
  BY InitPoll, InitEpoll DEF Init, PollInv, EpollInv
<1>2. PollInv /\ EpollInv /\ [Next]_vars => (PollInv /\ EpollInv)'
  <2>1. SUFFICES ASSUME PollInv, EpollInv, [Next]_vars PROVE (PollInv /\ EpollInv)'
    OBVIOUS
  <2>2. [PO!Next]_pollVars
    BY <2>1 DEF Next, PollStep, EpollStep, IoStep, SendStep, ReceiveStep, ItemStep, StoreStep, AppStep, RoutesStep,
       FileSent, FileReceived, vars, loopVars
  <2>3. [EP!Next]_epollVars
    BY <2>1 DEF Next, PollStep, EpollStep, IoStep, SendStep, ReceiveStep, ItemStep, StoreStep, AppStep, RoutesStep,
       FileSent, FileReceived, vars, loopVars
  <2>4. PollInv'
    BY <2>1, <2>2, NextPollTypes, NextTimers, NextRunning, NextContainer DEF PollInv
  <2>5. EpollInv'
    BY <2>1, <2>3, NextTidy, NextKeptTimers, NextArmed DEF EpollInv
  <2> QED
    BY <2>4, <2>5
<1>3. PollInv /\ EpollInv => LoopsKnow
  BY PollTimerIs, EpollKnows DEF PollInv, EpollInv, LoopsKnow, Running
<1> QED
  BY <1>1, <1>2, <1>3, PTL DEF Spec

-----------------------------------------------------------------------------
(* A callback is registered for the connection that is open, and what poll  *)
(* reported is about that connection, but for a descriptor without callback *)
(* or one registered since.                                                 *)
Reported ==
    /\ open = func /\ revents \in [PollFd -> Nat]
    /\ \A f \in PollFd \ reused : func[f] # 0 /\ revents[f] # 0 => revents[f] = func[f]

(* A callback set since poll returned is one of `reused', and one unset has   *)
(* no connection left: neither is among those an event is compared for.       *)
LEMMA NextReported == PollTypes /\ Reported /\ [PO!Next]_pollVars => Reported'
<1> SUFFICES ASSUME PollTypes, Reported, [PO!Next]_pollVars PROVE Reported'
  OBVIOUS
<1> USE DEF PO!NONE
<1>1. ASSUME NEW f, PO!Set(f), UNCHANGED revents PROVE Reported'
  <2>1. func' = [func EXCEPT ![f] = conns'] /\ open' = func' /\ reused' = reused \cup {f}
    BY <1>1 DEF PO!Set, Reported
  <2>2. \A g \in PollFd \ reused' : g \notin reused /\ func'[g] = func[g]
    BY <2>1 DEF PollTypes
  <2> QED
    BY <1>1, <2>1, <2>2 DEF Reported
<1>2. ASSUME NEW f, PO!Unset(f), UNCHANGED <<revents, reused>> PROVE Reported'
  <2>1. func' = [func EXCEPT ![f] = 0] /\ open' = func'
    BY <1>2 DEF PO!Unset, Reported
  <2>2. \A g \in PollFd : func'[g] # 0 => func'[g] = func[g]
    BY <2>1 DEF PollTypes
  <2> QED
    BY <1>2, <2>1, <2>2 DEF Reported
<1>3. ASSUME NEW f \in PollFd, PO!CallbackSet(f) \/ PO!CallbackUnset(f) \/ PO!Accept(f) PROVE Reported'
  BY <1>1, <1>2, <1>3 DEF PO!CallbackSet, PO!CallbackUnset, PO!Accept, PO!polling
<1>4. CASE PO!AddConnectionAccept \/ PO!RemoveConnectionAccept \/ PO!ListenerLost
  BY <1>1, <1>2, <1>4 DEF PO!AddConnectionAccept, PO!RemoveConnectionAccept, PO!ListenerLost, PO!polling
<1>5. CASE PO!Return
  <2>1. revents' = [f \in PollFd |-> IF f \in polled /\ ready[f] THEN func[f] ELSE 0]
    BY <1>5 DEF PO!Return, Reported
  <2>2. revents' \in [PollFd -> Nat]
    BY <2>1 DEF PollTypes
  <2>3. \A f \in PollFd : revents'[f] # 0 => revents'[f] = func[f]
    BY <2>1
  <2> QED
    BY <1>5, <2>2, <2>3 DEF PO!Return, Reported
<1>6. CASE PO!SocketsDone
  BY <1>6 DEF PO!SocketsDone, PO!tables, Reported
<1>7. ASSUME UNCHANGED <<func, open, reused, revents>> PROVE Reported'
  BY <1>7 DEF Reported
<1>8. ASSUME NEW u \in User, PO!TimerSet(u) \/ PO!TimerUnset(u) PROVE Reported'
  BY <1>7, <1>8 DEF PO!TimerSet, PO!TimerUnset, PO!tables, PO!polling
<1>9. ASSUME NEW s \in PO!Slot, PO!TimeComes(s) PROVE Reported'
  BY <1>7, <1>9 DEF PO!TimeComes, PO!tables, PO!polling
<1>10. ASSUME NEW f \in PollFd, PO!DataComes(f) PROVE Reported'
  BY <1>7, <1>10 DEF PO!DataComes, PO!polling
<1>11. CASE PO!Stop \/ PO!Run \/ PO!Block \/ PO!CallTimer \/ PO!TimerCalled
  BY <1>7, <1>11 DEF PO!Stop, PO!Run, PO!Block, PO!CallTimer, PO!TimerCalled, PO!tables, PO!polling
<1>12. CASE PO!TimersDone \/ PO!CallSocket \/ PO!SocketCalled \/ UNCHANGED pollVars
  BY <1>7, <1>12 DEF PO!TimersDone, PO!CallSocket, PO!SocketCalled, PO!tables, PO!polling, pollVars
<1> QED
  BY <1>3, <1>4, <1>5, <1>6, <1>8, <1>9, <1>10, <1>11, <1>12 DEF PO!Next

(* Only the loop over the sockets begins the callback of a descriptor, and   *)
(* only for one with a callback and an event.                                *)
LEMMA CallIsOwn ==
    ASSUME Reported, [PO!Next]_pollVars, pc = "sockets", pc' = "socket call", at \notin reused
    PROVE  func[at] # 0 /\ revents[at] = func[at]
<1> USE DEF PO!NONE
<1>1. ASSUME NEW f \in PollFd, PO!CallbackSet(f) \/ PO!CallbackUnset(f) \/ PO!Accept(f) \/ PO!DataComes(f) PROVE FALSE
  BY <1>1 DEF PO!CallbackSet, PO!CallbackUnset, PO!Accept, PO!DataComes, PO!control
<1>2. ASSUME NEW u \in User, PO!TimerSet(u) \/ PO!TimerUnset(u) PROVE FALSE
  BY <1>2 DEF PO!TimerSet, PO!TimerUnset, PO!control
<1>3. ASSUME NEW s \in PO!Slot, PO!TimeComes(s) PROVE FALSE
  BY <1>3 DEF PO!TimeComes, PO!control
<1>4. CASE PO!AddConnectionAccept \/ PO!RemoveConnectionAccept \/ PO!ListenerLost
  BY <1>4 DEF PO!AddConnectionAccept, PO!RemoveConnectionAccept, PO!ListenerLost, PO!control
<1>5. CASE PO!Stop \/ PO!Run \/ PO!Block \/ PO!Return \/ PO!CallTimer \/ PO!TimerCalled
  BY <1>5 DEF PO!Stop, PO!Run, PO!Block, PO!Return, PO!CallTimer, PO!TimerCalled
<1>6. CASE PO!TimersDone \/ PO!SocketCalled \/ PO!SocketsDone \/ UNCHANGED pollVars
  BY <1>6 DEF PO!TimersDone, PO!SocketCalled, PO!SocketsDone, pollVars
<1>7. CASE PO!CallSocket
  BY <1>7 DEF PO!CallSocket, Reported
<1> QED
  BY <1>1, <1>2, <1>3, <1>4, <1>5, <1>6, <1>7 DEF PO!Next

(* However callbacks set and unset descriptors while a round of poll is under   *)
(* way: a callback is called for an event of the connection it was set for,     *)
(* unless its descriptor was registered since poll returned.                    *)
THEOREM EventsCorrect == Spec => EventIsOwn
<1>1. Init => PollInv /\ Reported
  <2>1. Init => PollInv
    BY InitPoll DEF Init, PollInv
  <2>2. ASSUME PO!Init PROVE Reported
    <3>1. open = func /\ revents = [f \in PollFd |-> 0]
      BY <2>2 DEF PO!Init, PO!NONE
    <3> QED
      BY <3>1 DEF Reported
  <2> QED
    BY <2>1, <2>2 DEF Init
<1>2. [Next]_vars => [PO!Next]_pollVars
  BY DEF Next, PollStep, EpollStep, IoStep, SendStep, ReceiveStep, ItemStep, StoreStep, AppStep, RoutesStep,
     FileSent, FileReceived, vars, loopVars
<1>3. PollInv /\ Reported /\ [Next]_vars => (PollInv /\ Reported)'
  BY <1>2, NextPollTypes, NextTimers, NextRunning, NextContainer, NextReported DEF PollInv
<1>4. Reported /\ [Next]_vars =>
          [pc = "sockets" /\ pc' = "socket call" /\ at \notin reused
              => func[at] # PO!NONE /\ revents[at] = func[at]]_(PO!vars)
  BY <1>2, CallIsOwn DEF PO!NONE
<1> QED
  BY <1>1, <1>3, <1>4, PTL DEF Spec, EventIsOwn, PO!EventIsOwn

-----------------------------------------------------------------------------
(* The connections of dtn_io.c, by their types and numbers. *)
Msg == Nat \ {0}
IoConnection ==
    [id : 1 .. MaxConnections, kind : {"listener", "accepted", "client"}, peer : Peer \cup {IO!NoPeer},
     of : IoFd \cup {0}, tls : {"plain", "shaking", "done"}, out : Nat, queue : Seq(Msg)]
IoTask == [at : {"idle", "push", "flush", "send", "again"}, fd : IoFd \cup {0}, id : 0 .. MaxConnections, msg : Nat]
IoTypes ==
    /\ conn \in [IoFd -> {IO!Closed} \cup IoConnection]
    /\ watched \in [IoFd -> SUBSET {"in", "out"}]
    /\ wanted \subseteq Peer
    /\ reconnects \in [Peer -> Nat] /\ retry \in [Peer -> Nat]
    /\ partial \in [IoFd -> Nat]
    /\ given \in [1 .. MaxConnections -> Seq(Msg)] /\ sent \in [1 .. MaxConnections -> Seq(Msg)]
    /\ stray \in [1 .. MaxConnections -> SUBSET (Nat \X Nat)]
    /\ step \in [IoThread -> IoTask]
    /\ iconns \in 0 .. MaxConnections /\ msgs \in Nat

(* No two connections have a number; those to come have sent nothing. *)
Numbered ==
    /\ \A f \in IoFd : conn[f].id <= iconns
    /\ \A f, g \in IoFd : conn[f].id = conn[g].id /\ conn[f].id # 0 => f = g
    /\ \A i \in iconns + 1 .. MaxConnections : given[i] = <<>> /\ sent[i] = <<>>
    /\ \A t \in IoThread : /\ step[t].id <= iconns
                           /\ step[t].at = "idle" => step[t] = IO!Idle
                           /\ step[t].at # "idle" => step[t].fd \in IoFd /\ step[t].id # 0
                           /\ step[t].at \in {"push", "send", "again"} => step[t].msg # 0

(* What a connection keeps of a message that was tried, and the thread that *)
(* tries one for the first time.                                            *)
KeptOf(m) == IF m = 0 THEN <<>> ELSE <<m>>
KeptOut(f) == KeptOf(conn[f].out)
InRow(s, c, q) == s \o (c \o q)
Carries(t, f) == IO!About(t, f) /\ step[t].at = "send"

(* Of a connection no two threads were about at once: what was given to it is *)
(* sent, then what is carried or kept, then the queue; and the loop looks for *)
(* room as long as any is.                                                    *)
Lone(f) ==
    /\ \A t, u \in IoThread : IO!About(t, f) /\ IO!About(u, f) => t = u
    /\ \A t \in IoThread :
         Carries(t, f) => /\ conn[f].out = 0
                          /\ given[conn[f].id] = InRow(sent[conn[f].id], <<step[t].msg>>, conn[f].queue)
    /\ (\A t \in IoThread : ~Carries(t, f))
         => given[conn[f].id] = InRow(sent[conn[f].id], KeptOut(f), conn[f].queue)
    /\ \A t \in IoThread : IO!About(t, f) /\ step[t].at = "again" => step[t].msg = conn[f].out
    /\ conn[f].out # 0 \/ conn[f].queue # <<>> \/ (\E t \in IoThread : IO!About(t, f)) => "out" \in watched[f]
Ordered(i) ==
    /\ \E rest_ \in Seq(Msg) : given[i] = sent[i] \o rest_
    /\ \A s \in stray[i] : s[1] \in 1 .. Len(given[i]) /\ given[i][s[1]] = s[2]
InOrder ==
    /\ \A i \in (1 .. MaxConnections) \ raced : Ordered(i)
    /\ \A f \in IO!Open : conn[f].id \notin raced => Lone(f)

(* A step about another connection leaves one alone. *)
LEMMA LoneKept ==
    ASSUME NEW f \in IoFd, Lone(f),
           conn'[f].id = conn[f].id, conn'[f].out = conn[f].out, conn'[f].queue = conn[f].queue,
           watched'[f] = watched[f],
           given'[conn[f].id] = given[conn[f].id], sent'[conn[f].id] = sent[conn[f].id],
           \A t \in IoThread : step'[t] = step[t] \/ (~IO!About(t, f) /\ ~(IO!About(t, f)'))
    PROVE  Lone(f)'
<1>1. \A t \in IoThread : /\ IO!About(t, f)' <=> IO!About(t, f)
                          /\ Carries(t, f)' <=> Carries(t, f)
                          /\ IO!About(t, f) => step'[t] = step[t]
  BY DEF IO!About, Carries
<1>2. KeptOut(f)' = KeptOut(f)
  BY DEF KeptOut
<1>3. \A t \in IoThread : Carries(t, f) => IO!About(t, f)
  BY DEF Carries
<1>4. \A t \in IoThread :
         Carries(t, f)' => /\ conn'[f].out = 0
                           /\ given'[conn'[f].id] = InRow(sent'[conn'[f].id], <<step'[t].msg>>, conn'[f].queue)
  BY <1>1, <1>3 DEF Lone
<1>5. (\A t \in IoThread : ~(Carries(t, f)'))
         => given'[conn'[f].id] = InRow(sent'[conn'[f].id], KeptOut(f)', conn'[f].queue)
  BY <1>1, <1>2 DEF Lone
<1>6. /\ \A t, u \in IoThread : IO!About(t, f)' /\ IO!About(u, f)' => t = u
      /\ \A t \in IoThread : IO!About(t, f)' /\ step'[t].at = "again" => step'[t].msg = conn'[f].out
      /\ conn'[f].out # 0 \/ conn'[f].queue # <<>> \/ (\E t \in IoThread : IO!About(t, f)') => "out" \in watched'[f]
  BY <1>1 DEF Lone
<1> QED
  BY <1>4, <1>5, <1>6 DEF Lone

(* socket() gives the lowest descriptor that is free. *)
LEMMA LowestIsFree ==
    ASSUME IO!Open # IoFd
    PROVE  IO!Lowest \in IoFd /\ IO!Lowest \notin IO!Open
<1> DEFINE T == IoFd \ IO!Open
<1>1. IO!Open \subseteq IoFd
  BY DEF IO!Open
<1>2. T \in SUBSET Nat /\ T # {}
  BY <1>1, IoAssumption
<1>3. PICK m \in T : \A k \in T : m <= k
  BY <1>2, LeastElement
<1>4. \A g \in IoFd : g < m => g \in IO!Open
  BY <1>2, <1>3, IoAssumption
<1> QED
  BY <1>3, <1>4 DEF IO!Lowest

(* What opening a connection changes, whoever opens it. *)
Opens(kind, peer_, of, tls) ==
    /\ IO!CanOpen /\ iconns' = iconns + 1
    /\ conn' = [conn EXCEPT ![IO!Lowest] = IO!Made(iconns', kind, peer_, of, tls)]
    /\ watched' = [watched EXCEPT ![IO!Lowest] = {"in"}]
    /\ timers' = IF tls = "shaking" THEN timers \cup {iconns'} ELSE timers
    /\ UNCHANGED <<partial, given, sent, stray, raced, step, msgs>>

LEMMA OpenedIs ==
    ASSUME IoTypes, Numbered,
           NEW kind \in {"listener", "accepted", "client"}, NEW p \in Peer \cup {IO!NoPeer},
           NEW of \in IoFd \cup {0}, NEW tls \in {"plain", "shaking", "done"}, Opens(kind, p, of, tls)
    PROVE  /\ conn' \in [IoFd -> {IO!Closed} \cup IoConnection] /\ watched' \in [IoFd -> SUBSET {"in", "out"}]
           /\ iconns' \in 0 .. MaxConnections
           /\ Numbered'
           /\ IO!NothingOutlives => IO!NothingOutlives'
           /\ InOrder => InOrder'
           /\ IO!Lowest \in IO!Open' /\ conn'[IO!Lowest].peer = p
           /\ \A f \in IO!Open : f \in IO!Open' /\ conn'[f] = conn[f]
<1> DEFINE new == IO!Made(iconns', kind, p, of, tls)
<1>0. iconns \in Nat /\ MaxConnections \in Nat
  BY IoAssumption DEF IoTypes
<1>l. PICK l \in IoFd : l = IO!Lowest /\ l \notin IO!Open
  BY LowestIsFree DEF Opens, IO!CanOpen
<1>1. l \in IoFd /\ l \notin IO!Open /\ iconns < MaxConnections
  BY <1>l DEF Opens, IO!CanOpen
<1>2. iconns' \in 1 .. MaxConnections /\ iconns' = iconns + 1 /\ iconns' \in Nat
  BY <1>0, <1>1 DEF Opens
<1>3. new \in IoConnection
  BY <1>2 DEF IO!Made, IoConnection, IO!NONE
<1> HIDE DEF new
<1>4. conn' = [conn EXCEPT ![l] = new] /\ watched' = [watched EXCEPT ![l] = {"in"}]
  BY <1>l DEF Opens, new
<1>5. conn' \in [IoFd -> {IO!Closed} \cup IoConnection] /\ watched' \in [IoFd -> SUBSET {"in", "out"}]
  BY <1>1, <1>3, <1>4 DEF IoTypes
<1>6. conn'[l] = new /\ watched'[l] = {"in"} /\ (\A f \in IoFd \ {l} : conn'[f] = conn[f] /\ watched'[f] = watched[f])
  BY <1>1, <1>4 DEF IoTypes
<1>7. new.id = iconns' /\ new.out = 0 /\ new.queue = <<>> /\ new.peer = p /\ new.tls = tls
  BY DEF new, IO!Made, IO!NONE
<1>8. IO!Open' = IO!Open \cup {l} /\ conn[l].id = 0
  BY <1>1, <1>2, <1>6, <1>7 DEF IO!Open, IO!NONE
<1>9. \A f \in IoFd : conn[f].id \in Nat /\ conn[f].id <= iconns
  BY DEF IoTypes, Numbered, IO!Closed, IO!NONE, IoConnection
<1>10. Numbered'
  <2>1. \A f \in IoFd : conn'[f].id <= iconns'
    BY <1>0, <1>2, <1>6, <1>7, <1>9
  <2>2. \A f, g \in IoFd : conn'[f].id = conn'[g].id /\ conn'[f].id # 0 => f = g
    BY <1>0, <1>2, <1>6, <1>7, <1>9 DEF Numbered
  <2>3. \A i \in iconns' + 1 .. MaxConnections : given'[i] = <<>> /\ sent'[i] = <<>>
    BY <1>2 DEF Numbered, Opens, IoTypes
  <2>4. \A t \in IoThread : /\ step'[t].id <= iconns'
                            /\ step'[t].at = "idle" => step'[t] = IO!Idle
                            /\ step'[t].at # "idle" => step'[t].fd \in IoFd /\ step'[t].id # 0
                            /\ step'[t].at \in {"push", "send", "again"} => step'[t].msg # 0
    <3>1. step' = step /\ iconns <= iconns'
      BY <1>0, <1>2 DEF Opens
    <3>2. \A t \in IoThread : step[t].id \in Nat /\ step[t].id <= iconns
      BY DEF Numbered, IoTypes, IoTask
    <3>3. \A t \in IoThread : step[t].id <= iconns'
      BY <1>0, <1>2, <3>1, <3>2
    <3> QED
      BY <3>1, <3>3 DEF Numbered
  <2> QED
    BY <2>1, <2>2, <2>3, <2>4 DEF Numbered
<1>11. ASSUME IO!NothingOutlives PROVE IO!NothingOutlives'
  <2>1. \A i \in timers' : \E f \in IO!Open' : conn'[f].id = i /\ conn'[f].tls = "shaking"
    BY <1>1, <1>6, <1>7, <1>8, <1>11 DEF IO!NothingOutlives, Opens, IO!Open
  <2>2. \A f \in IoFd : partial'[f] \in {0, conn'[f].id}
    BY <1>6, <1>8, <1>11 DEF IO!NothingOutlives, Opens, IO!NONE
  <2> QED
    BY <2>1, <2>2 DEF IO!NothingOutlives, IO!NONE
<1>12. ASSUME InOrder PROVE InOrder'
  <2>1. UNCHANGED <<given, sent, stray, raced, step>>
    BY DEF Opens
  <2>2. \A f \in IO!Open : f # l /\ conn'[f] = conn[f] /\ watched'[f] = watched[f] /\ f \in IoFd
    BY <1>1, <1>6 DEF IO!Open
  <2>3. \A t \in IoThread : step[t].id <= iconns /\ step[t].id \in Nat
    BY DEF IoTypes, IoTask, Numbered
  <2>4. \A t \in IoThread : ~(IO!About(t, l)')
    BY <1>0, <1>2, <1>6, <1>7, <2>1, <2>3 DEF IO!About
  <2>5. given'[iconns'] = <<>> /\ sent'[iconns'] = <<>>
    BY <1>2, <2>1 DEF Numbered, IoTypes
  <2>6. KeptOut(l)' = <<>> /\ given'[conn'[l].id] = InRow(sent'[conn'[l].id], KeptOut(l)', conn'[l].queue)
    BY <1>6, <1>7, <2>5 DEF KeptOut, KeptOf, InRow
  <2>7. Lone(l)'
    BY <1>6, <1>7, <2>4, <2>6 DEF Lone, Carries
  <2>8. ASSUME NEW f \in IO!Open, conn[f].id \notin raced PROVE Lone(f)'
    BY <1>12, <2>1, <2>2, <2>8, LoneKept DEF InOrder
  <2>9. \A i \in (1 .. MaxConnections) \ raced' : Ordered(i)'
    BY <1>12, <2>1 DEF InOrder, Ordered
  <2> QED
    BY <1>8, <2>1, <2>2, <2>7, <2>8, <2>9 DEF InOrder
<1> QED
  BY <1>l, <1>1, <1>2, <1>5, <1>6, <1>7, <1>8, <1>10, <1>11, <1>12 DEF IO!Open
(* connection_free: what was kept for those that go is given up, and clients *)
(* are put on the list again.                                                *)
LEMMA FreedIs ==
    ASSUME IoTypes, Numbered, NEW those \in SUBSET IoFd, NEW again \in {1, 2}, IO!Free(those, again)
    PROVE  /\ IoTypes' /\ Numbered'
           /\ IO!NothingOutlives => IO!NothingOutlives'
           /\ IO!ClientIsKept => IO!ClientIsKept'
           /\ InOrder => InOrder'
<1>1. \A f \in IoFd : /\ conn'[f] = IF f \in those THEN IO!Closed ELSE conn[f]
                      /\ watched'[f] = IF f \in those THEN {} ELSE watched[f]
                      /\ partial'[f] = IF f \in those THEN 0 ELSE partial[f]
  BY DEF IO!Free, IO!Dropped, IO!NONE
<1>2. UNCHANGED <<wanted, retry, iconns, given, sent, stray, raced, step, msgs>>
  BY DEF IO!Free, IO!sending
<1>3. \A p \in Peer : reconnects'[p] \in Nat /\ reconnects'[p] = reconnects[p] + IF \E f \in those : conn[f].peer = p THEN again ELSE 0
  BY DEF IO!Free, IoTypes
<1>4. IoTypes'
  <2>1. conn' \in [IoFd -> {IO!Closed} \cup IoConnection]
    BY DEF IO!Free, IoTypes
  <2>2. watched' \in [IoFd -> SUBSET {"in", "out"}] /\ partial' \in [IoFd -> Nat]
    BY DEF IO!Free, IoTypes, IO!Dropped, IO!NONE
  <2>3. reconnects' \in [Peer -> Nat]
    BY <1>3 DEF IO!Free
  <2> QED
    BY <1>2, <2>1, <2>2, <2>3 DEF IoTypes
<1>5. IO!Closed.id = 0
  BY DEF IO!Closed, IO!NONE
<1>6. IO!Open' = IO!Open \ those
  BY <1>1, <1>5 DEF IO!Open, IO!NONE
<1>7. Numbered'
  <2>0. iconns \in Nat
    BY DEF IoTypes
  <2>1. \A f \in IoFd : conn'[f].id <= iconns'
    BY <1>1, <1>2, <1>5, <2>0 DEF Numbered
  <2>2. \A f, g \in IoFd : conn'[f].id = conn'[g].id /\ conn'[f].id # 0 => f = g
    BY <1>1, <1>5 DEF Numbered
  <2>3. \A i \in iconns' + 1 .. MaxConnections : given'[i] = <<>> /\ sent'[i] = <<>>
    BY <1>2 DEF Numbered
  <2>4. \A t \in IoThread : /\ step'[t].id <= iconns'
                            /\ step'[t].at = "idle" => step'[t] = IO!Idle
                            /\ step'[t].at # "idle" => step'[t].fd \in IoFd /\ step'[t].id # 0
                            /\ step'[t].at \in {"push", "send", "again"} => step'[t].msg # 0
    BY <1>2 DEF Numbered
  <2> QED
    BY <2>1, <2>2, <2>3, <2>4 DEF Numbered
<1>8. ASSUME IO!NothingOutlives PROVE IO!NothingOutlives'
  <2>1. timers' = timers \ {conn[f].id : f \in those}
    BY DEF IO!Free, IO!UnsetTimers
  <2>2. ASSUME NEW i \in timers' PROVE \E f \in IO!Open' : conn'[f].id = i /\ conn'[f].tls = "shaking"
    <3>1. PICK f \in IO!Open : conn[f].id = i /\ conn[f].tls = "shaking"
      BY <1>8, <2>1, <2>2 DEF IO!NothingOutlives
    <3>2. f \notin those /\ f \in IoFd
      BY <2>1, <2>2, <3>1 DEF IO!Open
    <3> QED
      BY <1>1, <1>6, <3>1, <3>2
  <2>3. \A f \in IoFd : partial'[f] \in {0, conn'[f].id}
    BY <1>1, <1>5, <1>8 DEF IO!NothingOutlives, IO!NONE
  <2> QED
    BY <2>2, <2>3 DEF IO!NothingOutlives, IO!NONE
<1>9. ASSUME IO!ClientIsKept PROVE IO!ClientIsKept'
  <2> SUFFICES ASSUME NEW p \in wanted PROVE reconnects'[p] + retry[p] > 0 \/ \E f \in IO!Open' : conn'[f].peer = p
    BY <1>2 DEF IO!ClientIsKept
  <2>0. p \in Peer /\ reconnects[p] \in Nat /\ retry[p] \in Nat
    BY DEF IoTypes
  <2>1. CASE reconnects[p] + retry[p] > 0
    BY <1>3, <2>0, <2>1
  <2>2. CASE \E f \in IO!Open : conn[f].peer = p
    <3>1. PICK f \in IO!Open : conn[f].peer = p
      BY <2>2
    <3>2. CASE f \in those
      BY <1>3, <2>0, <3>1, <3>2
    <3>3. CASE f \notin those
      BY <1>1, <1>6, <3>1, <3>3 DEF IO!Open
    <3> QED
      BY <3>2, <3>3
  <2> QED
    BY <1>9, <2>1, <2>2 DEF IO!ClientIsKept
<1>10. ASSUME InOrder PROVE InOrder'
  <2>1. \A f \in IO!Open' : f \in IO!Open /\ f \in IoFd /\ conn'[f] = conn[f] /\ watched'[f] = watched[f]
    BY <1>1, <1>6 DEF IO!Open
  <2>2. ASSUME NEW f \in IO!Open', conn'[f].id \notin raced' PROVE Lone(f)'
    BY <1>2, <1>10, <2>1, <2>2, LoneKept DEF InOrder
  <2>3. \A i \in (1 .. MaxConnections) \ raced' : Ordered(i)'
    BY <1>2, <1>10 DEF InOrder, Ordered
  <2> QED
    BY <2>2, <2>3 DEF InOrder
<1> QED
  BY <1>4, <1>7, <1>8, <1>9, <1>10

(* What sending leaves of timers, of texts and of who waits. *)
LEMMA SentKeepsTheRest ==
    ASSUME IoTypes, UNCHANGED IO!still,
           \A f \in IoFd : /\ conn'[f].id = conn[f].id
                           /\ conn[f].id # 0 => conn'[f].peer = conn[f].peer /\ conn'[f].tls = conn[f].tls
    PROVE  /\ IO!Open' = IO!Open
           /\ IO!NothingOutlives => IO!NothingOutlives'
           /\ IO!ClientIsKept => IO!ClientIsKept'
<1>1. IO!Open' = IO!Open /\ IO!Open \subseteq IoFd /\ \A f \in IO!Open : conn[f].id # 0
  BY DEF IO!Open, IO!NONE
<1>2. UNCHANGED <<timers, wanted, reconnects, retry, partial, iconns>>
  BY DEF IO!still
<1>3. IO!NothingOutlives => IO!NothingOutlives'
  BY <1>1, <1>2 DEF IO!NothingOutlives
<1>4. IO!ClientIsKept => IO!ClientIsKept'
  BY <1>1, <1>2 DEF IO!ClientIsKept
<1> QED
  BY <1>1, <1>3, <1>4

(* A step of sending: its types and numbers. *)
LEMMA SendingTypes ==
    ASSUME IoTypes, Numbered, NEW t \in IoThread, NEW f \in IoFd,
           IO!Send(t, f) \/ IO!Push(t) \/ IO!Refuse(t) \/ IO!Writable(f) \/ IO!Flush(t) \/ IO!Put(t) \/ IO!PutAgain(t)
    PROVE  IoTypes' /\ Numbered'
<1>0. UNCHANGED <<timers, wanted, reconnects, retry, partial, iconns>>
  BY DEF IO!Send, IO!Push, IO!Refuse, IO!Writable, IO!Flush, IO!Put, IO!PutAgain, IO!still
<1>a. /\ IO!Idle.at = "idle" /\ IO!Idle.id = 0 /\ IO!Closed.id = 0
      /\ IO!Idle \in IoTask
  BY IoAssumption DEF IO!Idle, IO!NONE, IO!Closed, IoTask
<1>b. ASSUME NEW u \in IoThread, NEW g \in IoFd, NEW c \in IoConnection, NEW s \in IoTask,
             conn[g] \in IoConnection, c.id = conn[g].id,
             conn' = [conn EXCEPT ![g] = c], step' = [step EXCEPT ![u] = s],
             s.at = "idle" => s = IO!Idle, s.at # "idle" => s.fd \in IoFd /\ s.id # 0 /\ s.id <= iconns,
             s.at \in {"push", "send", "again"} => s.msg # 0,
             watched' \in [IoFd -> SUBSET {"in", "out"}], given' \in [1 .. MaxConnections -> Seq(Msg)],
             sent' \in [1 .. MaxConnections -> Seq(Msg)], msgs' \in Nat,
             stray' \in [1 .. MaxConnections -> SUBSET (Nat \X Nat)],
             \A i \in iconns + 1 .. MaxConnections : given'[i] = given[i] /\ sent'[i] = sent[i]
      PROVE  IoTypes' /\ Numbered'
  <2>1. conn' \in [IoFd -> {IO!Closed} \cup IoConnection] /\ step' \in [IoThread -> IoTask]
    BY <1>b DEF IoTypes
  <2>2. \A h \in IoFd : conn'[h].id = conn[h].id
    BY <1>b DEF IoTypes
  <2>3. IoTypes'
    BY <1>0, <1>b, <2>1 DEF IoTypes
  <2>4. \A v \in IoThread : step'[v] = IF v = u THEN s ELSE step[v]
    BY <1>b DEF IoTypes
  <2>5. 0 <= iconns /\ iconns' = iconns
    BY <1>0 DEF IoTypes
  <2>6. \A v \in IoThread : /\ step'[v].id <= iconns'
                            /\ step'[v].at = "idle" => step'[v] = IO!Idle
                            /\ step'[v].at # "idle" => step'[v].fd \in IoFd /\ step'[v].id # 0
                            /\ step'[v].at \in {"push", "send", "again"} => step'[v].msg # 0
    BY <1>a, <1>b, <2>4, <2>5 DEF Numbered
  <2>7. \A h, g2 \in IoFd : conn'[h].id = conn'[g2].id /\ conn'[h].id # 0 => h = g2
    BY <2>2 DEF Numbered
  <2>8. \A i \in iconns' + 1 .. MaxConnections : given'[i] = <<>> /\ sent'[i] = <<>>
    BY <1>b, <2>5 DEF Numbered
  <2>9. \A h \in IoFd : conn'[h].id <= iconns'
    BY <2>2, <2>5 DEF Numbered
  <2> QED
    BY <2>3, <2>6, <2>7, <2>8, <2>9 DEF Numbered
<1>c. \A g \in IO!Open : conn[g] \in IoConnection /\ g \in IoFd /\ conn[g].id # 0 /\ conn[g].id <= iconns /\ [conn EXCEPT ![g] = conn[g]] = conn
  BY <1>a DEF IO!Open, IoTypes, IO!NONE, Numbered
<1>d. ASSUME NEW u \in IoThread, step[u].at # "idle", IO!Alive(u)
      PROVE  step[u].fd \in IO!Open /\ step[u].id = conn[step[u].fd].id
  BY <1>d DEF IO!Alive, Numbered, IO!Open, IO!NONE
<1>e. ASSUME UNCHANGED <<given, sent, stray>>
      PROVE  /\ given' \in [1 .. MaxConnections -> Seq(Msg)] /\ sent' \in [1 .. MaxConnections -> Seq(Msg)]
             /\ stray' \in [1 .. MaxConnections -> SUBSET (Nat \X Nat)]
             /\ \A i \in iconns + 1 .. MaxConnections : given'[i] = given[i] /\ sent'[i] = sent[i]
  BY <1>e DEF IoTypes
<1>i. IO!Idle \in IoTask /\ (IO!Idle.at # "idle" => IO!Idle.fd \in IoFd /\ IO!Idle.id # 0 /\ IO!Idle.id <= iconns)
      /\ (IO!Idle.at \in {"push", "send", "again"} => IO!Idle.msg # 0)
  BY <1>a
<1>1. CASE IO!Send(t, f)
  <2> DEFINE s == [at |-> "push", fd |-> f, id |-> conn[f].id, msg |-> msgs']
  <2>1. f \in IO!Open /\ msgs' \in Nat /\ msgs' # 0
    BY <1>1 DEF IO!Send, IoTypes
  <2>2. s \in IoTask /\ s.at # "idle" /\ s.fd \in IoFd /\ s.id # 0 /\ s.id <= iconns /\ s.msg # 0
    BY <1>c, <2>1 DEF IoConnection, IoTask
  <2>3. conn' = [conn EXCEPT ![f] = conn[f]] /\ step' = [step EXCEPT ![t] = s]
    BY <1>1, <1>c, <2>1 DEF IO!Send, IO!Begin
  <2> HIDE DEF s
  <2>4. watched' \in [IoFd -> SUBSET {"in", "out"}] /\ UNCHANGED <<given, sent, stray>>
    BY <1>1 DEF IO!Send, IoTypes
  <2> QED
    BY <1>b, <1>c, <1>e, <2>1, <2>2, <2>3, <2>4
<1>2. CASE IO!Push(t)
  <2> DEFINE g == step[t].fd
             c == [conn[g] EXCEPT !.queue = Append(@, step[t].msg)]
             s == [step[t] EXCEPT !.at = "flush"]
  <2>1. step[t].at = "push" /\ g \in IO!Open /\ step[t].id = conn[g].id
    BY <1>2, <1>d DEF IO!Push
  <2>2. step[t] \in IoTask /\ conn[g] \in IoConnection /\ step[t].id \in 1 .. MaxConnections /\ step[t].id <= iconns
    BY <1>c, <2>1 DEF IoTypes, IoConnection
  <2>m. step[t].msg \in Msg
    BY <2>1, <2>2 DEF Numbered, IoTask, Msg
  <2>3. c \in IoConnection /\ c.id = conn[g].id /\ s \in IoTask /\ s.at = "flush" /\ s.id = step[t].id /\ s.fd = g
    BY <2>2, <2>m, AppendProperties DEF IoConnection, IoTask
  <2>4. given' = [given EXCEPT ![step[t].id] = Append(@, step[t].msg)] /\ given' \in [1 .. MaxConnections -> Seq(Msg)]
    BY <1>2, <2>2, <2>m, AppendProperties DEF IO!Push, IoTypes
  <2>5. \A i \in iconns + 1 .. MaxConnections : given'[i] = given[i]
    BY <2>2, <2>4 DEF IoTypes, IoTask
  <2>6. conn' = [conn EXCEPT ![g] = c] /\ step' = [step EXCEPT ![t] = s]
    BY <1>2 DEF IO!Push
  <2> HIDE DEF c, s
  <2>7. UNCHANGED <<watched, sent, stray, msgs>>
    BY <1>2 DEF IO!Push
  <2> QED
    BY <1>b, <1>c, <2>1, <2>2, <2>3, <2>4, <2>5, <2>6, <2>7 DEF IoTypes
<1>r. CASE IO!Refuse(t)
  <2> DEFINE g == step[t].fd
  <2>1. g \in IO!Open /\ UNCHANGED <<conn, watched, given, sent, stray, msgs>> /\ step' = [step EXCEPT ![t] = IO!Idle]
    BY <1>r, <1>d DEF IO!Refuse
  <2>2. conn' = [conn EXCEPT ![g] = conn[g]] /\ watched' \in [IoFd -> SUBSET {"in", "out"}] /\ msgs' \in Nat
    BY <1>c, <2>1 DEF IoTypes
  <2> QED
    BY <1>b, <1>c, <1>e, <1>i, <2>1, <2>2
<1>3. CASE IO!Writable(f)
  <2> DEFINE s == [at |-> "flush", fd |-> f, id |-> conn[f].id, msg |-> 0]
  <2>1. f \in IO!Open /\ UNCHANGED <<conn, watched, given, sent, stray, msgs>> /\ "loop" \in IoThread
    BY <1>3, IoAssumption DEF IO!Writable
  <2>2. s \in IoTask /\ s.at = "flush" /\ s.fd \in IoFd /\ s.id # 0 /\ s.id <= iconns
    BY <1>c, <2>1 DEF IoConnection, IoTask
  <2>3. conn' = [conn EXCEPT ![f] = conn[f]] /\ step' = [step EXCEPT !["loop"] = s]
    BY <1>3, <1>c, <2>1 DEF IO!Writable, IO!Begin, IO!NONE
  <2>5. watched' \in [IoFd -> SUBSET {"in", "out"}] /\ msgs' \in Nat
    BY <2>1 DEF IoTypes
  <2> HIDE DEF s
  <2> QED
    BY <1>b, <1>c, <1>e, <2>1, <2>2, <2>3, <2>5
<1>4. CASE IO!Flush(t)
  <2> DEFINE g == step[t].fd
  <2>1. step[t].at # "idle" /\ g \in IO!Open /\ step[t].id = conn[g].id
    BY <1>4, <1>d DEF IO!Flush
  <2>2. step[t] \in IoTask /\ conn[g] \in IoConnection /\ step[t].id <= iconns
    BY <1>c, <2>1 DEF IoTypes
  <2>3. UNCHANGED <<given, sent, stray, msgs>>
    BY <1>4 DEF IO!Flush
  <2>a. msgs' \in Nat
    BY <2>3 DEF IoTypes
  <2>4. CASE conn[g].out # 0 /\ step' = [step EXCEPT ![t].at = "again", ![t].msg = conn[g].out] /\ UNCHANGED <<conn, watched>>
    <3> DEFINE s == [step[t] EXCEPT !.at = "again", !.msg = conn[g].out]
    <3>1. s \in IoTask /\ s.at # "idle" /\ s.id = step[t].id /\ s.fd = g /\ s.msg # 0
      BY <2>2, <2>4 DEF IoConnection, IoTask
    <3>2. step' = [step EXCEPT ![t] = s] /\ conn' = [conn EXCEPT ![g] = conn[g]]
      BY <1>c, <2>1, <2>4
    <3> HIDE DEF s
    <3>5. watched' \in [IoFd -> SUBSET {"in", "out"}]
      BY <2>4 DEF IoTypes
    <3> QED
      BY <1>b, <1>c, <1>e, <2>1, <2>2, <2>3, <2>a, <3>1, <3>2, <3>5
  <2>5. CASE /\ watched' = [watched EXCEPT ![g] = {"in"}] \/ UNCHANGED watched
             /\ step' = [step EXCEPT ![t] = IO!Idle] /\ UNCHANGED conn
    <3>0. watched \in [IoFd -> SUBSET {"in", "out"}] /\ {"in"} \in SUBSET {"in", "out"}
      BY DEF IoTypes
    <3>a. watched' \in [IoFd -> SUBSET {"in", "out"}]
      BY <2>5, <3>0
    <3>1. watched' \in [IoFd -> SUBSET {"in", "out"}] /\ conn' = [conn EXCEPT ![g] = conn[g]]
      BY <1>c, <2>1, <2>5, <3>a
    <3> QED
      BY <1>b, <1>c, <1>e, <1>i, <2>1, <2>2, <2>3, <2>a, <2>5, <3>1
  <2>6. CASE conn[g].queue # <<>> /\ IO!Popped(t)
    <3> DEFINE s == [step[t] EXCEPT !.at = "send", !.msg = Head(conn[g].queue)]
               c == [conn[g] EXCEPT !.queue = Tail(@)]
    <3>1. Head(conn[g].queue) \in Msg /\ Tail(conn[g].queue) \in Seq(Msg)
      BY <2>2, <2>6, HeadTailProperties DEF IoConnection
    <3>2. s \in IoTask /\ s.at # "idle" /\ s.id = step[t].id /\ s.fd = g /\ s.msg # 0
      BY <2>2, <3>1 DEF Msg, IoTask
    <3>3. c \in IoConnection /\ c.id = conn[g].id
      BY <2>2, <3>1 DEF IoConnection
    <3>4. step' = [step EXCEPT ![t] = s] /\ conn' = [conn EXCEPT ![g] = c]
      BY <2>6 DEF IO!Popped
    <3> HIDE DEF s, c
    <3>5. watched' \in [IoFd -> SUBSET {"in", "out"}]
      BY <2>6 DEF IoTypes, IO!Popped
    <3> QED
      BY <1>b, <1>c, <1>e, <2>1, <2>2, <2>3, <2>a, <3>2, <3>3, <3>4, <3>5
  <2> QED
    BY <1>4, <2>4, <2>5, <2>6 DEF IO!Flush, IO!Drained, IO!NONE
<1>5. CASE IO!Put(t) \/ IO!PutAgain(t)
  <2> DEFINE g == step[t].fd
  <2>1. step[t].at \in {"send", "again"} /\ g \in IO!Open /\ step[t].id = conn[g].id
    BY <1>5, <1>d DEF IO!Put, IO!PutAgain
  <2>2. step[t] \in IoTask /\ conn[g] \in IoConnection /\ step[t].id \in 1 .. MaxConnections /\ step[t].id <= iconns
    BY <1>c, <2>1 DEF IoTypes, IoConnection
  <2>m. step[t].msg \in Msg
    BY <2>1, <2>2 DEF Numbered, IoTask, Msg
  <2>3. /\ sent' \in [1 .. MaxConnections -> Seq(Msg)]
        /\ \A i \in iconns + 1 .. MaxConnections : sent'[i] = sent[i]
    <3>1. Append(sent[step[t].id], step[t].msg) \in Seq(Msg)
      BY <2>2, <2>m, AppendProperties DEF IoTypes
    <3>2. sent' = sent \/ sent' = [sent EXCEPT ![step[t].id] = Append(@, step[t].msg)]
      BY <1>5 DEF IO!Put, IO!PutAgain
    <3>3. sent' \in [1 .. MaxConnections -> Seq(Msg)]
      BY <2>2, <3>1, <3>2 DEF IoTypes
    <3>4. step[t].id \in Nat /\ iconns \in Nat
      BY <2>2 DEF IoTypes, IoTask
    <3>5. \A i \in iconns + 1 .. MaxConnections : i # step[t].id /\ i \in 1 .. MaxConnections
      BY <2>2, <3>4
    <3> QED
      BY <2>2, <3>2, <3>3, <3>5 DEF IoTypes
  <2>s. stray' \in [1 .. MaxConnections -> SUBSET (Nat \X Nat)]
    <3>1. Len(sent[step[t].id]) \in Nat
      BY <2>2, LenProperties DEF IoTypes
    <3>2. <<Len(sent[step[t].id]) + 1, step[t].msg>> \in Nat \X Nat
      BY <2>m, <3>1 DEF Msg
    <3>3. stray' = stray \/ stray' = [stray EXCEPT ![step[t].id] = @ \cup {<<Len(sent[step[t].id]) + 1, step[t].msg>>}]
      BY <1>5 DEF IO!Put, IO!PutAgain
    <3>4. stray[step[t].id] \cup {<<Len(sent[step[t].id]) + 1, step[t].msg>>} \in SUBSET (Nat \X Nat)
      BY <2>2, <3>2, SMTT(20) DEF IoTypes
    <3> QED
      BY <3>3, <3>4 DEF IoTypes
  <2>4. \E n \in Nat : conn' = [conn EXCEPT ![g] = [conn[g] EXCEPT !.out = n]]
    <3>1. CASE UNCHANGED conn
      <4>1. conn[g].out \in Nat /\ [conn[g] EXCEPT !.out = conn[g].out] = conn[g]
        BY <2>2 DEF IoConnection
      <4>2. conn' = [conn EXCEPT ![g] = [conn[g] EXCEPT !.out = conn[g].out]]
        BY <1>c, <2>1, <3>1, <4>1
      <4> QED
        BY <4>1, <4>2
    <3>2. step[t].msg \in Nat
      BY <2>m DEF Msg
    <3> QED
      BY <1>5, <3>1, <3>2 DEF IO!Put, IO!PutAgain, IO!NONE
  <2>n. PICK n \in Nat : conn' = [conn EXCEPT ![g] = [conn[g] EXCEPT !.out = n]]
    BY <2>4
  <2> DEFINE c == [conn[g] EXCEPT !.out = n]
  <2>5. c \in IoConnection /\ c.id = conn[g].id /\ conn' = [conn EXCEPT ![g] = c]
    BY <2>2, <2>n DEF IoConnection
  <2> HIDE DEF c
  <2>6. UNCHANGED <<watched, given, msgs>> /\ step' = [step EXCEPT ![t] = IO!Idle]
    BY <1>5 DEF IO!Put, IO!PutAgain
  <2>7. /\ watched' \in [IoFd -> SUBSET {"in", "out"}] /\ given' \in [1 .. MaxConnections -> Seq(Msg)] /\ msgs' \in Nat
        /\ \A i \in iconns + 1 .. MaxConnections : given'[i] = given[i]
    BY <2>6 DEF IoTypes
  <2> QED
    BY <1>b, <1>c, <1>i, <2>1, <2>2, <2>3, <2>s, <2>5, <2>6, <2>7
<1> QED
  BY <1>1, <1>2, <1>r, <1>3, <1>4, <1>5

(* What comes last goes last. *)
LEMMA RowPushed ==
    \A s, c, q \in Seq(Msg) : \A m \in Msg : Append(InRow(s, c, q), m) = InRow(s, c, Append(q, m))
<1> SUFFICES ASSUME NEW s \in Seq(Msg), NEW c \in Seq(Msg), NEW q \in Seq(Msg), NEW m \in Msg
             PROVE  Append(s \o (c \o q), m) = s \o (c \o Append(q, m))
  BY DEF InRow
<1>1. <<m>> \in Seq(Msg) /\ c \o q \in Seq(Msg) /\ s \o (c \o q) \in Seq(Msg)
  BY ConcatProperties
<1>2. Append(s \o (c \o q), m) = (s \o (c \o q)) \o <<m>> /\ Append(q, m) = q \o <<m>>
  BY <1>1, AppendIsConcat
<1>3. \A x \in Seq(Msg) : (s \o x) \o <<m>> = s \o (x \o <<m>>)
  BY <1>1, ConcatAssociative
<1>4. (c \o q) \o <<m>> = c \o (q \o <<m>>)
  BY <1>1, ConcatAssociative
<1>5. (s \o (c \o q)) \o <<m>> = s \o ((c \o q) \o <<m>>)
  BY <1>1, <1>3
<1> QED
  BY <1>2, <1>4, <1>5, Zenon

(* What is first is taken first, *)
LEMMA RowPopped ==
    \A s, q \in Seq(Msg) : q # <<>> => InRow(s, <<>>, q) = InRow(s, <<Head(q)>>, Tail(q))
<1> SUFFICES ASSUME NEW q \in Seq(Msg), q # <<>> PROVE <<>> \o q = <<Head(q)>> \o Tail(q)
  BY Zenon DEF InRow
<1>1. SubSeq(q, 1, Len(q)) = <<q[1]>> \o SubSeq(q, 2, Len(q))
  <2>1. Len(q) \in Nat /\ Len(q) # 0
    BY LenProperties, EmptySeq
  <2>2. 1 \in 1 .. Len(q) /\ Len(q) \in 1 .. Len(q) /\ 1 + 1 = 2
    BY <2>1
  <2> QED
    BY <2>2, SubSeqRecursiveFirst
<1>2. SubSeq(q, 1, Len(q)) = q /\ Tail(q) = SubSeq(q, 2, Len(q)) /\ <<>> \o q = q
  BY SubSeqFull, TailIsSubSeq, ConcatEmptySeq
<1>3. Head(q) = q[1]
  OBVIOUS
<1> QED
  BY <1>1, <1>2, <1>3

(* and goes next to what was sent. *)
LEMMA RowMoved ==
    \A s, q \in Seq(Msg) : \A m \in Msg : InRow(s, <<m>>, q) = InRow(Append(s, m), <<>>, q)
<1> SUFFICES ASSUME NEW s \in Seq(Msg), NEW q \in Seq(Msg), NEW m \in Msg
             PROVE  s \o (<<m>> \o q) = Append(s, m) \o (<<>> \o q)
  BY Zenon DEF InRow
<1>1. \A c1 \in Seq(Msg) : (s \o c1) \o q = s \o (c1 \o q)
  BY ConcatAssociative
<1>2. Append(s, m) = s \o <<m>> /\ <<>> \o q = q /\ <<m>> \in Seq(Msg)
  BY AppendIsConcat, ConcatEmptySeq
<1> QED
  BY <1>1, <1>2

LEMMA RowNext ==
    \A s, q \in Seq(Msg) : \A m \in Msg :
       Len(s) + 1 \in 1 .. Len(InRow(s, <<m>>, q)) /\ InRow(s, <<m>>, q)[Len(s) + 1] = m
<1> SUFFICES ASSUME NEW s \in Seq(Msg), NEW q \in Seq(Msg), NEW m \in Msg
             PROVE  Len(s) + 1 \in 1 .. Len(s \o (<<m>> \o q)) /\ (s \o (<<m>> \o q))[Len(s) + 1] = m
  BY Zenon DEF InRow
<1>1. /\ <<m>> \o q \in Seq(Msg) /\ Len(<<m>> \o q) = 1 + Len(q) /\ (<<m>> \o q)[1] = m
      /\ Len(s) \in Nat /\ Len(q) \in Nat
  BY ConcatProperties, LenProperties
<1>2. Len(s \o (<<m>> \o q)) = Len(s) + (1 + Len(q))
  BY <1>1, ConcatProperties
<1>3. (s \o (<<m>> \o q))[Len(s) + 1] = (<<m>> \o q)[Len(s) + 1 - Len(s)]
  BY <1>1, <1>2, ConcatProperties
<1> QED
  BY <1>1, <1>2, <1>3

LEMMA RowBegins ==
    \A s, c, q \in Seq(Msg) : \E r \in Seq(Msg) : InRow(s, c, q) = s \o r
BY ConcatProperties DEF InRow

(* What else the loop does leaves the order alone. *)
LEMMA InOrderKept ==
    ASSUME InOrder, IO!Open' = IO!Open, UNCHANGED <<given, sent, stray, raced, step>>,
           \A g \in IO!Open : /\ conn'[g].id = conn[g].id /\ conn'[g].out = conn[g].out /\ conn'[g].queue = conn[g].queue
                              /\ watched'[g] = watched[g]
    PROVE  InOrder'
<1>1. ASSUME NEW g \in IO!Open', conn'[g].id \notin raced' PROVE Lone(g)'
  <2>1. g \in IO!Open /\ g \in IoFd /\ Lone(g)
    BY <1>1 DEF InOrder, IO!Open
  <2> QED
    BY <2>1, LoneKept
<1>2. \A i \in (1 .. MaxConnections) \ raced' : Ordered(i)'
  BY DEF InOrder, Ordered
<1> QED
  BY <1>1, <1>2 DEF InOrder

(* A step of thread t about the connection at g, as the others see it. *)
StepAt(t, g) ==
    /\ IO!Open' = IO!Open /\ conn'[g].id = conn[g].id
    /\ raced \subseteq raced'
    /\ \A h \in IO!Open \ {g} : conn'[h] = conn[h] /\ watched'[h] = watched[h]
    /\ \A u \in IoThread \ {t} : step'[u] = step[u]
    /\ step[t].at # "idle" => step[t].fd = g
    /\ step'[t].at # "idle" => step'[t].fd = g
    /\ \A i \in (1 .. MaxConnections) \ {conn[g].id} : given'[i] = given[i] /\ sent'[i] = sent[i] /\ stray'[i] = stray[i]

LEMMA StepInOrder ==
    ASSUME IoTypes, Numbered, InOrder, NEW t \in IoThread, NEW g \in IO!Open, StepAt(t, g),
           conn[g].id \notin raced' => Ordered(conn[g].id)' /\ Lone(g)'
    PROVE  InOrder'
<1>1. \A h \in IO!Open : h \in IoFd /\ conn[h].id \in 1 .. MaxConnections
  BY DEF IO!Open, IoTypes, IO!NONE, IO!Closed, IoConnection
<1>2. \A h \in IO!Open \ {g} : conn[h].id # conn[g].id
  BY <1>1 DEF Numbered, IO!Open, IO!NONE
<1>3. ASSUME NEW i \in (1 .. MaxConnections) \ raced' PROVE Ordered(i)'
  <2>1. CASE i = conn[g].id
    BY <1>3, <2>1 DEF StepAt
  <2>2. CASE i # conn[g].id
    <3>1. i \notin raced /\ given'[i] = given[i] /\ sent'[i] = sent[i] /\ stray'[i] = stray[i]
      BY <1>3, <2>2 DEF StepAt
    <3> QED
      BY <1>3, <3>1 DEF InOrder, Ordered
  <2> QED
    BY <2>1, <2>2
<1>4. ASSUME NEW h \in IO!Open', conn'[h].id \notin raced' PROVE Lone(h)'
  <2>1. h \in IO!Open
    BY <1>4 DEF StepAt
  <2>2. CASE h = g
    BY <1>4, <2>2 DEF StepAt
  <2>3. CASE h # g
    <3>1. conn'[h] = conn[h] /\ watched'[h] = watched[h] /\ h \in IoFd /\ Lone(h)
      BY <1>1, <1>4, <2>1, <2>3 DEF StepAt, InOrder
    <3>2. given'[conn[h].id] = given[conn[h].id] /\ sent'[conn[h].id] = sent[conn[h].id]
      BY <1>1, <1>2, <2>1, <2>3 DEF StepAt
    <3>3. ~IO!About(t, h) /\ ~(IO!About(t, h)')
      BY <2>3 DEF StepAt, IO!About
    <3>4. \A u \in IoThread : step'[u] = step[u] \/ (~IO!About(u, h) /\ ~(IO!About(u, h)'))
      BY <3>3 DEF StepAt
    <3> QED
      BY <3>1, <3>2, <3>4, LoneKept
  <2> QED
    BY <2>2, <2>3
<1> QED
  BY <1>3, <1>4 DEF InOrder

(* What a step about the connection at g, of number n, leaves alone. *)
Elsewhere(g, n) ==
    /\ \A h \in IoFd \ {g} : watched'[h] = watched[h]
    /\ \A i \in (1 .. MaxConnections) \ {n} : given'[i] = given[i] /\ sent'[i] = sent[i] /\ stray'[i] = stray[i]

(* The order behind a step to the thread's place s and the connection's state c. *)
After(g, n, s, c) ==
    /\ Ordered(n)'
    /\ s.at = "send" => c.out = 0 /\ given'[n] = InRow(sent'[n], <<s.msg>>, c.queue)
    /\ s.at # "send" => given'[n] = InRow(sent'[n], KeptOf(c.out), c.queue)
    /\ s.at = "again" => s.msg = c.out
    /\ c.out # 0 \/ c.queue # <<>> \/ s.at # "idle" => "out" \in watched'[g]

(* What the types say of open connections and of threads. *)
LEMMA OpenIs ==
    IoTypes =>
       \A g \in IO!Open : /\ conn[g] \in IoConnection /\ g \in IoFd /\ conn[g].id # 0 /\ conn[g].id \in 1 .. MaxConnections
                          /\ conn[g].queue \in Seq(Msg) /\ conn[g].out \in Nat
BY DEF IO!Open, IoTypes, IO!NONE, IO!Closed, IoConnection

LEMMA TaskIs ==
    IoTypes =>
       IO!Idle.at = "idle" /\ "loop" \in IoThread /\ \A u \in IoThread : step[u] \in IoTask
BY IoAssumption DEF IO!Idle, IoTypes

LEMMA AboutIs ==
    ASSUME IoTypes, Numbered,
           NEW u \in IoThread, step[u].at # "idle", IO!Alive(u)
    PROVE  step[u].fd \in IO!Open /\ IO!About(u, step[u].fd) /\ step[u].id = conn[step[u].fd].id
BY DEF IO!Alive, Numbered, IO!Open, IO!NONE, IO!About

(* A thread that begins. *)
LEMMA BeginInOrder ==
    ASSUME IoTypes, Numbered, InOrder,
           NEW u \in IoThread, NEW g \in IO!Open, NEW where \in {"push", "flush"}, NEW m,
           step[u] = IO!Idle, IO!Begin(u, g, where, m), UNCHANGED <<conn, given, sent, stray>>,
           \A h \in IoFd \ {g} : watched'[h] = watched[h], "out" \in watched'[g]
    PROVE  InOrder'
<1>1. step'[u] = [at |-> where, fd |-> g, id |-> conn[g].id, msg |-> m] /\ \A v \in IoThread \ {u} : step'[v] = step[v]
  BY DEF IO!Begin, IoTypes
<1>2. raced' = raced \cup {conn[g].id : v \in {w \in IoThread : IO!About(w, g)}}
  BY DEF IO!Begin
<1>3. StepAt(u, g)
  BY OpenIs, TaskIs, <1>1, <1>2 DEF StepAt, IO!Open
<1>4. ASSUME conn[g].id \notin raced' PROVE Ordered(conn[g].id)' /\ Lone(g)'
  <2>1. Lone(g) /\ Ordered(conn[g].id) /\ \A v \in IoThread : ~IO!About(v, g)
    BY OpenIs, <1>2, <1>4 DEF InOrder
  <2>2. \A v \in IoThread : (IO!About(v, g)' => v = u) /\ ~Carries(v, g) /\ ~(Carries(v, g)')
    BY <1>1, <2>1 DEF IO!About, Carries
  <2>3. KeptOut(g)' = KeptOut(g)
    BY DEF KeptOut
  <2>4. given'[conn'[g].id] = InRow(sent'[conn'[g].id], KeptOut(g)', conn'[g].queue)
    BY <2>1, <2>2, <2>3 DEF Lone
  <2>5. \A v \in IoThread : IO!About(v, g)' => step'[v].at # "again"
    BY <1>1, <2>2
  <2>6. Lone(g)'
    BY <2>2, <2>4, <2>5 DEF Lone
  <2> QED
    BY <2>1, <2>6 DEF Ordered
<1> QED
  BY <1>3, <1>4, StepInOrder

(* A thread that goes on, about its connection. *)
LEMMA GoesOn ==
    ASSUME IoTypes, Numbered, InOrder, NEW t \in IoThread,
           NEW g \in IO!Open, g = step[t].fd, NEW n \in 1 .. MaxConnections, n = step[t].id,
           step[t].at # "idle", IO!Alive(t), UNCHANGED raced,
           NEW s \in IoTask, step' = [step EXCEPT ![t] = s], s.at # "idle" => s.fd = g /\ s.id = n,
           NEW c, conn' = [conn EXCEPT ![g] = c], c.id = n,
           Elsewhere(g, n), Lone(g) /\ Ordered(n) => After(g, n, s, c)
    PROVE  InOrder'
<1>1. IO!About(t, g) /\ n = conn[g].id
  BY AboutIs
<1>2. step'[t] = s /\ \A v \in IoThread \ {t} : step'[v] = step[v]
  BY DEF IoTypes
<1>3. conn'[g] = c /\ \A h \in IoFd \ {g} : conn'[h] = conn[h]
  BY OpenIs DEF IoTypes
<1>4. IO!Open' = IO!Open
  <2>1. conn'[g].id = conn[g].id
    BY <1>1, <1>3
  <2> QED
    BY OpenIs, <1>3, <2>1 DEF IO!Open
<1>5. StepAt(t, g)
  BY OpenIs, <1>1, <1>2, <1>3, <1>4 DEF StepAt, Elsewhere
<1>6. ASSUME n \notin raced' PROVE Ordered(n)' /\ Lone(g)'
  <2>1. Lone(g) /\ After(g, n, s, c)
    BY <1>1, <1>6 DEF InOrder
  <2>2. \A v \in IoThread : IO!About(v, g) => v = t
    BY <1>1, <2>1 DEF Lone
  <2>a. conn'[g].id = n
    BY <1>3
  <2>b. \A v \in IoThread \ {t} : ~(IO!About(v, g)')
    <3>1. \A v \in IoThread \ {t} : IO!About(v, g)' => IO!About(v, g)
      BY <1>1, <1>2, <2>a DEF IO!About
    <3> QED
      BY <2>2, <3>1
  <2>c. IO!About(t, g)' <=> s.at # "idle"
    BY <1>2, <2>a DEF IO!About
  <2>d. Carries(t, g)' <=> s.at = "send"
    BY <1>2, <2>c DEF Carries
  <2>e. \A v \in IoThread : Carries(v, g)' => IO!About(v, g)'
    BY DEF Carries
  <2>4. KeptOut(g)' = KeptOf(c.out)
    BY <1>3 DEF KeptOut
  <2>6. \A v \in IoThread :
           Carries(v, g)' => /\ conn'[g].out = 0
                             /\ given'[conn'[g].id] = InRow(sent'[conn'[g].id], <<step'[v].msg>>, conn'[g].queue)
    BY <1>2, <1>3, <2>1, <2>a, <2>b, <2>d, <2>e DEF After
  <2>7. (\A v \in IoThread : ~(Carries(v, g)'))
           => given'[conn'[g].id] = InRow(sent'[conn'[g].id], KeptOut(g)', conn'[g].queue)
    BY <1>3, <2>1, <2>a, <2>d, <2>4 DEF After
  <2>8. /\ \A v, u \in IoThread : IO!About(v, g)' /\ IO!About(u, g)' => v = u
        /\ \A v \in IoThread : IO!About(v, g)' /\ step'[v].at = "again" => step'[v].msg = conn'[g].out
        /\ conn'[g].out # 0 \/ conn'[g].queue # <<>> \/ (\E v \in IoThread : IO!About(v, g)') => "out" \in watched'[g]
    BY <1>2, <1>3, <2>1, <2>b, <2>c DEF After
  <2>9. Lone(g)'
    BY <2>6, <2>7, <2>8 DEF Lone
  <2> QED
    BY <2>1, <2>9 DEF After
<1>7. conn[g].id \notin raced' => Ordered(conn[g].id)' /\ Lone(g)'
  <2>1. conn'[g].id = n
    BY <1>3
  <2> QED
    BY <1>1, <1>6, <2>1
<1> QED
  BY <1>5, <1>7, StepInOrder

(* What a thread finds whose connection nobody else is about. *)
LEMMA InTurn ==
    ASSUME IoTypes, Numbered, InOrder, NEW t \in IoThread,
           step[t].at # "idle", IO!Alive(t), Lone(step[t].fd), NEW g \in IO!Open, g = step[t].fd
    PROVE  /\ conn[g].id = step[t].id /\ "out" \in watched[g]
           /\ step[t].at # "send" => given[step[t].id] = InRow(sent[step[t].id], KeptOut(g), conn[g].queue)
           /\ step[t].at = "send" => conn[g].out = 0 /\ given[step[t].id] = InRow(sent[step[t].id], <<step[t].msg>>, conn[g].queue)
           /\ step[t].at = "again" => step[t].msg = conn[g].out
           /\ ~IO!MayTimeOut(t)
<1>1. IO!About(t, g) /\ step[t].id = conn[g].id
  BY AboutIs
<1>2. \A v \in IoThread : IO!About(v, g) => v = t
  BY <1>1 DEF Lone
<1>3. \A v \in IoThread : Carries(v, g) => v = t /\ step[t].at = "send"
  BY <1>2 DEF Carries
<1>4. step[t].at = "send" => Carries(t, g)
  BY <1>1 DEF Carries
<1> QED
  BY <1>1, <1>2, <1>3, <1>4 DEF Lone, IO!MayTimeOut

(* What is given up, or left as it is, by a thread that is done. *)
LEMMA DoneInOrder ==
    ASSUME IoTypes, Numbered, InOrder, NEW t \in IoThread,
           step[t].at \in {"push", "flush", "again"}, IO!Alive(t), UNCHANGED <<conn, given, sent, stray, raced>>,
           step' = [step EXCEPT ![t] = IO!Idle],
           \/ UNCHANGED watched
           \/ /\ watched' = [watched EXCEPT ![step[t].fd] = {"in"}]
              /\ conn[step[t].fd].out = 0 /\ conn[step[t].fd].queue = <<>>
    PROVE  InOrder'
<1>1. PICK g \in IO!Open : g = step[t].fd /\ step[t].id = conn[g].id
  BY AboutIs
<1>n. PICK n \in 1 .. MaxConnections : n = step[t].id
  BY OpenIs, <1>1
<1>2. conn' = [conn EXCEPT ![g] = conn[g]] /\ conn[g].id = n
  BY OpenIs, <1>1, <1>n DEF IoTypes
<1>3. IO!Idle \in IoTask
  BY IoAssumption DEF IO!Idle, IO!NONE, IoTask
<1>4. \A h \in IoFd \ {g} : watched'[h] = watched[h]
  BY <1>1 DEF IoTypes
<1>5. ASSUME Lone(g), Ordered(n)
      PROVE  After(g, n, IO!Idle, conn[g])
  <2>1. "out" \in watched[g] /\ given[n] = InRow(sent[n], KeptOut(g), conn[g].queue)
    BY InTurn, <1>1, <1>n, <1>5
  <2>2. Ordered(n)'
    BY <1>5 DEF Ordered
  <2>3. given'[n] = InRow(sent'[n], KeptOf(conn[g].out), conn[g].queue)
    BY <2>1 DEF KeptOut
  <2> QED
    BY TaskIs, <1>1, <2>1, <2>2, <2>3 DEF After
<1> QED
  <2>1. Elsewhere(g, n)
    BY <1>4 DEF Elsewhere
  <2>2. step[t].at # "idle"
    OBVIOUS
  <2> QED
    BY TaskIs, GoesOn, <1>1, <1>n, <1>2, <1>3, <1>5, <2>1, <2>2

(* A thread that goes on, step by step. *)
LEMMA PushInOrder ==
    ASSUME IoTypes, Numbered, InOrder, NEW t \in IoThread, IO!Push(t)
    PROVE  InOrder'
<1>1. PICK g \in IO!Open : g = step[t].fd /\ step[t].id = conn[g].id
  BY AboutIs DEF IO!Push
<1>2. PICK n \in 1 .. MaxConnections : n = step[t].id
  BY OpenIs, <1>1
<1>3. PICK m \in Msg : m = step[t].msg
  BY TaskIs DEF IO!Push, Numbered, IoTask, Msg
<1> DEFINE c == [conn[g] EXCEPT !.queue = Append(@, m)]
           s == [step[t] EXCEPT !.at = "flush"]
<1>4. /\ conn' = [conn EXCEPT ![g] = c] /\ step' = [step EXCEPT ![t] = s] /\ given' = [given EXCEPT ![n] = Append(@, m)]
      /\ UNCHANGED <<watched, sent, stray, raced>> /\ step[t].at # "idle" /\ IO!Alive(t) /\ step[t].at = "push"
  BY <1>1, <1>2, <1>3 DEF IO!Push
<1>5. s \in IoTask /\ s.at = "flush" /\ s.fd = g /\ s.id = n
  BY TaskIs, <1>1, <1>2 DEF IoTask
<1>6. c.id = n /\ c.out = conn[g].out /\ c.queue = Append(conn[g].queue, m)
  BY OpenIs, <1>1, <1>2 DEF IoConnection
<1> HIDE DEF c, s
<1>7. given'[n] = Append(given[n], m) /\ \A i \in (1 .. MaxConnections) \ {n} : given'[i] = given[i]
  BY <1>4 DEF IoTypes
<1>8. ASSUME Lone(g), Ordered(n)
      PROVE  After(g, n, s, c)
  <2>1. "out" \in watched[g] /\ given[n] = InRow(sent[n], KeptOut(g), conn[g].queue)
    BY InTurn, <1>1, <1>2, <1>4, <1>8
  <2>2. sent[n] \in Seq(Msg) /\ given[n] \in Seq(Msg) /\ KeptOut(g) \in Seq(Msg) /\ conn[g].queue \in Seq(Msg)
    <3>1. conn[g].out # 0 => conn[g].out \in Msg
      BY OpenIs DEF Msg
    <3>2. KeptOut(g) \in Seq(Msg)
      BY <3>1 DEF KeptOut, KeptOf
    <3> QED
      BY OpenIs, <3>2 DEF IoTypes
  <2>3. Append(InRow(sent[n], KeptOut(g), conn[g].queue), m) = InRow(sent[n], KeptOut(g), Append(conn[g].queue, m))
    <3>1. \A q \in Seq(Msg) : \A x \in Msg : Append(InRow(sent[n], KeptOut(g), q), x) = InRow(sent[n], KeptOut(g), Append(q, x))
      BY <2>2, RowPushed, Zenon
    <3> QED
      BY <1>3, <2>2, <3>1, Zenon
  <2>4. given'[n] = InRow(sent'[n], KeptOut(g), Append(conn[g].queue, m))
    BY <1>4, <1>7, <2>1, <2>2, <2>3
  <2>5. \E r \in Seq(Msg) : given'[n] = sent'[n] \o r
    <3>1. Append(conn[g].queue, m) \in Seq(Msg) /\ sent'[n] = sent[n]
      BY <1>4, <2>2, AppendProperties
    <3>2. \A q \in Seq(Msg) : \E r \in Seq(Msg) : InRow(sent[n], KeptOut(g), q) = sent[n] \o r
      BY <2>2, RowBegins, Zenon
    <3> QED
      BY <2>4, <3>1, <3>2, Zenon
  <2>6. \A k \in 1 .. Len(given[n]) : k \in 1 .. Len(given'[n]) /\ given'[n][k] = given[n][k]
    BY <1>7, <2>2, AppendProperties, LenProperties
  <2>7. Ordered(n)'
    BY <1>4, <1>8, <2>5, <2>6 DEF Ordered
  <2> QED
    BY <1>4, <1>5, <1>6, <2>1, <2>4, <2>7 DEF KeptOut, After
<1> QED
  <2>1. Elsewhere(g, n)
    BY <1>4, <1>7 DEF Elsewhere
  <2> QED
    BY GoesOn, <1>1, <1>2, <1>4, <1>5, <1>6, <1>8, <2>1

LEMMA FlushInOrder ==
    ASSUME IoTypes, Numbered, InOrder, NEW t \in IoThread, IO!Flush(t)
    PROVE  InOrder'
<1>0. step[t].at = "flush" /\ IO!Alive(t) /\ UNCHANGED <<given, sent, stray, raced>>
  BY DEF IO!Flush
<1>1. PICK g \in IO!Open : g = step[t].fd /\ step[t].id = conn[g].id
  BY AboutIs, <1>0
<1>2. PICK n \in 1 .. MaxConnections : n = step[t].id
  BY OpenIs, <1>1
<1>3. CASE conn[g].out # 0 /\ step' = [step EXCEPT ![t].at = "again", ![t].msg = conn[g].out] /\ UNCHANGED <<conn, watched>>
  <2> DEFINE s == [step[t] EXCEPT !.at = "again", !.msg = conn[g].out]
  <2>1. s \in IoTask /\ s.at = "again" /\ s.fd = g /\ s.id = n /\ s.msg = conn[g].out
    BY OpenIs, TaskIs, <1>1, <1>2 DEF IoTask
  <2>2. step' = [step EXCEPT ![t] = s] /\ conn' = [conn EXCEPT ![g] = conn[g]] /\ conn[g].id = n
    BY OpenIs, <1>1, <1>2, <1>3 DEF IoTypes
  <2> HIDE DEF s
  <2>3. ASSUME Lone(g), Ordered(n)
        PROVE  After(g, n, s, conn[g])
    <3>1. "out" \in watched[g] /\ given[n] = InRow(sent[n], KeptOut(g), conn[g].queue)
      BY InTurn, <1>0, <1>1, <1>2, <2>3
    <3>2. Ordered(n)'
      BY <1>0, <2>3 DEF Ordered
    <3>3. given'[n] = InRow(sent'[n], KeptOf(conn[g].out), conn[g].queue)
      BY <1>0, <3>1 DEF KeptOut
    <3> QED
      BY <1>3, <2>1, <3>1, <3>2, <3>3 DEF After
  <2> QED
    <3>1. Elsewhere(g, n)
      BY <1>0, <1>3 DEF Elsewhere
    <3> QED
      BY GoesOn, <1>0, <1>1, <1>2, <2>1, <2>2, <2>3, <3>1
<1>4. CASE conn[g].out = 0 /\ conn[g].queue = <<>> /\ IO!Drained(t)
  BY DoneInOrder, <1>0, <1>1, <1>4 DEF IO!Drained
<1>5. CASE conn[g].out = 0 /\ conn[g].queue # <<>> /\ IO!Popped(t)
  <2> DEFINE s == [step[t] EXCEPT !.at = "send", !.msg = Head(conn[g].queue)]
             c == [conn[g] EXCEPT !.queue = Tail(@)]
  <2>1. /\ Head(conn[g].queue) \in Msg
        /\ InRow(sent[n], <<>>, conn[g].queue) = InRow(sent[n], <<Head(conn[g].queue)>>, Tail(conn[g].queue))
    <3>1. Head(conn[g].queue) \in Msg
      BY OpenIs, <1>5, HeadTailProperties
    <3>2. sent[n] \in Seq(Msg) /\ conn[g].queue \in Seq(Msg)
      BY OpenIs DEF IoTypes
    <3> QED
      BY <1>5, <3>1, <3>2, RowPopped
  <2>2. s \in IoTask /\ s.at = "send" /\ s.fd = g /\ s.id = n /\ s.msg = Head(conn[g].queue)
    BY TaskIs, <1>1, <1>2, <2>1 DEF IoTask, Msg
  <2>3. c.id = n /\ c.out = 0 /\ c.queue = Tail(conn[g].queue)
    BY OpenIs, <1>1, <1>2, <1>5 DEF IoConnection
  <2>4. step' = [step EXCEPT ![t] = s] /\ conn' = [conn EXCEPT ![g] = c] /\ UNCHANGED watched
    BY <1>1, <1>5 DEF IO!Popped
  <2> HIDE DEF s, c
  <2>5. ASSUME Lone(g), Ordered(n)
        PROVE  After(g, n, s, c)
    <3>1. "out" \in watched[g] /\ given[n] = InRow(sent[n], KeptOut(g), conn[g].queue)
      BY InTurn, <1>0, <1>1, <1>2, <2>5
    <3>2. KeptOut(g) = <<>>
      BY <1>5 DEF KeptOut, KeptOf
    <3> QED
      BY <1>0, <2>1, <2>2, <2>3, <2>4, <2>5, <3>1, <3>2 DEF Ordered, After
  <2> QED
    <3>1. Elsewhere(g, n)
      BY <1>0, <2>4 DEF Elsewhere
    <3> QED
      BY GoesOn, <1>0, <1>1, <1>2, <2>2, <2>3, <2>4, <2>5, <3>1
<1>6. CASE IO!MayTimeOut(t) /\ step' = [step EXCEPT ![t] = IO!Idle] /\ UNCHANGED <<conn, watched>>
  BY DoneInOrder, <1>0, <1>6, Zenon
<1> QED
  BY <1>1, <1>3, <1>4, <1>5, <1>6 DEF IO!Flush, IO!NONE

LEMMA PutInOrder ==
    ASSUME IoTypes, Numbered, InOrder, NEW t \in IoThread, IO!Put(t)
    PROVE  InOrder'
<1>0. step[t].at = "send" /\ IO!Alive(t) /\ UNCHANGED <<watched, given, raced>> /\ step' = [step EXCEPT ![t] = IO!Idle]
  BY DEF IO!Put
<1>1. PICK g \in IO!Open : g = step[t].fd /\ step[t].id = conn[g].id
  BY AboutIs, <1>0
<1>2. PICK n \in 1 .. MaxConnections : n = step[t].id
  BY OpenIs, <1>1
<1>3. PICK m \in Msg : m = step[t].msg
  BY TaskIs, <1>0 DEF Numbered, IoTask, Msg
<1>4. sent[n] \in Seq(Msg) /\ conn[g].queue \in Seq(Msg) /\ <<>> \in Seq(Msg) /\ m # 0 /\ IO!Idle \in IoTask
  BY OpenIs, IoAssumption DEF IoTypes, Msg, IO!Idle, IO!NONE, IoTask
<1>5. /\ Len(sent[n]) + 1 \in 1 .. Len(InRow(sent[n], <<m>>, conn[g].queue))
      /\ InRow(sent[n], <<m>>, conn[g].queue)[Len(sent[n]) + 1] = m
  BY <1>3, <1>4, RowNext
<1>7. Lone(g) => conn[g].out = 0 /\ "out" \in watched[g] /\ given[n] = InRow(sent[n], <<m>>, conn[g].queue)
  BY InTurn, <1>0, <1>1, <1>2, <1>3
<1>8. CASE sent' = [sent EXCEPT ![n] = Append(@, m)] /\ UNCHANGED <<conn, stray>>
  <2>1. sent'[n] = Append(sent[n], m) /\ \A i \in (1 .. MaxConnections) \ {n} : sent'[i] = sent[i]
    BY <1>8 DEF IoTypes
  <2>2. conn' = [conn EXCEPT ![g] = conn[g]] /\ conn[g].id = n
    BY OpenIs, <1>1, <1>2, <1>8 DEF IoTypes
  <2>3. ASSUME Lone(g), Ordered(n)
        PROVE  After(g, n, IO!Idle, conn[g])
    <3>1. given'[n] = InRow(sent'[n], <<>>, conn[g].queue)
      BY <1>0, <1>3, <1>4, <1>7, <2>1, <2>3, RowMoved
    <3>2. \E r \in Seq(Msg) : given'[n] = sent'[n] \o r
      <4>1. sent'[n] \in Seq(Msg)
        BY <1>3, <1>4, <2>1, AppendProperties
      <4>2. \E r \in Seq(Msg) : InRow(sent'[n], <<>>, conn[g].queue) = sent'[n] \o r
        BY <1>4, <4>1, RowBegins, Zenon
      <4> QED
        BY <3>1, <4>2, Zenon
    <3>3. Ordered(n)'
      BY <1>0, <1>8, <2>3, <3>2 DEF Ordered
    <3> QED
      BY TaskIs, <1>0, <1>7, <2>3, <3>1, <3>3 DEF After, KeptOf
  <2> QED
    <3>1. Elsewhere(g, n)
      BY <1>0, <1>8, <2>1 DEF Elsewhere
    <3> QED
      BY TaskIs, GoesOn, <1>0, <1>1, <1>2, <1>4, <2>2, <2>3, <3>1
<1>9. CASE /\ conn' = [conn EXCEPT ![g].out = m] /\ UNCHANGED sent
           /\ stray' = stray \/ stray' = [stray EXCEPT ![n] = @ \cup {<<Len(sent[n]) + 1, m>>}]
  <2> DEFINE c == [conn[g] EXCEPT !.out = m]
  <2>1. conn' = [conn EXCEPT ![g] = c] /\ c.id = n /\ c.out = m /\ c.queue = conn[g].queue
    BY OpenIs, <1>1, <1>2, <1>9 DEF IoConnection
  <2>2. /\ \A s \in stray'[n] : s \in stray[n] \/ s = <<Len(sent[n]) + 1, m>>
        /\ \A i \in (1 .. MaxConnections) \ {n} : stray'[i] = stray[i]
    BY <1>9 DEF IoTypes
  <2> HIDE DEF c
  <2>3. ASSUME Lone(g), Ordered(n)
        PROVE  After(g, n, IO!Idle, c)
    <3>1. given'[n] = InRow(sent'[n], <<m>>, conn[g].queue)
      BY <1>0, <1>7, <1>9, <2>3
    <3>2. Len(sent[n]) + 1 \in 1 .. Len(given[n]) /\ given[n][Len(sent[n]) + 1] = m
      BY <1>5, <1>7, <2>3
    <3>3. \A s \in stray'[n] : s[1] \in 1 .. Len(given'[n]) /\ given'[n][s[1]] = s[2]
      BY <1>0, <2>2, <2>3, <3>2 DEF Ordered
    <3>4. \E r \in Seq(Msg) : given'[n] = sent'[n] \o r
      <4>1. <<m>> \in Seq(Msg) /\ sent'[n] = sent[n]
        BY <1>3, <1>9
      <4> QED
        <5>1. \E r \in Seq(Msg) : InRow(sent[n], <<m>>, conn[g].queue) = sent[n] \o r
          BY <1>4, <4>1, RowBegins, Zenon
        <5> QED
          BY <3>1, <4>1, <5>1, Zenon
    <3>5. Ordered(n)'
      BY <3>3, <3>4, Zenon DEF Ordered
    <3> QED
      BY TaskIs, <1>0, <1>4, <1>7, <2>1, <2>3, <3>1, <3>5 DEF After, KeptOf
  <2> QED
    <3>1. Elsewhere(g, n)
      BY <1>0, <1>9, <2>2 DEF Elsewhere
    <3> QED
      BY TaskIs, GoesOn, <1>0, <1>1, <1>2, <1>4, <2>1, <2>3, <3>1
<1> QED
  BY <1>1, <1>2, <1>3, <1>8, <1>9, Zenon DEF IO!Put

LEMMA PutAgainInOrder ==
    ASSUME IoTypes, Numbered, InOrder, NEW t \in IoThread, IO!PutAgain(t)
    PROVE  InOrder'
<1>0. step[t].at = "again" /\ IO!Alive(t) /\ UNCHANGED <<watched, given, stray, raced>> /\ step' = [step EXCEPT ![t] = IO!Idle]
  BY DEF IO!PutAgain
<1>1. PICK g \in IO!Open : g = step[t].fd /\ step[t].id = conn[g].id
  BY AboutIs, <1>0
<1>2. PICK n \in 1 .. MaxConnections : n = step[t].id
  BY OpenIs, <1>1
<1>3. PICK m \in Msg : m = step[t].msg
  BY TaskIs, <1>0 DEF Numbered, IoTask, Msg
<1>4. sent[n] \in Seq(Msg) /\ conn[g].queue \in Seq(Msg) /\ <<>> \in Seq(Msg) /\ m # 0 /\ IO!Idle \in IoTask
  BY OpenIs, IoAssumption DEF IoTypes, Msg, IO!Idle, IO!NONE, IoTask
<1>5. CASE UNCHANGED <<sent, conn>>
  BY DoneInOrder, <1>0, <1>5
<1>6. CASE sent' = [sent EXCEPT ![n] = Append(@, m)] /\ conn' = [conn EXCEPT ![g].out = 0]
  <2> DEFINE c == [conn[g] EXCEPT !.out = 0]
  <2>1. conn' = [conn EXCEPT ![g] = c] /\ c.id = n /\ c.out = 0 /\ c.queue = conn[g].queue
    BY OpenIs, <1>1, <1>2, <1>6 DEF IoConnection
  <2>2. sent'[n] = Append(sent[n], m) /\ \A i \in (1 .. MaxConnections) \ {n} : sent'[i] = sent[i]
    BY <1>6 DEF IoTypes
  <2> HIDE DEF c
  <2>3. ASSUME Lone(g), Ordered(n)
        PROVE  After(g, n, IO!Idle, c)
    <3>1. "out" \in watched[g] /\ conn[g].out = m /\ given[n] = InRow(sent[n], KeptOut(g), conn[g].queue)
      BY InTurn, <1>0, <1>1, <1>2, <1>3, <2>3
    <3>2. KeptOut(g) = <<m>>
      BY <1>4, <3>1 DEF KeptOut, KeptOf
    <3>3. given'[n] = InRow(sent'[n], <<>>, conn[g].queue)
      BY <1>0, <1>3, <1>4, <2>2, <3>1, <3>2, RowMoved
    <3>4. \E r \in Seq(Msg) : given'[n] = sent'[n] \o r
      <4>1. sent'[n] \in Seq(Msg)
        BY <1>3, <1>4, <2>2, AppendProperties
      <4>2. \E r \in Seq(Msg) : InRow(sent'[n], <<>>, conn[g].queue) = sent'[n] \o r
        BY <1>4, <4>1, RowBegins, Zenon
      <4> QED
        BY <3>3, <4>2, Zenon
    <3>5. Ordered(n)'
      BY <1>0, <2>3, <3>4 DEF Ordered
    <3> QED
      BY TaskIs, <1>0, <2>1, <3>1, <3>3, <3>5 DEF After, KeptOf
  <2> QED
    <3>1. Elsewhere(g, n)
      BY <1>0, <2>2 DEF Elsewhere
    <3> QED
      BY TaskIs, GoesOn, <1>0, <1>1, <1>2, <1>4, <2>1, <2>3, <3>1
<1> QED
  BY <1>1, <1>2, <1>3, <1>5, <1>6, Zenon DEF IO!PutAgain, IO!NONE

(* A connection that one thread at a time sends on keeps the order. *)
LEMMA SendingInOrder ==
    ASSUME IoTypes, Numbered, InOrder, NEW t \in IoThread, NEW f \in IoFd,
           IO!Send(t, f) \/ IO!Push(t) \/ IO!Refuse(t) \/ IO!Writable(f) \/ IO!Flush(t) \/ IO!Put(t) \/ IO!PutAgain(t)
    PROVE  InOrder'
<1>1. CASE IO!Send(t, f)
  <2>1. /\ f \in IO!Open /\ step[t] = IO!Idle /\ IO!Begin(t, f, "push", msgs') /\ UNCHANGED <<conn, given, sent, stray>>
        /\ watched' = [watched EXCEPT ![f] = {"in", "out"}]
    BY <1>1 DEF IO!Send, IO!MayBegin
  <2>2. \A h \in IoFd : watched'[h] = IF h = f THEN {"in", "out"} ELSE watched[h]
    BY <2>1 DEF IoTypes
  <2> QED
    BY BeginInOrder, <2>1, <2>2
<1>2. CASE IO!Writable(f)
  <2>1. /\ f \in IO!Open /\ step["loop"] = IO!Idle /\ IO!Begin("loop", f, "flush", IO!NONE)
        /\ UNCHANGED <<conn, watched, given, sent, stray>> /\ "out" \in watched[f]
    BY <1>2 DEF IO!Writable, IO!MayBegin
  <2> QED
    BY TaskIs, BeginInOrder, <2>1
<1>3. CASE IO!Refuse(t)
  BY DoneInOrder, <1>3 DEF IO!Refuse
<1> QED
  BY <1>1, <1>2, <1>3, PushInOrder, FlushInOrder, PutInOrder, PutAgainInOrder

-----------------------------------------------------------------------------
IoInv == IoTypes /\ Numbered /\ IO!NothingOutlives /\ IO!ClientIsKept /\ InOrder

LEMMA InitIo == IO!Init => IoInv
<1> SUFFICES ASSUME IO!Init PROVE IoInv
  OBVIOUS
<1> USE DEF IO!NONE
<1>0. <<>> \in Seq(Msg) /\ MaxConnections \in Nat
  BY IoAssumption
<1>1. /\ given = [i \in 1 .. MaxConnections |-> <<>>] /\ sent = given /\ step = [t \in IoThread |-> IO!Idle]
      /\ stray = [i \in 1 .. MaxConnections |-> {}]
  BY DEF IO!Init
<1>2. given \in [1 .. MaxConnections -> Seq(Msg)] /\ sent \in [1 .. MaxConnections -> Seq(Msg)]
  BY <1>0, <1>1
<1>3. \A f \in IoFd : conn[f] = IO!Closed /\ conn[f].id = 0
  BY DEF IO!Init, IO!Closed
<1>4. IoTypes
  BY <1>0, <1>1, <1>2 DEF IO!Init, IoTypes, IO!Idle, IoTask
<1>5. IO!Open = {}
  BY <1>3 DEF IO!Open
<1>6. Numbered
  BY <1>1, <1>3 DEF IO!Init, Numbered, IO!Idle
<1>7. IO!NothingOutlives /\ IO!ClientIsKept
  BY <1>3 DEF IO!Init, IO!NothingOutlives, IO!ClientIsKept
<1>8. InOrder
  <2>1. \A i \in 1 .. MaxConnections : given[i] = sent[i] \o <<>> /\ stray[i] = {}
    BY <1>0, <1>1, ConcatEmptySeq
  <2> QED
    BY <1>0, <1>5, <2>1 DEF InOrder, Ordered
<1> QED
  BY <1>4, <1>6, <1>7, <1>8 DEF IoInv

(* dtn_io_open_connection: the client is connected, or on the list. *)
LEMMA Connected ==
    ASSUME IoInv, NEW p \in Peer, IO!Connect(p), UNCHANGED <<partial, IO!sending>>,
           wanted' \subseteq Peer, retry' \in [Peer -> Nat],
           \A q \in wanted' \ {p} : q \in wanted /\ retry'[q] = retry[q]
    PROVE  IoInv'
<1>1. CASE \E tls \in {"plain", "shaking", "done"} : Opens("client", p, 0, tls) /\ UNCHANGED reconnects
  <2>1. PICK tls \in {"plain", "shaking", "done"} : Opens("client", p, 0, tls) /\ UNCHANGED reconnects
    BY <1>1
  <2>2. /\ conn' \in [IoFd -> {IO!Closed} \cup IoConnection] /\ watched' \in [IoFd -> SUBSET {"in", "out"}]
        /\ iconns' \in 0 .. MaxConnections
        /\ Numbered' /\ (IO!NothingOutlives => IO!NothingOutlives') /\ (InOrder => InOrder')
        /\ IO!Lowest \in IO!Open' /\ conn'[IO!Lowest].peer = p
        /\ \A f \in IO!Open : f \in IO!Open' /\ conn'[f] = conn[f]
    BY <2>1, OpenedIs DEF IoInv
  <2>3. IoTypes'
    BY <2>1, <2>2 DEF IoTypes, IoInv, Opens
  <2>4. IO!ClientIsKept'
    <3> SUFFICES ASSUME NEW q \in wanted' PROVE reconnects'[q] + retry'[q] > 0 \/ \E f \in IO!Open' : conn'[f].peer = q
      BY DEF IO!ClientIsKept
    <3>1. CASE q = p
      BY <2>2, <3>1
    <3>2. CASE q # p
      BY <2>1, <2>2, <3>2 DEF IoInv, IO!ClientIsKept
    <3> QED
      BY <3>1, <3>2
  <2> QED
    BY <2>2, <2>3, <2>4 DEF IoInv
<1>2. CASE reconnects' = [reconnects EXCEPT ![p] = @ + 1] /\ UNCHANGED <<conn, watched, timers, iconns>>
  <2>1. \A q \in Peer : reconnects'[q] \in Nat /\ reconnects[q] \in Nat /\ reconnects'[q] = reconnects[q] + IF q = p THEN 1 ELSE 0
    BY <1>2 DEF IoTypes, IoInv
  <2>2. reconnects' \in [Peer -> Nat]
    BY <1>2 DEF IoTypes, IoInv
  <2>3. UNCHANGED <<given, sent, stray, raced, step, msgs, partial>>
    BY DEF IO!sending
  <2>4. IoTypes' /\ IO!Open' = IO!Open
    BY <1>2, <2>2, <2>3 DEF IoTypes, IoInv, IO!Open
  <2>5. Numbered'
    BY <1>2, <2>3 DEF Numbered, IoInv
  <2>6. IO!NothingOutlives'
    BY <1>2, <2>3, <2>4 DEF IO!NothingOutlives, IoInv
  <2>7. InOrder'
    BY <1>2, <2>3, <2>4, InOrderKept DEF IoInv
  <2>8. IO!ClientIsKept'
    <3> SUFFICES ASSUME NEW q \in wanted' PROVE reconnects'[q] + retry'[q] > 0 \/ \E f \in IO!Open' : conn'[f].peer = q
      BY DEF IO!ClientIsKept
    <3>1. q \in Peer /\ retry'[q] \in Nat
      OBVIOUS
    <3>2. CASE q = p
      BY <2>1, <3>1, <3>2
    <3>3. CASE q # p
      BY <1>2, <2>1, <2>4, <3>1, <3>3 DEF IoInv, IO!ClientIsKept
    <3> QED
      BY <3>2, <3>3
  <2> QED
    BY <2>4, <2>5, <2>6, <2>7, <2>8 DEF IoInv
<1>3. \/ \E tls \in {"plain", "shaking", "done"} : Opens("client", p, 0, tls) /\ UNCHANGED reconnects
      \/ reconnects' = [reconnects EXCEPT ![p] = @ + 1] /\ UNCHANGED <<conn, watched, timers, iconns>>
  BY DEF IO!Connect, Opens, IO!sending, IO!NONE
<1> QED
  BY <1>1, <1>2, <1>3

(* dtn_io_open_listener, and a connection that a listener accepts. *)
LEMMA OpenedByLoop ==
    ASSUME IoInv, NEW kind \in {"listener", "accepted"}, NEW of \in IoFd \cup {0},
           Opens(kind, IO!NoPeer, of, "plain"), UNCHANGED <<wanted, reconnects, retry>>
    PROVE  IoInv'
<1>1. IO!NoPeer \in Peer \cup {IO!NoPeer} /\ "plain" \in {"plain", "shaking", "done"} /\ kind \in {"listener", "accepted", "client"}
  OBVIOUS
<1>2. /\ conn' \in [IoFd -> {IO!Closed} \cup IoConnection] /\ watched' \in [IoFd -> SUBSET {"in", "out"}]
      /\ iconns' \in 0 .. MaxConnections
      /\ Numbered' /\ (IO!NothingOutlives => IO!NothingOutlives') /\ (InOrder => InOrder')
      /\ \A f \in IO!Open : f \in IO!Open' /\ conn'[f] = conn[f]
  BY <1>1, OpenedIs DEF IoInv
<1>3. IoTypes'
  BY <1>2 DEF IoTypes, IoInv, Opens
<1>4. IO!ClientIsKept'
  BY <1>2 DEF IoInv, IO!ClientIsKept
<1> QED
  BY <1>2, <1>3, <1>4 DEF IoInv

LEMMA NextIo == IoInv /\ [IO!Next]_ioVars => IoInv'
<1> SUFFICES ASSUME IoInv, [IO!Next]_ioVars PROVE IoInv'
  OBVIOUS
<1>1. CASE IO!OpenListener
  <2>1. Opens("listener", IO!NoPeer, 0, "plain") /\ UNCHANGED <<wanted, reconnects, retry>>
    BY <1>1 DEF IO!OpenListener, Opens, IO!sending, IO!NONE
  <2> QED
    BY <2>1, OpenedByLoop
<1>2. ASSUME NEW f \in IoFd, IO!Accept(f) PROVE IoInv'
  <2>1. Opens("accepted", IO!NoPeer, f, "plain") /\ UNCHANGED <<wanted, reconnects, retry>>
    BY <1>2 DEF IO!Accept, Opens, IO!sending
  <2> QED
    BY <2>1, OpenedByLoop
<1>3. CASE IO!ReconnectTimer
  <2>1. /\ retry' = reconnects /\ reconnects' = [p \in Peer |-> 0]
        /\ UNCHANGED <<conn, watched, timers, wanted, partial, iconns, given, sent, stray, raced, step, msgs>>
        /\ \A p \in Peer : retry[p] = 0
    BY <1>3 DEF IO!ReconnectTimer, IO!sending, IO!LoopIdle
  <2>2. IoTypes' /\ IO!Open' = IO!Open
    BY <2>1 DEF IoTypes, IoInv, IO!Open
  <2>3. Numbered'
    BY <2>1 DEF Numbered, IoInv
  <2>4. IO!NothingOutlives'
    BY <2>1, <2>2 DEF IO!NothingOutlives, IoInv
  <2>5. InOrder'
    BY <2>1, <2>2, InOrderKept DEF IoInv
  <2>6. \A p \in wanted : p \in Peer /\ reconnects'[p] + retry'[p] = reconnects[p] + retry[p]
    BY <2>1 DEF IoTypes, IoInv
  <2>7. IO!ClientIsKept'
    BY <2>1, <2>2, <2>6 DEF IO!ClientIsKept, IoInv
  <2> QED
    BY <2>2, <2>3, <2>4, <2>5, <2>7 DEF IoInv
<1>4. ASSUME NEW p \in Peer, IO!OpenConnection(p) PROVE IoInv'
  <2>1. IO!Connect(p) /\ wanted' = wanted \cup {p} /\ UNCHANGED <<retry, partial, IO!sending>>
    BY <1>4 DEF IO!OpenConnection
  <2> QED
    BY <2>1, Connected DEF IoInv, IoTypes
<1>5. ASSUME NEW p \in Peer, IO!Reconnect(p) PROVE IoInv'
  <2>1. IO!Connect(p) /\ retry[p] # 0 /\ retry' = [retry EXCEPT ![p] = @ - 1] /\ UNCHANGED <<wanted, partial, IO!sending>>
    BY <1>5 DEF IO!Reconnect
  <2>2. retry' \in [Peer -> Nat] /\ wanted' \subseteq Peer
    BY <2>1 DEF IoInv, IoTypes
  <2>3. \A q \in wanted' \ {p} : q \in wanted /\ retry'[q] = retry[q]
    BY <2>1 DEF IoInv, IoTypes
  <2> QED
    BY <2>1, <2>2, <2>3, Connected
<1>6. ASSUME NEW f \in IoFd, IO!Handshake(f) PROVE IoInv'
  <2>1. /\ f \in IO!Open /\ conn[f].tls = "shaking"
        /\ UNCHANGED <<watched, wanted, reconnects, retry, partial, iconns, given, sent, stray, raced, step, msgs>>
        /\ \/ conn' = [conn EXCEPT ![f].tls = "done"] /\ timers' = timers \ {conn[f].id}
           \/ timers' = timers \cup {conn[f].id} /\ UNCHANGED conn
    BY <1>6 DEF IO!Handshake, IO!sending
  <2>2. conn[f] \in IoConnection /\ \A g \in IoFd \ {f} : conn'[g] = conn[g]
    BY <2>1 DEF IoInv, IoTypes, IO!Open, IO!NONE, IO!Closed
  <2>3. /\ conn'[f].id = conn[f].id /\ conn'[f].peer = conn[f].peer /\ conn'[f].out = conn[f].out
        /\ conn'[f].queue = conn[f].queue /\ conn'[f] \in IoConnection
    <3>1. conn' = [conn EXCEPT ![f] = [conn[f] EXCEPT !.tls = "done"]] \/ conn' = conn
      BY <2>1
    <3>2. conn'[f] = [conn[f] EXCEPT !.tls = "done"] \/ conn'[f] = conn[f]
      BY <3>1 DEF IoInv, IoTypes
    <3> QED
      BY <2>2, <3>2 DEF IoConnection
  <2>4. IoTypes' /\ IO!Open' = IO!Open
    <3>1. conn' \in [IoFd -> {IO!Closed} \cup IoConnection]
      <4>1. conn' = [conn EXCEPT ![f] = conn'[f]] /\ conn \in [IoFd -> {IO!Closed} \cup IoConnection]
        BY <2>1, <2>2 DEF IoInv, IoTypes
      <4> QED
        BY <2>3, <4>1
    <3>2. IO!Open' = IO!Open
      BY <2>2, <2>3 DEF IO!Open
    <3> QED
      BY <2>1, <3>1, <3>2 DEF IoInv, IoTypes
  <2>5. \A g \in IoFd : conn'[g].id = conn[g].id
    BY <2>2, <2>3
  <2>6. Numbered'
    BY <2>1, <2>5 DEF Numbered, IoInv
  <2>7. IO!NothingOutlives'
    <3>1. \A g \in IoFd : partial'[g] \in {0, conn'[g].id}
      BY <2>1, <2>5 DEF IO!NothingOutlives, IoInv, IO!NONE
    <3>2. ASSUME NEW i \in timers' PROVE \E g \in IO!Open' : conn'[g].id = i /\ conn'[g].tls = "shaking"
      <4>1. CASE i = conn[f].id
        BY <2>1, <2>4, <3>2, <4>1
      <4>2. CASE i # conn[f].id
        <5>1. i \in timers
          BY <2>1, <3>2, <4>2
        <5>2. PICK g \in IO!Open : conn[g].id = i /\ conn[g].tls = "shaking"
          BY <5>1 DEF IO!NothingOutlives, IoInv
        <5> QED
          BY <2>2, <2>4, <4>2, <5>2 DEF IO!Open
      <4> QED
        BY <4>1, <4>2
    <3> QED
      BY <3>1, <3>2 DEF IO!NothingOutlives, IO!NONE
  <2>8. IO!ClientIsKept'
    <3>1. \A g \in IO!Open : conn'[g].peer = conn[g].peer
      BY <2>2, <2>3 DEF IO!Open
    <3> QED
      BY <2>1, <2>4, <3>1 DEF IO!ClientIsKept, IoInv
  <2>9. InOrder'
    <3>1. \A g \in IO!Open : /\ conn'[g].id = conn[g].id /\ conn'[g].out = conn[g].out /\ conn'[g].queue = conn[g].queue
                             /\ watched'[g] = watched[g]
      BY <2>1, <2>2, <2>3 DEF IO!Open
    <3> QED
      BY <2>1, <2>4, <3>1, InOrderKept DEF IoInv
  <2> QED
    BY <2>4, <2>6, <2>7, <2>8, <2>9 DEF IoInv
<1>7. ASSUME NEW those \in SUBSET IoFd, NEW again \in {1, 2}, IO!Free(those, again) PROVE IoInv'
  BY <1>7, FreedIs DEF IoInv
<1>8. ASSUME NEW f \in IoFd, IO!Close(f) \/ IO!HangUp(f) \/ IO!ListenerHangsUp(f) PROVE IoInv'
  <2>1. {f} \in SUBSET IoFd /\ {f} \cup IO!AcceptedBy(f) \in SUBSET IoFd
    BY DEF IO!AcceptedBy, IO!Open
  <2> QED
    BY <1>7, <1>8, <2>1 DEF IO!Close, IO!HangUp, IO!ListenerHangsUp
<1>9. ASSUME NEW f \in IoFd, IO!Receive(f) PROVE IoInv'
  <2>1. /\ f \in IO!Open /\ UNCHANGED <<conn, watched, timers, wanted, reconnects, retry, iconns, given, sent, stray, raced, step, msgs>>
        /\ \E n \in {0, partial[f], conn[f].id} : partial' = [partial EXCEPT ![f] = n]
    BY <1>9 DEF IO!Receive, IO!sending, IO!NONE
  <2>2. conn[f] \in IoConnection /\ conn[f].id \in Nat
    BY <2>1 DEF IoInv, IoTypes, IO!Open, IO!NONE, IO!Closed, IoConnection
  <2>3. partial' \in [IoFd -> Nat] /\ \A g \in IoFd : partial'[g] \in {0, partial[g], conn[g].id}
    BY <2>1, <2>2 DEF IoInv, IoTypes
  <2>4. IoTypes' /\ IO!Open' = IO!Open
    BY <2>1, <2>3 DEF IoInv, IoTypes, IO!Open
  <2>5. Numbered'
    BY <2>1 DEF Numbered, IoInv
  <2>6. IO!NothingOutlives'
    BY <2>1, <2>3, <2>4 DEF IO!NothingOutlives, IoInv, IO!NONE
  <2>7. IO!ClientIsKept'
    BY <2>1, <2>4 DEF IO!ClientIsKept, IoInv
  <2>8. InOrder'
    BY <2>1, <2>4, InOrderKept DEF IoInv
  <2> QED
    BY <2>4, <2>5, <2>6, <2>7, <2>8 DEF IoInv
<1>10. ASSUME NEW t \in IoThread, NEW f \in IoFd,
              IO!Send(t, f) \/ IO!Push(t) \/ IO!Refuse(t) \/ IO!Writable(f) \/ IO!Flush(t) \/ IO!Put(t) \/ IO!PutAgain(t) PROVE IoInv'
  <2>1. IoTypes' /\ Numbered'
    BY <1>10, SendingTypes DEF IoInv
  <2>2. InOrder'
    BY <1>10, SendingInOrder, Zenon DEF IoInv
  <2>3. UNCHANGED IO!still
    BY <1>10 DEF IO!Send, IO!Push, IO!Refuse, IO!Writable, IO!Flush, IO!Drained, IO!Popped, IO!Put, IO!PutAgain
  <2>4. \A g \in IoFd : /\ conn'[g].id = conn[g].id
                        /\ conn[g].id # 0 => conn'[g].peer = conn[g].peer /\ conn'[g].tls = conn[g].tls
    <3>1. CASE UNCHANGED conn
      BY <3>1
    <3>2. ASSUME IO!Alive(t), step[t].at # "idle",
                 \/ \E q : conn' = [conn EXCEPT ![step[t].fd].queue = q]
                 \/ \E o : conn' = [conn EXCEPT ![step[t].fd].out = o]
          PROVE  \A g \in IoFd : /\ conn'[g].id = conn[g].id
                                 /\ conn[g].id # 0 => conn'[g].peer = conn[g].peer /\ conn'[g].tls = conn[g].tls
      <4>1. step[t].fd \in IoFd /\ conn[step[t].fd] \in IoConnection
        BY <3>2 DEF IO!Alive, IoInv, Numbered, IoTypes, IO!Closed, IO!NONE
      <4>2. \/ \E q : conn' = [conn EXCEPT ![step[t].fd] = [conn[step[t].fd] EXCEPT !.queue = q]]
            \/ \E o : conn' = [conn EXCEPT ![step[t].fd] = [conn[step[t].fd] EXCEPT !.out = o]]
        BY <3>2
      <4>3. \E c : /\ conn' = [conn EXCEPT ![step[t].fd] = c] /\ c.id = conn[step[t].fd].id
                   /\ c.peer = conn[step[t].fd].peer /\ c.tls = conn[step[t].fd].tls
        BY <4>1, <4>2 DEF IoConnection
      <4>4. conn \in [IoFd -> {IO!Closed} \cup IoConnection]
        BY DEF IoInv, IoTypes
      <4> QED
        BY <4>1, <4>3, <4>4
    <3>3. UNCHANGED conn \/ /\ IO!Alive(t) /\ step[t].at # "idle"
                            /\ \/ \E q : conn' = [conn EXCEPT ![step[t].fd].queue = q]
                               \/ \E o : conn' = [conn EXCEPT ![step[t].fd].out = o]
      BY <1>10, Zenon DEF IO!Send, IO!Push, IO!Refuse, IO!Writable, IO!Flush, IO!Drained, IO!Popped, IO!Put, IO!PutAgain
    <3> QED
      BY <3>1, <3>2, <3>3
  <2> QED
    BY <2>1, <2>2, <2>3, <2>4, SentKeepsTheRest DEF IoInv
<1>11. CASE UNCHANGED ioVars
  <2>1. UNCHANGED <<conn, watched, timers, wanted, reconnects, retry, partial, given, sent, stray, raced, step, iconns, msgs>>
    BY <1>11 DEF ioVars
  <2>2. IoTypes' /\ IO!Open' = IO!Open
    BY <2>1 DEF IoInv, IoTypes, IO!Open
  <2>5. Numbered'
    BY <2>1 DEF Numbered, IoInv
  <2>6. IO!NothingOutlives'
    BY <2>1, <2>2 DEF IO!NothingOutlives, IoInv
  <2>7. IO!ClientIsKept'
    BY <2>1, <2>2 DEF IO!ClientIsKept, IoInv
  <2>8. InOrder'
    BY <2>1, <2>2, InOrderKept DEF IoInv
  <2> QED
    BY <2>2, <2>5, <2>6, <2>7, <2>8 DEF IoInv
<1>12. \A f \in IoFd : IO!Writable(f) => IoInv'
  BY <1>10, IoAssumption
<1>13. IoFd # {} \/ \A t \in IoThread : ~IO!Push(t) /\ ~IO!Refuse(t) /\ ~IO!Flush(t) /\ ~IO!Put(t) /\ ~IO!PutAgain(t)
  BY DEF IO!Push, IO!Refuse, IO!Flush, IO!Put, IO!PutAgain, IoInv, Numbered
<1> QED
  BY <1>1, <1>2, <1>3, <1>4, <1>5, <1>6, <1>8, <1>9, <1>10, <1>11, <1>12, <1>13 DEF IO!Next

(* What is sent is the beginning of what was given, what went out ahead is of *)
(* the message behind it, and what waits is watched.                           *)
LEMMA IoIs ==
    ASSUME IoInv
    PROVE  IO!NothingOutlives /\ IO!ClientIsKept /\ IO!SentInOrder /\ IO!PendingIsWatched
<1>1. ASSUME NEW i \in (1 .. MaxConnections) \ raced
      PROVE  /\ sent[i] = SubSeq(given[i], 1, Len(sent[i]))
             /\ \A s \in stray[i] : s[1] <= Len(sent[i]) => sent[i][s[1]] = s[2]
  <2>0. Ordered(i)
    BY <1>1 DEF IoInv, InOrder
  <2>1. PICK r \in Seq(Msg) : given[i] = sent[i] \o r
    BY <2>0 DEF Ordered
  <2>2. sent[i] \in Seq(Msg) /\ Len(sent[i]) \in Nat
    BY <1>1, LenProperties DEF IoInv, IoTypes
  <2>3. sent[i] = SubSeq(given[i], 1, Len(sent[i]))
    <3>1. CASE sent[i] = <<>>
      <4>1. Len(sent[i]) = 0 /\ SubSeq(given[i], 1, 0) = <<>>
        BY <3>1, SubSeqEmpty
      <4> QED
        BY <3>1, <4>1
    <3>2. CASE sent[i] # <<>>
      <4>1. Len(sent[i]) \in 1 .. Len(sent[i]) /\ 1 \in 1 .. Len(sent[i])
        BY <2>2, <3>2, EmptySeq
      <4>2. SubSeq(sent[i] \o r, 1, Len(sent[i])) = SubSeq(sent[i], 1, Len(sent[i]))
        BY <2>1, <2>2, <4>1, SubSeqOfConcat1
      <4> QED
        BY <2>1, <2>2, <4>2, SubSeqFull
    <3> QED
      BY <3>1, <3>2
  <2>4. ASSUME NEW s \in stray[i], s[1] <= Len(sent[i]) PROVE sent[i][s[1]] = s[2]
    <3>1. s[1] \in 1 .. Len(given[i]) /\ given[i][s[1]] = s[2]
      BY <2>0 DEF Ordered
    <3>2. s[1] \in 1 .. Len(sent[i])
      BY <2>2, <2>4, <3>1
    <3>3. (sent[i] \o r)[s[1]] = sent[i][s[1]]
      BY <2>1, <2>2, <3>2, ConcatProperties
    <3> QED
      BY <2>1, <3>1, <3>3
  <2> QED
    BY <2>3, <2>4
<1>2. IO!SentInOrder
  BY <1>1 DEF IO!SentInOrder
<1>3. IO!PendingIsWatched
  BY DEF IoInv, InOrder, Lone, IO!PendingIsWatched, IO!NONE
<1> QED
  BY <1>2, <1>3 DEF IoInv

-----------------------------------------------------------------------------
(* The requests of dtn_app.c, by their types. *)
AppRequest == 1 .. AppRequests
AppMessage == [fd : AppFd, kind : AppKinds, request : AppRequest]
AppTask == [at : {"event", "handler", "does", "answer"}, fd : AppFd, kind : AppKinds, request : AppRequest,
            code : {"ok", "auth", "error", "none"}]
AppTypes ==
    /\ peer \in [AppFd -> Nat] /\ serial \in Nat /\ \A fd \in AppFd : peer[fd] <= serial
    /\ requests \in Seq(AppMessage)
    /\ worker \in [AppWorker -> {AP!Idle} \cup AppTask]
    /\ session \in [AppFd -> Nat]
    /\ asked \in Seq(1 .. serial) /\ Len(asked) <= AppRequests
    /\ freed \in [AppRequest -> Nat]
    /\ refused \subseteq 1 .. Len(asked)
    /\ \A a \in answered : a.request \in 1 .. Len(asked)

(* A request is under way in one place: in the queue, or at a worker. *)
UnderWayOnce ==
    /\ \A j, k \in 1 .. Len(requests) : requests[j].request = requests[k].request => j = k
    /\ \A v, w \in AppWorker : AP!Busy(v) /\ AP!Busy(w) /\ worker[v].request = worker[w].request => v = w
    /\ \A k \in 1 .. Len(requests), w \in AppWorker : AP!Busy(w) => requests[k].request # worker[w].request
    /\ \A r \in AP!UnderWay : r \in 1 .. Len(asked) /\ r \notin refused
    /\ \A r \in AppRequest : r > Len(asked) => freed[r] = 0

(* A request came from the connection that has its descriptor, or from one that *)
(* closed before its time.                                                      *)
CameFrom(fd, r) == asked[r] \in {peer[fd]} \cup overtaken
Asked ==
    /\ \A k \in 1 .. Len(requests) : CameFrom(requests[k].fd, requests[k].request)
    /\ \A w \in AppWorker : AP!Busy(w) => CameFrom(worker[w].fd, worker[w].request)

AppInv == AppTypes /\ UnderWayOnce /\ AP!RequestFreedOnce /\ Asked /\ AP!SessionIsOwn /\ AP!AnswerIsOwn

(* The queue loses its first message, and gets one behind the others. *)
LEMMA MessageTaken ==
    ASSUME NEW q \in Seq(AppMessage), q # <<>>
    PROVE  /\ Tail(q) \in Seq(AppMessage) /\ Head(q) = q[1] /\ Head(q) \in AppMessage /\ Len(q) \in Nat \ {0}
           /\ Len(Tail(q)) = Len(q) - 1 /\ \A k \in 1 .. Len(q) - 1 : Tail(q)[k] = q[k + 1]
BY HeadTailProperties, LenProperties, EmptySeq
LEMMA MessagePut ==
    ASSUME NEW q \in Seq(AppMessage), NEW m \in AppMessage
    PROVE  /\ Append(q, m) \in Seq(AppMessage) /\ Len(q) \in Nat /\ Len(Append(q, m)) = Len(q) + 1
           /\ \A k \in 1 .. Len(q) : Append(q, m)[k] = q[k]
           /\ Append(q, m)[Len(q) + 1] = m
BY AppendProperties, LenProperties

(* What is under way, by where it is. *)
LEMMA UnderWayIs ==
    /\ \A k \in 1 .. Len(requests) : requests[k].request \in AP!UnderWay
    /\ \A w \in AppWorker : AP!Busy(w) => worker[w].request \in AP!UnderWay
    /\ \A r \in AP!UnderWay : \/ \E k \in 1 .. Len(requests) : r = requests[k].request
                              \/ \E w \in AppWorker : AP!Busy(w) /\ r = worker[w].request
BY DEF AP!UnderWay

(* A worker goes on with its request. *)
LEMMA WorkerGoesOn ==
    ASSUME AppInv, NEW w \in AppWorker, AP!Busy(w), NEW t \in AppTask,
           t.fd = worker[w].fd, t.request = worker[w].request, worker' = [worker EXCEPT ![w] = t],
           UNCHANGED <<peer, serial, requests, asked, freed, answered, refused, overtaken>>,
           session' = session \/ session' = [session EXCEPT ![worker[w].fd] = asked[worker[w].request]]
    PROVE  AppInv'
<1>1. worker \in [AppWorker -> {AP!Idle} \cup AppTask] /\ worker[w] \in AppTask
  BY DEF AppInv, AppTypes, AP!Busy, AP!Idle
<1>2. \A v \in AppWorker : worker'[v] = IF v = w THEN t ELSE worker[v]
  BY <1>1
<1>3. t.at # "idle"
  BY DEF AppTask
<1>4. \A v \in AppWorker : /\ AP!Busy(v)' <=> AP!Busy(v)
                           /\ AP!Busy(v) => worker'[v].request = worker[v].request /\ worker'[v].fd = worker[v].fd
  BY <1>2, <1>3 DEF AP!Busy
<1>5. AP!UnderWay' = AP!UnderWay
  BY <1>4 DEF AP!UnderWay
<1>6. worker[w].fd \in AppFd /\ worker[w].request \in 1 .. Len(asked) /\ asked[worker[w].request] \in 1 .. serial
  <2>1. worker[w].fd \in AppFd /\ worker[w].request \in 1 .. Len(asked)
    BY <1>1, UnderWayIs DEF AppInv, UnderWayOnce, AppTask
  <2> QED
    BY <2>1, ElementOfSeq DEF AppInv, AppTypes
<1>7. AppTypes'
  <2>1. worker' \in [AppWorker -> {AP!Idle} \cup AppTask]
    BY <1>1
  <2>2. serial \in Nat /\ session \in [AppFd -> Nat]
    BY DEF AppInv, AppTypes
  <2>3. asked[worker[w].request] \in Nat
    BY <1>6, <2>2
  <2>4. session' \in [AppFd -> Nat]
    BY <1>6, <2>2, <2>3
  <2> QED
    BY <2>1, <2>4 DEF AppInv, AppTypes
<1>8. UnderWayOnce'
  BY <1>4, <1>5 DEF AppInv, UnderWayOnce
<1>9. AP!RequestFreedOnce'
  BY <1>5 DEF AppInv, AP!RequestFreedOnce
<1>10. Asked'
  BY <1>4 DEF AppInv, Asked, CameFrom
<1>11. AP!SessionIsOwn'
  <2>1. \A fd \in AppFd : session'[fd] = session[fd] \/ (fd = worker[w].fd /\ session'[fd] = asked[worker[w].request])
    <3>1. session \in [AppFd -> Nat]
      BY DEF AppInv, AppTypes
    <3> QED
      BY <1>6, <3>1
  <2>2. CameFrom(worker[w].fd, worker[w].request)
    BY DEF AppInv, Asked
  <2> QED
    BY <2>1, <2>2 DEF AppInv, AP!SessionIsOwn, CameFrom
<1>12. AP!AnswerIsOwn'
  BY DEF AppInv, AP!AnswerIsOwn
<1> QED
  BY <1>7, <1>8, <1>9, <1>10, <1>11, <1>12 DEF AppInv

(* A worker is done: the item of its request is freed. *)
LEMMA WorkerIsDone ==
    ASSUME AppInv, NEW w \in AppWorker, AP!Busy(w), AP!Free(w), worker' = [worker EXCEPT ![w] = AP!Idle],
           UNCHANGED <<peer, serial, requests, session, asked, refused, overtaken>>,
           \A a \in answered' : \/ a \in answered
                                \/ /\ a.request = worker[w].request /\ a.to = peer[worker[w].fd]
    PROVE  AppInv'
<1> DEFINE n == worker[w].request
<1>1. worker \in [AppWorker -> {AP!Idle} \cup AppTask] /\ worker[w] \in AppTask
  BY DEF AppInv, AppTypes, AP!Busy, AP!Idle
<1>2. AP!Idle.at = "idle" /\ \A v \in AppWorker : worker'[v] = IF v = w THEN AP!Idle ELSE worker[v]
  BY <1>1 DEF AP!Idle
<1>3. \A v \in AppWorker : /\ AP!Busy(v)' <=> AP!Busy(v) /\ v # w
                           /\ v # w => worker'[v] = worker[v]
  BY <1>2 DEF AP!Busy
<1>4. n \in AppRequest /\ n \in AP!UnderWay /\ n \in 1 .. Len(asked) /\ n \notin refused
  BY <1>1, UnderWayIs DEF AppTask, AppInv, UnderWayOnce
<1>5. freed' = [freed EXCEPT ![n] = @ + 1] /\ freed \in [AppRequest -> Nat]
  BY DEF AP!Free, AppInv, AppTypes
<1>6. \A r \in AppRequest : freed'[r] = freed[r] + IF r = n THEN 1 ELSE 0
  BY <1>5
<1>7. AP!UnderWay' = AP!UnderWay \ {n}
  <2>1. ASSUME NEW r \in AP!UnderWay' PROVE r \in AP!UnderWay /\ r # n
    <3>1. CASE \E k \in 1 .. Len(requests) : r = requests[k].request
      BY <3>1, UnderWayIs DEF AppInv, UnderWayOnce
    <3>2. CASE \E v \in AppWorker : AP!Busy(v)' /\ r = worker'[v].request
      BY <1>3, <3>2, UnderWayIs DEF AppInv, UnderWayOnce
    <3> QED
      BY <2>1, <3>1, <3>2 DEF AP!UnderWay
  <2>2. ASSUME NEW r \in AP!UnderWay, r # n PROVE r \in AP!UnderWay'
    BY <1>3, <2>2 DEF AP!UnderWay
  <2> QED
    BY <2>1, <2>2
<1>8. AppTypes'
  <2>1. worker' \in [AppWorker -> {AP!Idle} \cup AppTask] /\ freed' \in [AppRequest -> Nat]
    BY <1>1, <1>4, <1>5
  <2>2. \A a \in answered' : a.request \in 1 .. Len(asked)
    BY <1>4 DEF AppInv, AppTypes
  <2> QED
    BY <2>1, <2>2 DEF AppInv, AppTypes
<1>9. UnderWayOnce'
  <2>1. \A r \in AppRequest : r > Len(asked) => freed'[r] = 0
    <3>1. Len(asked) \in Nat /\ AppRequests \in Nat
      BY AppAssumption, LenProperties DEF AppInv, AppTypes
    <3> QED
      <4>1. \A r \in AppRequest : r > Len(asked) => freed[r] = 0 /\ r # n
        BY <1>4, <3>1 DEF AppInv, UnderWayOnce
      <4> QED
        BY <1>6, <4>1
  <2>2. \A v, u \in AppWorker : AP!Busy(v)' /\ AP!Busy(u)' /\ worker'[v].request = worker'[u].request => v = u
    BY <1>3 DEF AppInv, UnderWayOnce
  <2>3. \A k \in 1 .. Len(requests'), v \in AppWorker : AP!Busy(v)' => requests'[k].request # worker'[v].request
    BY <1>3 DEF AppInv, UnderWayOnce
  <2> QED
    BY <1>7, <2>1, <2>2, <2>3 DEF AppInv, UnderWayOnce
<1>10. AP!RequestFreedOnce'
  <2>0. Len(asked) \in Nat /\ Len(asked) <= AppRequests /\ AppRequests \in Nat
    BY AppAssumption, LenProperties DEF AppInv, AppTypes
  <2> SUFFICES ASSUME NEW r \in 1 .. Len(asked)
               PROVE  freed'[r] = IF r \in refused THEN 2 ELSE IF r \in AP!UnderWay' THEN 0 ELSE 1
    BY DEF AP!RequestFreedOnce
  <2>1. r \in AppRequest /\ freed[r] = IF r \in refused THEN 2 ELSE IF r \in AP!UnderWay THEN 0 ELSE 1
    BY <2>0 DEF AppRequest, AppInv, AP!RequestFreedOnce
  <2> QED
    BY <1>4, <1>6, <1>7, <2>1
<1>11. Asked'
  BY <1>3 DEF AppInv, Asked, CameFrom
<1>12. AP!SessionIsOwn'
  BY DEF AppInv, AP!SessionIsOwn
<1>13. AP!AnswerIsOwn'
  <2>1. asked[n] = peer[worker[w].fd] \/ asked[n] \in overtaken
    BY DEF AppInv, Asked, CameFrom
  <2> QED
    BY <2>1 DEF AppInv, AP!AnswerIsOwn
<1> QED
  BY <1>8, <1>9, <1>10, <1>11, <1>12, <1>13 DEF AppInv

(* What is under way is where it was: only whose it is may change. *)
LEMMA NothingMoves ==
    ASSUME AppInv, UNCHANGED <<requests, worker, asked, freed, refused, answered>>,
           peer' \in [AppFd -> Nat], serial' \in Nat, serial <= serial', \A fd \in AppFd : peer'[fd] <= serial',
           session' \in [AppFd -> Nat], overtaken \subseteq overtaken',
           \A fd \in AppFd : session'[fd] \in {0, peer'[fd]} \cup overtaken',
           \A fd \in AppFd, r \in AP!UnderWay : asked[r] = peer[fd] => asked[r] \in {peer'[fd]} \cup overtaken'
    PROVE  AppInv'
<1>1. \A w \in AppWorker : AP!Busy(w)' <=> AP!Busy(w)
  BY DEF AP!Busy
<1>2. AP!UnderWay' = AP!UnderWay
  BY DEF AP!UnderWay, AP!Busy
<1>3. AppTypes'
  <2>1. serial \in Nat /\ asked \in Seq(1 .. serial) /\ 1 .. serial \subseteq 1 .. serial'
    BY DEF AppInv, AppTypes
  <2>2. asked \in Seq(1 .. serial')
    BY <2>1, SeqMonotonic
  <2> QED
    BY <2>2 DEF AppInv, AppTypes
<1>4. UnderWayOnce'
  BY <1>1, <1>2 DEF AppInv, UnderWayOnce
<1>5. AP!RequestFreedOnce'
  BY <1>2 DEF AppInv, AP!RequestFreedOnce
<1>6. Asked'
  <2>1. ASSUME NEW fd \in AppFd, NEW r \in AP!UnderWay, CameFrom(fd, r) PROVE CameFrom(fd, r)'
    BY <2>1 DEF CameFrom
  <2>2. ASSUME NEW k \in 1 .. Len(requests) PROVE CameFrom(requests[k].fd, requests[k].request)'
    <3>1. requests[k].fd \in AppFd /\ requests[k].request \in AP!UnderWay
      <4>1. requests \in Seq(AppMessage)
        BY DEF AppInv, AppTypes
      <4>2. requests[k] \in AppMessage
        BY <4>1, ElementOfSeq
      <4> QED
        BY <4>2, UnderWayIs DEF AppMessage
    <3> QED
      BY <2>1, <3>1 DEF AppInv, Asked, CameFrom
  <2>3. ASSUME NEW w \in AppWorker, AP!Busy(w) PROVE CameFrom(worker[w].fd, worker[w].request)'
    <3>1. worker[w].fd \in AppFd /\ worker[w].request \in AP!UnderWay
      BY <2>3, UnderWayIs DEF AppInv, AppTypes, AppTask, AP!Busy, AP!Idle
    <3> QED
      BY <2>1, <2>3, <3>1 DEF AppInv, Asked, CameFrom
  <2> QED
    BY <1>1, <2>2, <2>3 DEF Asked, CameFrom
<1>7. AP!SessionIsOwn'
  BY DEF AP!SessionIsOwn
<1>8. AP!AnswerIsOwn'
  BY DEF AppInv, AP!AnswerIsOwn
<1> QED
  BY <1>3, <1>4, <1>5, <1>6, <1>7, <1>8 DEF AppInv

(* The connection of a descriptor closes. *)
LEMMA ClosedIs ==
    ASSUME AppInv, NEW fd \in AppFd, peer[fd] # 0, AP!Closed(fd)
    PROVE  /\ peer' \in [AppFd -> Nat] /\ \A f \in AppFd : peer'[f] <= serial
           /\ session' \in [AppFd -> Nat] /\ overtaken \subseteq overtaken'
           /\ \A f \in AppFd : session'[f] \in {0, peer'[f]} \cup overtaken'
           /\ \A f \in AppFd, r \in AP!UnderWay : asked[r] = peer[f] => asked[r] \in {peer'[f]} \cup overtaken'
<1>0. peer \in [AppFd -> Nat] /\ session \in [AppFd -> Nat] /\ serial \in Nat /\ (\A f \in AppFd : peer[f] <= serial)
  BY DEF AppInv, AppTypes
<1>1. peer' = [peer EXCEPT ![fd] = 0]
  BY DEF AP!Closed
<1>2. PICK dropped \in BOOLEAN :
          /\ session' = IF dropped THEN [session EXCEPT ![fd] = 0] ELSE session
          /\ overtaken' = overtaken \cup {peer[fd] : r \in {q \in AP!UnderWay : asked[q] = peer[fd]}}
                                   \cup (IF dropped THEN {} ELSE {session[fd]} \ {0})
  BY DEF AP!Closed, AP!DropSession
<1>3. \A f \in AppFd : peer'[f] = IF f = fd THEN 0 ELSE peer[f]
  BY <1>0, <1>1
<1>4. overtaken \subseteq overtaken'
  BY <1>2
<1>5. session' \in [AppFd -> Nat] /\ \A f \in AppFd : session'[f] = IF dropped /\ f = fd THEN 0 ELSE session[f]
  BY <1>0, <1>2
<1>6. \A f \in AppFd : session'[f] \in {0, peer'[f]} \cup overtaken'
  <2>1. \A f \in AppFd : session[f] \in {0, peer[f]} \cup overtaken
    BY DEF AppInv, AP!SessionIsOwn
  <2>2. ~dropped => session[fd] \in {0} \cup overtaken'
    BY <1>2
  <2> QED
    BY <1>3, <1>4, <1>5, <2>1, <2>2
<1>7. \A f \in AppFd, r \in AP!UnderWay : asked[r] = peer[f] => asked[r] \in {peer'[f]} \cup overtaken'
  <2>1. ASSUME NEW r \in AP!UnderWay, asked[r] = peer[fd] PROVE asked[r] \in overtaken'
    BY <1>2, <2>1
  <2> QED
    BY <1>3, <2>1
<1>8. peer' \in [AppFd -> Nat] /\ \A f \in AppFd : peer'[f] <= serial
  BY <1>0, <1>1
<1> QED
  BY <1>4, <1>5, <1>6, <1>7, <1>8

(* The queue takes a request, and drops its oldest when it is full. *)
LEMMA Queueing ==
    ASSUME AppInv, NEW fd \in AppFd, NEW kind \in AppKinds, AP!cb_json_success(fd, kind)
    PROVE  AppInv'
<1>0. /\ AppCapacity \in Nat \ {0} /\ AppRequests \in Nat /\ serial \in Nat
      /\ requests \in Seq(AppMessage) /\ asked \in Seq(1 .. serial)
      /\ Len(requests) \in Nat /\ Len(asked) \in Nat /\ Len(asked) < AppRequests
      /\ peer[fd] \in 1 .. serial
  <2>1. requests \in Seq(AppMessage) /\ asked \in Seq(1 .. serial)
    BY DEF AppInv, AppTypes
  <2>2. peer[fd] \in Nat /\ peer[fd] <= serial /\ serial \in Nat
    BY DEF AppInv, AppTypes
  <2> QED
    BY <2>1, <2>2, AppAssumption, LenProperties DEF AP!cb_json_success
<1>1. PICK n \in AppRequest : n = Len(asked) + 1
  BY <1>0 DEF AppRequest
<1> DEFINE full == Len(requests) = AppCapacity
           q == IF full THEN Tail(requests) ELSE requests
           m == AP!Message(fd, kind, n)
<1>2. /\ asked' = Append(asked, peer[fd]) /\ requests' = Append(q, m)
      /\ freed' = [r \in AppRequest |-> IF full /\ Head(requests).request = r THEN freed[r] + 1 ELSE freed[r]]
      /\ UNCHANGED <<peer, serial, worker, session, stopped, answered, refused, overtaken>>
  BY <1>1 DEF AP!cb_json_success, AP!Request, AppRequest
<1>3. /\ q \in Seq(AppMessage) /\ Len(q) \in Nat
      /\ \A k \in 1 .. Len(q) : /\ q[k] \in AppMessage
                                /\ IF full THEN k + 1 \in 1 .. Len(requests) /\ q[k] = requests[k + 1]
                                   ELSE k \in 1 .. Len(requests) /\ q[k] = requests[k]
      /\ full => /\ 1 \in 1 .. Len(requests) /\ Head(requests) = requests[1] /\ Len(q) = Len(requests) - 1
      /\ ~full => Len(q) = Len(requests)
  <2>1. CASE full
    <3>1. requests # <<>>
      BY <1>0, <2>1
    <3>2. /\ q = Tail(requests) /\ Tail(requests) \in Seq(AppMessage) /\ Head(requests) = requests[1]
          /\ Len(Tail(requests)) = Len(requests) - 1 /\ \A k \in 1 .. Len(requests) - 1 : Tail(requests)[k] = requests[k + 1]
      BY <1>0, <2>1, <3>1, MessageTaken
    <3> HIDE DEF q
    <3>3. \A k \in 1 .. Len(q) : q[k] \in AppMessage
      BY <3>2, ElementOfSeq
    <3> QED
      BY <1>0, <2>1, <3>2, <3>3
  <2>2. CASE ~full
    BY <1>0, <2>2, ElementOfSeq
  <2> QED
    BY <2>1, <2>2
<1>4. m \in AppMessage /\ m.request = n /\ m.fd = fd
  BY DEF AP!Message, AppMessage
<1> HIDE DEF q, m
<1>5. /\ requests' \in Seq(AppMessage) /\ Len(requests') = Len(q) + 1
      /\ \A k \in 1 .. Len(q) : requests'[k] = q[k]
      /\ requests'[Len(q) + 1] = m
  BY <1>2, <1>3, <1>4, MessagePut
<1>6. /\ asked' \in Seq(1 .. serial) /\ Len(asked') = n /\ asked'[n] = peer[fd]
      /\ \A k \in 1 .. Len(asked) : asked'[k] = asked[k]
  BY <1>0, <1>1, <1>2, AppendProperties
<1>7. \A w \in AppWorker : (AP!Busy(w)' <=> AP!Busy(w)) /\ worker'[w] = worker[w]
  BY <1>2 DEF AP!Busy
<1>8. n \notin AP!UnderWay /\ n \notin refused /\ freed[n] = 0
  BY <1>0, <1>1 DEF AppInv, UnderWayOnce, AppTypes
<1>9. \A k \in 1 .. Len(q) : q[k].request \in AP!UnderWay /\ (full => q[k].request # Head(requests).request)
  BY <1>0, <1>3, UnderWayIs DEF AppInv, UnderWayOnce
<1>10. AP!UnderWay' = (AP!UnderWay \ (IF full THEN {Head(requests).request} ELSE {})) \cup {n}
  <2>1. ASSUME NEW r \in AP!UnderWay'
        PROVE  r \in (AP!UnderWay \ (IF full THEN {Head(requests).request} ELSE {})) \cup {n}
    <3>1. CASE \E k \in 1 .. Len(requests') : r = requests'[k].request
      <4>1. PICK k \in 1 .. Len(q) + 1 : r = requests'[k].request
        BY <1>5, <3>1
      <4>2. CASE k = Len(q) + 1
        BY <1>4, <1>5, <4>1, <4>2
      <4>3. CASE k # Len(q) + 1
        <5>1. k \in 1 .. Len(q)
          BY <1>3, <4>3
        <5> QED
          BY <1>5, <1>9, <4>1, <5>1
      <4> QED
        BY <4>2, <4>3
    <3>2. CASE \E w \in AppWorker : AP!Busy(w)' /\ r = worker'[w].request
      BY <1>3, <1>7, <3>2, UnderWayIs DEF AppInv, UnderWayOnce
    <3> QED
      BY <2>1, <3>1, <3>2 DEF AP!UnderWay
  <2>2. n \in AP!UnderWay'
    <3>1. Len(q) + 1 \in 1 .. Len(requests') /\ requests'[Len(q) + 1].request = n
      BY <1>3, <1>4, <1>5
    <3> QED
      BY <3>1 DEF AP!UnderWay
  <2>3. ASSUME NEW r \in AP!UnderWay, full => r # Head(requests).request PROVE r \in AP!UnderWay'
    <3>1. CASE \E k \in 1 .. Len(requests) : r = requests[k].request
      <4>1. PICK k \in 1 .. Len(requests) : r = requests[k].request
        BY <3>1
      <4>2. PICK j \in 1 .. Len(q) : q[j] = requests[k]
        <5>1. CASE full
          <6>1. k # 1 /\ k - 1 \in 1 .. Len(q) /\ (k - 1) + 1 = k
            BY <1>0, <1>3, <2>3, <4>1, <5>1
          <6> QED
            BY <1>3, <5>1, <6>1
        <5>2. CASE ~full
          BY <1>3, <5>2
        <5> QED
          BY <5>1, <5>2
      <4>3. j \in 1 .. Len(requests') /\ requests'[j].request = r
        BY <1>3, <1>5, <4>1, <4>2
      <4> QED
        BY <4>3 DEF AP!UnderWay
    <3>2. CASE \E w \in AppWorker : AP!Busy(w) /\ r = worker[w].request
      BY <1>7, <3>2 DEF AP!UnderWay
    <3> QED
      BY <3>1, <3>2, UnderWayIs
  <2> QED
    BY <2>1, <2>2, <2>3
<1>11. AppTypes'
  <2>1. freed' \in [AppRequest -> Nat]
    BY <1>2 DEF AppInv, AppTypes
  <2>2. 1 .. Len(asked) \subseteq 1 .. Len(asked') /\ Len(asked') <= AppRequests
    BY <1>0, <1>1, <1>6
  <2>3. /\ peer' \in [AppFd -> Nat] /\ serial' \in Nat /\ (\A f \in AppFd : peer'[f] <= serial')
        /\ worker' \in [AppWorker -> {AP!Idle} \cup AppTask] /\ session' \in [AppFd -> Nat]
        /\ refused' \subseteq 1 .. Len(asked) /\ \A a \in answered' : a.request \in 1 .. Len(asked)
        /\ asked' \in Seq(1 .. serial')
    BY <1>2, <1>6 DEF AppInv, AppTypes
  <2> QED
    BY <1>5, <2>1, <2>2, <2>3 DEF AppTypes
<1>12. UnderWayOnce'
  <2>1. \A j, k \in 1 .. Len(q) : q[j].request = q[k].request => j = k
    <3>1. CASE full
      BY <1>0, <1>3, <3>1 DEF AppInv, UnderWayOnce
    <3>2. CASE ~full
      BY <1>3, <3>2 DEF AppInv, UnderWayOnce
    <3> QED
      BY <3>1, <3>2
  <2>2. \A j, k \in 1 .. Len(requests') : requests'[j].request = requests'[k].request => j = k
    <3>1. \A k \in 1 .. Len(requests') : k \in 1 .. Len(q) \/ k = Len(q) + 1
      BY <1>3, <1>5
    <3>2. \A k \in 1 .. Len(q) : requests'[k].request = q[k].request /\ q[k].request # n
      BY <1>5, <1>8, <1>9
    <3>3. requests'[Len(q) + 1].request = n
      BY <1>4, <1>5
    <3> QED
      BY <2>1, <3>1, <3>2, <3>3
  <2>3. \A v, w \in AppWorker : AP!Busy(v)' /\ AP!Busy(w)' /\ worker'[v].request = worker'[w].request => v = w
    BY <1>7 DEF AppInv, UnderWayOnce
  <2>4. ASSUME NEW k \in 1 .. Len(requests'), NEW w \in AppWorker, AP!Busy(w)'
        PROVE  requests'[k].request # worker'[w].request
    <3>1. CASE k \in 1 .. Len(q)
      <4>1. PICK j \in 1 .. Len(requests) : requests'[k] = requests[j]
        BY <1>3, <1>5, <3>1
      <4> QED
        BY <1>7, <2>4, <4>1 DEF AppInv, UnderWayOnce
    <3>2. CASE k = Len(q) + 1
      BY <1>4, <1>5, <1>7, <1>8, <2>4, <3>2, UnderWayIs
    <3> QED
      BY <1>3, <1>5, <3>1, <3>2
  <2>5. \A r \in AP!UnderWay' : r \in 1 .. Len(asked') /\ r \notin refused'
    <3>1. \A r \in AP!UnderWay : r \in 1 .. Len(asked') /\ r \notin refused
      BY <1>0, <1>1, <1>6 DEF AppInv, UnderWayOnce
    <3>2. n \in 1 .. Len(asked')
      BY <1>0, <1>1, <1>6
    <3> QED
      BY <1>2, <1>8, <1>10, <3>1, <3>2
  <2>6. \A r \in AppRequest : r > Len(asked') => freed'[r] = 0
    <3>1. full => Head(requests).request \in 1 .. Len(asked)
      BY <1>3, UnderWayIs DEF AppInv, UnderWayOnce
    <3>2. ASSUME NEW r \in AppRequest, r > Len(asked') PROVE freed[r] = 0 /\ r > Len(asked)
      BY <1>0, <1>1, <1>6, <3>2 DEF AppInv, UnderWayOnce, AppRequest
    <3> QED
      BY <1>0, <1>2, <3>1, <3>2
  <2> QED
    BY <2>2, <2>3, <2>4, <2>5, <2>6 DEF UnderWayOnce
<1>13. AP!RequestFreedOnce'
  <2> SUFFICES ASSUME NEW r \in 1 .. Len(asked')
               PROVE  freed'[r] = IF r \in refused' THEN 2 ELSE IF r \in AP!UnderWay' THEN 0 ELSE 1
    BY DEF AP!RequestFreedOnce
  <2>1. r \in AppRequest /\ (r = n \/ r \in 1 .. Len(asked))
    BY <1>0, <1>1, <1>6 DEF AppRequest
  <2>2. freed'[r] = freed[r] + IF full /\ Head(requests).request = r THEN 1 ELSE 0
    <3>1. freed[r] \in Nat
      BY <2>1 DEF AppInv, AppTypes
    <3> QED
      BY <1>2, <2>1, <3>1
  <2>3. full => Head(requests).request \in AP!UnderWay /\ Head(requests).request \notin refused
    BY <1>3, UnderWayIs DEF AppInv, UnderWayOnce
  <2>4. CASE r = n
    BY <1>2, <1>8, <1>10, <2>2, <2>3, <2>4
  <2>5. CASE r # n
    <3>1. freed[r] = IF r \in refused THEN 2 ELSE IF r \in AP!UnderWay THEN 0 ELSE 1
      BY <2>1, <2>5 DEF AppInv, AP!RequestFreedOnce
    <3> QED
      BY <1>2, <1>10, <2>2, <2>3, <2>5, <3>1
  <2> QED
    BY <2>4, <2>5
<1>14. \A f, r : r \in 1 .. Len(asked) /\ CameFrom(f, r) => CameFrom(f, r)'
  BY <1>2, <1>6 DEF CameFrom
<1>15. Asked'
  <2>1. ASSUME NEW k \in 1 .. Len(requests') PROVE CameFrom(requests[k].fd, requests[k].request)'
    <3>1. CASE k \in 1 .. Len(q)
      <4>1. PICK j \in 1 .. Len(requests) : requests'[k] = requests[j]
        BY <1>3, <1>5, <3>1
      <4>2. CameFrom(requests[j].fd, requests[j].request) /\ requests[j].request \in 1 .. Len(asked)
        BY UnderWayIs DEF AppInv, Asked, UnderWayOnce
      <4> QED
        BY <1>2, <1>6, <4>1, <4>2 DEF CameFrom
    <3>2. CASE k = Len(q) + 1
      BY <1>2, <1>4, <1>5, <1>6, <3>2 DEF CameFrom
    <3> QED
      BY <1>3, <1>5, <3>1, <3>2
  <2>2. ASSUME NEW w \in AppWorker, AP!Busy(w) PROVE CameFrom(worker[w].fd, worker[w].request)'
    <3>1. CameFrom(worker[w].fd, worker[w].request) /\ worker[w].request \in 1 .. Len(asked)
      BY <2>2, UnderWayIs DEF AppInv, Asked, UnderWayOnce
    <3> QED
      BY <1>2, <1>6, <1>7, <3>1 DEF CameFrom
  <2> QED
    BY <1>7, <2>1, <2>2 DEF Asked, CameFrom
<1>16. AP!SessionIsOwn'
  BY <1>2 DEF AppInv, AP!SessionIsOwn
<1>17. AP!AnswerIsOwn'
  <2>1. \A a \in answered : a.request \in 1 .. Len(asked)
    BY DEF AppInv, AppTypes
  <2> QED
    BY <1>2, <1>6, <2>1 DEF AppInv, AP!AnswerIsOwn
<1> QED
  BY <1>11, <1>12, <1>13, <1>15, <1>16, <1>17 DEF AppInv

(* A worker takes a request off the queue: it is under way as it was. *)
LEMMA Taking ==
    ASSUME AppInv, NEW w \in AppWorker, AP!Take(w)
    PROVE  AppInv'
<1>0. requests \in Seq(AppMessage) /\ worker \in [AppWorker -> {AP!Idle} \cup AppTask]
  BY DEF AppInv, AppTypes
<1>1. /\ Tail(requests) \in Seq(AppMessage) /\ Head(requests) = requests[1] /\ Head(requests) \in AppMessage
      /\ Len(requests) \in Nat \ {0} /\ Len(Tail(requests)) = Len(requests) - 1
      /\ \A k \in 1 .. Len(requests) - 1 : Tail(requests)[k] = requests[k + 1]
  BY <1>0, MessageTaken DEF AP!Take
<1> DEFINE t == [at |-> "event", fd |-> Head(requests).fd, kind |-> Head(requests).kind,
                 request |-> Head(requests).request, code |-> "ok"]
<1>2. t \in AppTask /\ t.at = "event" /\ t.fd = requests[1].fd /\ t.request = requests[1].request
  BY <1>1 DEF AppTask, AppMessage
<1>3. /\ worker' = [worker EXCEPT ![w] = t] /\ requests' = Tail(requests) /\ ~AP!Busy(w)
      /\ UNCHANGED <<peer, serial, session, stopped, asked, freed, answered, refused, overtaken>>
  BY DEF AP!Take
<1> HIDE DEF t
<1>4. \A v \in AppWorker : worker'[v] = IF v = w THEN t ELSE worker[v]
  BY <1>0, <1>3
<1>5. \A v \in AppWorker : AP!Busy(v)' <=> AP!Busy(v) \/ v = w
  BY <1>2, <1>4 DEF AP!Busy
<1>6. /\ 1 \in 1 .. Len(requests)
      /\ \A k \in 1 .. Len(requests') : k + 1 \in 1 .. Len(requests) /\ requests'[k] = requests[k + 1]
      /\ \A k \in 1 .. Len(requests) : k # 1 => k - 1 \in 1 .. Len(requests') /\ requests'[k - 1] = requests[k]
  BY <1>1, <1>3
<1>7. AP!UnderWay' = AP!UnderWay
  <2>1. ASSUME NEW r \in AP!UnderWay' PROVE r \in AP!UnderWay
    <3>1. CASE \E k \in 1 .. Len(requests') : r = requests'[k].request
      BY <1>6, <3>1, UnderWayIs
    <3>2. CASE \E v \in AppWorker : AP!Busy(v)' /\ r = worker'[v].request
      BY <1>2, <1>4, <1>5, <1>6, <3>2, UnderWayIs
    <3> QED
      BY <2>1, <3>1, <3>2 DEF AP!UnderWay
  <2>2. ASSUME NEW r \in AP!UnderWay PROVE r \in AP!UnderWay'
    <3>1. CASE \E k \in 1 .. Len(requests) : r = requests[k].request
      <4>1. PICK k \in 1 .. Len(requests) : r = requests[k].request
        BY <3>1
      <4>2. CASE k = 1
        <5>1. AP!Busy(w)' /\ worker'[w].request = r
          BY <1>2, <1>4, <1>5, <4>1, <4>2
        <5> QED
          BY <5>1 DEF AP!UnderWay
      <4>3. CASE k # 1
        <5>1. k - 1 \in 1 .. Len(requests') /\ requests'[k - 1].request = r
          BY <1>6, <4>1, <4>3
        <5> QED
          BY <5>1 DEF AP!UnderWay
      <4> QED
        BY <4>2, <4>3
    <3>2. CASE \E v \in AppWorker : AP!Busy(v) /\ r = worker[v].request
      <4>1. PICK v \in AppWorker : AP!Busy(v) /\ r = worker[v].request
        BY <3>2
      <4>2. AP!Busy(v)' /\ worker'[v].request = r
        BY <1>3, <1>4, <1>5, <4>1
      <4> QED
        BY <4>2 DEF AP!UnderWay
    <3> QED
      BY <2>2, <3>1, <3>2, UnderWayIs
  <2> QED
    BY <2>1, <2>2
<1>8. AppTypes'
  <2>1. worker' \in [AppWorker -> {AP!Idle} \cup AppTask] /\ requests' \in Seq(AppMessage)
    BY <1>0, <1>1, <1>2, <1>3
  <2> QED
    BY <1>3, <2>1 DEF AppInv, AppTypes
<1>9. UnderWayOnce'
  <2>1. \A j, k \in 1 .. Len(requests') : requests'[j].request = requests'[k].request => j = k
    BY <1>1, <1>3, <1>6 DEF AppInv, UnderWayOnce
  <2>2. \A u, v \in AppWorker : AP!Busy(u)' /\ AP!Busy(v)' /\ worker'[u].request = worker'[v].request => u = v
    BY <1>2, <1>4, <1>5, <1>6 DEF AppInv, UnderWayOnce
  <2>3. ASSUME NEW k \in 1 .. Len(requests'), NEW v \in AppWorker, AP!Busy(v)'
        PROVE  requests'[k].request # worker'[v].request
    <3>1. k + 1 \in 1 .. Len(requests) /\ k + 1 # 1 /\ requests'[k] = requests[k + 1]
      BY <1>6
    <3>2. CASE v = w
      BY <1>2, <1>4, <1>6, <3>1, <3>2 DEF AppInv, UnderWayOnce
    <3>3. CASE v # w
      BY <1>4, <1>5, <2>3, <3>1, <3>3 DEF AppInv, UnderWayOnce
    <3> QED
      BY <3>2, <3>3
  <2> QED
    BY <1>3, <1>7, <2>1, <2>2, <2>3 DEF AppInv, UnderWayOnce
<1>10. AP!RequestFreedOnce'
  BY <1>3, <1>7 DEF AppInv, AP!RequestFreedOnce
<1>11. Asked'
  <2>1. \A k \in 1 .. Len(requests') : CameFrom(requests'[k].fd, requests'[k].request)
    BY <1>6 DEF AppInv, Asked
  <2>2. \A v \in AppWorker : AP!Busy(v)' => CameFrom(worker'[v].fd, worker'[v].request)
    BY <1>2, <1>4, <1>5, <1>6 DEF AppInv, Asked
  <2> QED
    BY <1>3, <2>1, <2>2 DEF Asked, CameFrom
<1>12. AP!SessionIsOwn' /\ AP!AnswerIsOwn'
  BY <1>3 DEF AppInv, AP!SessionIsOwn, AP!AnswerIsOwn
<1> QED
  BY <1>8, <1>9, <1>10, <1>11, <1>12 DEF AppInv

(* The queue does not take the request: its item is freed twice, and the      *)
(* connection closed.                                                         *)
LEMMA Losing ==
    ASSUME AppInv, NEW fd \in AppFd, AP!cb_json_lost(fd)
    PROVE  AppInv'
<1>0. /\ AppRequests \in Nat /\ serial \in Nat /\ asked \in Seq(1 .. serial)
      /\ Len(asked) \in Nat /\ Len(asked) < AppRequests /\ peer[fd] \in 1 .. serial
  <2>1. asked \in Seq(1 .. serial)
    BY DEF AppInv, AppTypes
  <2>2. peer[fd] \in Nat /\ peer[fd] <= serial /\ serial \in Nat
    BY DEF AppInv, AppTypes
  <2> QED
    BY <2>1, <2>2, AppAssumption, LenProperties DEF AP!cb_json_lost
<1>1. PICK n \in AppRequest : n = Len(asked) + 1
  BY <1>0 DEF AppRequest
<1>2. /\ asked' = Append(asked, peer[fd]) /\ refused' = refused \cup {n} /\ freed' = [freed EXCEPT ![n] = 2]
      /\ AP!Closed(fd) /\ UNCHANGED <<serial, requests, worker, stopped, answered>>
  BY <1>1 DEF AP!cb_json_lost
<1>3. /\ asked' \in Seq(1 .. serial) /\ Len(asked') = n
      /\ \A k \in 1 .. Len(asked) : asked'[k] = asked[k]
  BY <1>0, <1>1, <1>2, AppendProperties
<1>4. /\ peer' \in [AppFd -> Nat] /\ \A f \in AppFd : peer'[f] <= serial
      /\ session' \in [AppFd -> Nat] /\ overtaken \subseteq overtaken'
      /\ \A f \in AppFd : session'[f] \in {0, peer'[f]} \cup overtaken'
      /\ \A f \in AppFd, r \in AP!UnderWay : asked[r] = peer[f] => asked[r] \in {peer'[f]} \cup overtaken'
  BY <1>0, <1>2, ClosedIs
<1>5. \A w \in AppWorker : AP!Busy(w)' <=> AP!Busy(w)
  BY <1>2 DEF AP!Busy
<1>6. AP!UnderWay' = AP!UnderWay
  BY <1>2 DEF AP!UnderWay, AP!Busy
<1>7. \A r \in AP!UnderWay : r \in 1 .. Len(asked) /\ r # n /\ asked'[r] = asked[r]
  BY <1>0, <1>1, <1>3 DEF AppInv, UnderWayOnce
<1>8. \A r \in AppRequest : freed'[r] = IF r = n THEN 2 ELSE freed[r]
  BY <1>2 DEF AppInv, AppTypes
<1>9. AppTypes'
  <2>1. freed' \in [AppRequest -> Nat]
    BY <1>2 DEF AppInv, AppTypes
  <2>2. 1 .. Len(asked) \subseteq 1 .. Len(asked') /\ n \in 1 .. Len(asked') /\ Len(asked') <= AppRequests
    BY <1>0, <1>1, <1>3
  <2>3. /\ refused \subseteq 1 .. Len(asked) /\ \A a \in answered : a.request \in 1 .. Len(asked)
    BY DEF AppInv, AppTypes
  <2> QED
    BY <1>2, <1>3, <1>4, <2>1, <2>2, <2>3 DEF AppInv, AppTypes
<1>10. UnderWayOnce'
  <2>1. \A r \in AP!UnderWay : r \in 1 .. Len(asked') /\ r \notin refused'
    BY <1>0, <1>1, <1>2, <1>3, <1>7 DEF AppInv, UnderWayOnce
  <2>2. \A r \in AppRequest : r > Len(asked') => freed'[r] = 0
    BY <1>0, <1>1, <1>3, <1>8 DEF AppInv, UnderWayOnce, AppRequest
  <2> QED
    BY <1>2, <1>5, <1>6, <2>1, <2>2 DEF AppInv, UnderWayOnce
<1>11. AP!RequestFreedOnce'
  <2> SUFFICES ASSUME NEW r \in 1 .. Len(asked')
               PROVE  freed'[r] = IF r \in refused' THEN 2 ELSE IF r \in AP!UnderWay' THEN 0 ELSE 1
    BY DEF AP!RequestFreedOnce
  <2>1. r \in AppRequest /\ (r = n \/ r \in 1 .. Len(asked))
    BY <1>0, <1>1, <1>3 DEF AppRequest
  <2>2. CASE r = n
    BY <1>2, <1>8, <2>2
  <2>3. CASE r # n
    BY <1>2, <1>6, <1>8, <2>1, <2>3 DEF AppInv, AP!RequestFreedOnce
  <2> QED
    BY <2>2, <2>3
<1>12. Asked'
  <2>1. ASSUME NEW f \in AppFd, NEW r \in AP!UnderWay, CameFrom(f, r) PROVE CameFrom(f, r)'
    BY <1>4, <1>7, <2>1 DEF CameFrom
  <2>2. ASSUME NEW k \in 1 .. Len(requests) PROVE CameFrom(requests[k].fd, requests[k].request)'
    <3>1. requests \in Seq(AppMessage)
      BY DEF AppInv, AppTypes
    <3>2. requests[k] \in AppMessage
      BY <3>1, ElementOfSeq
    <3>3. requests[k].fd \in AppFd /\ requests[k].request \in AP!UnderWay
      BY <3>2, UnderWayIs DEF AppMessage
    <3> QED
      BY <1>2, <2>1, <3>3 DEF AppInv, Asked, CameFrom
  <2>3. ASSUME NEW w \in AppWorker, AP!Busy(w) PROVE CameFrom(worker[w].fd, worker[w].request)'
    <3>1. worker[w].fd \in AppFd /\ worker[w].request \in AP!UnderWay
      BY <2>3, UnderWayIs DEF AppInv, AppTypes, AppTask, AP!Busy, AP!Idle
    <3> QED
      BY <1>2, <2>1, <2>3, <3>1 DEF AppInv, Asked, CameFrom
  <2> QED
    BY <1>2, <1>5, <2>2, <2>3 DEF Asked
<1>13. AP!SessionIsOwn'
  BY <1>4 DEF AP!SessionIsOwn
<1>14. AP!AnswerIsOwn'
  <2>1. \A a \in answered : a.request \in 1 .. Len(asked)
    BY DEF AppInv, AppTypes
  <2> QED
    BY <1>2, <1>3, <1>4, <2>1 DEF AppInv, AP!AnswerIsOwn
<1> QED
  BY <1>9, <1>10, <1>11, <1>12, <1>13, <1>14 DEF AppInv

LEMMA InitApp == AP!Init => AppInv
<1> SUFFICES ASSUME AP!Init PROVE AppInv
  OBVIOUS
<1>1. /\ peer = [fd \in AppFd |-> 0] /\ serial = 0 /\ requests = <<>> /\ worker = [w \in AppWorker |-> AP!Idle]
      /\ session = [fd \in AppFd |-> 0] /\ asked = <<>> /\ freed = [r \in AppRequest |-> 0]
      /\ answered = {} /\ refused = {} /\ overtaken = {}
  BY DEF AP!Init, AP!NoSessions, AP!Request, AppRequest
<1>2. Len(asked) = 0 /\ Len(requests) = 0 /\ asked \in Seq(1 .. 0) /\ requests \in Seq(AppMessage)
  BY <1>1
<1>3. \A w \in AppWorker : ~AP!Busy(w)
  BY <1>1 DEF AP!Busy, AP!Idle
<1>4. AP!UnderWay = {}
  BY <1>2, <1>3 DEF AP!UnderWay
<1>5. AppTypes
  BY <1>1, <1>2, AppAssumption DEF AppTypes
<1>6. UnderWayOnce
  BY <1>1, <1>2, <1>3, <1>4 DEF UnderWayOnce
<1>7. AP!RequestFreedOnce
  BY <1>2 DEF AP!RequestFreedOnce
<1>8. Asked
  BY <1>2, <1>3 DEF Asked
<1>9. AP!SessionIsOwn /\ AP!AnswerIsOwn
  BY <1>1 DEF AP!SessionIsOwn, AP!AnswerIsOwn
<1> QED
  BY <1>5, <1>6, <1>7, <1>8, <1>9 DEF AppInv

LEMMA NextApp == AppInv /\ [AP!Next]_appVars => AppInv'
<1> SUFFICES ASSUME AppInv, [AP!Next]_appVars PROVE AppInv'
  OBVIOUS
<1>0. /\ peer \in [AppFd -> Nat] /\ serial \in Nat /\ (\A fd \in AppFd : peer[fd] <= serial)
      /\ session \in [AppFd -> Nat] /\ worker \in [AppWorker -> {AP!Idle} \cup AppTask]
      /\ \A fd \in AppFd : session[fd] \in {0, peer[fd]} \cup overtaken
  BY DEF AppInv, AppTypes, AP!SessionIsOwn
<1>a. ASSUME NEW w \in AppWorker, worker[w].at # "idle" PROVE AP!Busy(w) /\ worker[w] \in AppTask
  BY <1>0, <1>a DEF AP!Busy, AP!Idle
<1>1. ASSUME NEW fd \in AppFd, AP!cb_accept(fd) PROVE AppInv'
  <2>1. /\ peer[fd] = 0 /\ serial' = serial + 1 /\ peer' = [peer EXCEPT ![fd] = serial + 1]
        /\ UNCHANGED <<requests, worker, session, asked, freed, answered, refused, overtaken>>
    BY <1>1 DEF AP!cb_accept
  <2>2. peer' \in [AppFd -> Nat] /\ (\A f \in AppFd : peer'[f] <= serial') /\ serial' \in Nat /\ serial <= serial'
    BY <1>0, <2>1
  <2>3. \A f \in AppFd : f # fd => peer'[f] = peer[f]
    BY <1>0, <2>1
  <2>4. \A f \in AppFd : session'[f] \in {0, peer'[f]} \cup overtaken'
    BY <1>0, <2>1, <2>3
  <2>5. \A r \in AP!UnderWay : asked[r] # 0
    <3>1. asked \in Seq(1 .. serial)
      BY DEF AppInv, AppTypes
    <3>2. \A r \in 1 .. Len(asked) : asked[r] \in 1 .. serial
      BY <3>1, ElementOfSeq
    <3> QED
      BY <1>0, <3>2 DEF AppInv, UnderWayOnce
  <2>6. \A f \in AppFd, r \in AP!UnderWay : asked[r] = peer[f] => asked[r] \in {peer'[f]} \cup overtaken'
    BY <2>1, <2>3, <2>5
  <2> QED
    BY <1>0, <2>1, <2>2, <2>4, <2>6, NothingMoves
<1>2. ASSUME NEW fd \in AppFd, AP!cb_close(fd) PROVE AppInv'
  <2>1. /\ peer[fd] # 0 /\ AP!Closed(fd)
        /\ UNCHANGED <<serial, requests, worker, asked, freed, answered, refused>>
    BY <1>2 DEF AP!cb_close
  <2>2. /\ peer' \in [AppFd -> Nat] /\ \A f \in AppFd : peer'[f] <= serial
        /\ session' \in [AppFd -> Nat] /\ overtaken \subseteq overtaken'
        /\ \A f \in AppFd : session'[f] \in {0, peer'[f]} \cup overtaken'
        /\ \A f \in AppFd, r \in AP!UnderWay : asked[r] = peer[f] => asked[r] \in {peer'[f]} \cup overtaken'
    BY <2>1, ClosedIs
  <2>3. serial' \in Nat /\ serial <= serial' /\ \A f \in AppFd : peer'[f] <= serial'
    BY <1>0, <2>1, <2>2
  <2> QED
    BY <2>1, <2>2, <2>3, NothingMoves
<1>3. ASSUME NEW w \in AppWorker, AP!Ignore(w) PROVE AppInv'
  BY <1>3, <1>a, WorkerIsDone DEF AP!Ignore
<1>4. ASSUME NEW w \in AppWorker, AP!cb_app_generic(w) PROVE AppInv'
  <2>1. /\ AP!Free(w) /\ worker' = [worker EXCEPT ![w] = AP!Idle] /\ AP!Busy(w)
        /\ UNCHANGED <<peer, serial, requests, session, asked, refused, overtaken>>
    BY <1>4, <1>a DEF AP!cb_app_generic, AP!FreeItem
  <2>2. \A a \in answered' : a \in answered \/ (a.request = worker[w].request /\ a.to = peer[worker[w].fd])
    BY <1>4 DEF AP!cb_app_generic, AP!SendJson
  <2> QED
    BY <2>1, <2>2, WorkerIsDone
<1>5. ASSUME NEW w \in AppWorker, worker[w].at # "idle", NEW place_ \in {"handler", "does", "answer"},
             NEW code \in {"ok", "auth", "error", "none"},
             worker' = [worker EXCEPT ![w] = [worker[w] EXCEPT !.at = place_, !.code = code]],
             UNCHANGED <<peer, serial, requests, asked, freed, answered, refused, overtaken>>,
             session' = session \/ session' = [session EXCEPT ![worker[w].fd] = asked[worker[w].request]]
      PROVE  AppInv'
  <2> DEFINE t == [worker[w] EXCEPT !.at = place_, !.code = code]
  <2>1. AP!Busy(w) /\ worker[w] \in AppTask
    BY <1>5, <1>a
  <2>2. t \in AppTask /\ t.fd = worker[w].fd /\ t.request = worker[w].request
    BY <2>1 DEF AppTask
  <2> HIDE DEF t
  <2>3. worker' = [worker EXCEPT ![w] = t]
    BY <1>5 DEF t
  <2> QED
    BY <1>5, <2>1, <2>2, <2>3, WorkerGoesOn
<1>6. ASSUME NEW w \in AppWorker, worker[w].at # "idle", NEW code \in {"ok", "auth", "error", "none"}, AP!Answers(w, code),
             UNCHANGED <<peer, serial, requests, asked, freed, answered, refused, overtaken>>,
             session' = session \/ session' = [session EXCEPT ![worker[w].fd] = asked[worker[w].request]]
      PROVE  AppInv'
  <2>1. worker' = [worker EXCEPT ![w] = [worker[w] EXCEPT !.at = "answer", !.code = code]]
    BY <1>6 DEF AP!Answers
  <2> QED
    BY <1>5, <1>6, <2>1
<1>7. ASSUME NEW w \in AppWorker, NEW place_ \in {"handler", "does"}, worker[w].at # "idle",
             worker' = [worker EXCEPT ![w].at = place_],
             UNCHANGED <<peer, serial, requests, session, asked, freed, answered, refused, overtaken>>
      PROVE  AppInv'
  <2>1. worker[w] \in AppTask
    BY <1>7, <1>a
  <2>2. worker' = [worker EXCEPT ![w] = [worker[w] EXCEPT !.at = place_, !.code = worker[w].code]]
    BY <1>7, <2>1 DEF AppTask
  <2>3. worker[w].code \in {"ok", "auth", "error", "none"}
    BY <2>1 DEF AppTask
  <2> QED
    BY <1>5, <1>7, <2>2, <2>3
<1>8. ASSUME NEW w \in AppWorker, AP!Call(w) \/ AP!WithSession(w) PROVE AppInv'
  BY <1>7, <1>8 DEF AP!Call, AP!WithSession
<1>9. ASSUME NEW w \in AppWorker, AP!cb_login(w) \/ AP!NoSession(w) PROVE AppInv'
  BY <1>6, <1>9 DEF AP!cb_login, AP!NoSession, AP!SetSession
<1>10. ASSUME NEW w \in AppWorker, AP!cb_load_or_send(w) \/ AP!cb_shutdown(w) PROVE AppInv'
  BY <1>6, <1>10 DEF AP!cb_load_or_send, AP!cb_shutdown
<1>11. CASE UNCHANGED appVars
  <2>1. UNCHANGED <<peer, serial, requests, worker, session, asked, freed, answered, refused, overtaken>>
    BY <1>11 DEF appVars
  <2>2. \A fd \in AppFd, r \in AP!UnderWay : asked[r] = peer[fd] => asked[r] \in {peer'[fd]} \cup overtaken'
    BY <2>1
  <2> QED
    BY <1>0, <2>1, <2>2, NothingMoves
<1> QED
  BY <1>1, <1>2, <1>3, <1>4, <1>8, <1>9, <1>10, <1>11, Queueing, Losing, Taking DEF AP!Next

(* No timer, text or session outlives its connection; a client is connected or   *)
(* on the list; what one thread sends goes out in order, and the loop looks for  *)
(* room; the item of a request is freed once, and its answer and session are its *)
(* connection's own.                                                             *)
THEOREM ConnectionsCorrect == Spec => []ConnectionsAreKept
<1>1. Init => IoInv /\ AppInv
  BY InitIo, InitApp DEF Init
<1>2. IoInv /\ AppInv /\ [Next]_vars => (IoInv /\ AppInv)'
  <2>1. SUFFICES ASSUME IoInv, AppInv, [Next]_vars PROVE (IoInv /\ AppInv)'
    OBVIOUS
  <2>2. [IO!Next]_ioVars
    BY <2>1 DEF Next, PollStep, EpollStep, IoStep, SendStep, ReceiveStep, ItemStep, StoreStep, AppStep, RoutesStep,
       FileSent, FileReceived, vars, loopVars
  <2>3. [AP!Next]_appVars
    BY <2>1 DEF Next, PollStep, EpollStep, IoStep, SendStep, ReceiveStep, ItemStep, StoreStep, AppStep, RoutesStep,
       FileSent, FileReceived, vars, nodeVars
  <2> QED
    BY <2>1, <2>2, <2>3, NextIo, NextApp
<1>3. IoInv /\ AppInv => ConnectionsAreKept
  BY IoIs DEF AppInv, ConnectionsAreKept
<1> QED
  BY <1>1, <1>2, <1>3, PTL DEF Spec

-----------------------------------------------------------------------------
(* IpInterface: what is to be sent.                                                *)

SendThread == Sender \cup {"loop"}

SendTypes ==
    /\ link \in BOOLEAN /\ isUp \in BOOLEAN /\ failed \in BOOLEAN /\ taken \in Nat
    /\ queue \in Seq(Nat) /\ passed \in Seq(Nat)
    /\ lock \in SendThread \cup {"nobody"}
    /\ place \in [SendThread -> {"idle", "push", "look", "lock", "send"}]

\* Who has the lock is sending, and nobody else is.
LockIsHeld == \A t \in SendThread : lock = t <=> place[t] = "send"

\* What was taken went out or waits, in its order unless sending failed once.
EachOnce ==
    /\ Len(passed) + Len(queue) = taken
    /\ IP!ToSet(passed) \cup IP!ToSet(queue) = 1 .. taken
    /\ ~failed => /\ \A i \in 1 .. Len(passed) : passed[i] = i
                  /\ \A i \in 1 .. Len(queue) : queue[i] = Len(passed) + i

SendInv == SendTypes /\ LockIsHeld /\ EachOnce /\ IP!QuietIsDrained

LEMMA InSequence ==
    ASSUME NEW S, NEW s \in Seq(S)
    PROVE  \A x : x \in IP!ToSet(s) <=> \E i \in 1 .. Len(s) : s[i] = x
  BY LenProperties DEF IP!ToSet

LEMMA InitSend == IP!Init => SendInv
<1> SUFFICES ASSUME IP!Init PROVE SendInv
  OBVIOUS
<1>1. /\ isUp = FALSE /\ link = FALSE /\ queue = <<>> /\ lock = "nobody" /\ taken = 0 /\ passed = <<>>
      /\ failed = FALSE /\ place = [t \in SendThread |-> "idle"]
  BY DEF IP!Init, IP!Free, IP!Thread, SendThread
<1>2. "nobody" \notin SendThread
  BY SenderAssumption DEF SendThread
<1>3. <<>> \in Seq(Nat) /\ Len(<<>>) = 0 /\ IP!ToSet(<<>>) = {}
  BY EmptySeq DEF IP!ToSet
<1>4. SendTypes
  BY <1>1, <1>3 DEF SendTypes
<1>5. LockIsHeld
  BY <1>1, <1>2 DEF LockIsHeld
<1>6. EachOnce
  <2>1. 1 .. 0 = {}
    OBVIOUS
  <2> QED
    BY <1>1, <1>3, <2>1 DEF EachOnce
<1>7. IP!QuietIsDrained
  BY <1>1 DEF IP!QuietIsDrained
<1> QED
  BY <1>4, <1>5, <1>6, <1>7 DEF SendInv

LEMMA AppendSet ==
    ASSUME NEW s \in Seq(Nat), NEW n \in Nat
    PROVE  IP!ToSet(Append(s, n)) = IP!ToSet(s) \cup {n}
<1> DEFINE a == Append(s, n)
<1>1. /\ a \in Seq(Nat) /\ Len(a) = Len(s) + 1 /\ a[Len(s) + 1] = n /\ Len(s) \in Nat
      /\ \A i \in 1 .. Len(s) : a[i] = s[i]
  BY AppendProperties, LenProperties
<1> HIDE DEF a
<1>2. \A i \in 1 .. Len(a) : i \in 1 .. Len(s) \/ i = Len(s) + 1
  BY <1>1
<1>3. Len(s) + 1 \in 1 .. Len(a) /\ \A i \in 1 .. Len(s) : i \in 1 .. Len(a)
  BY <1>1
<1>4. \A x : x \in IP!ToSet(a) <=> x \in IP!ToSet(s) \/ x = n
  <2>1. \A x : x \in IP!ToSet(s) <=> \E i \in 1 .. Len(s) : s[i] = x
    BY InSequence
  <2>2. \A x : x \in IP!ToSet(a) <=> \E i \in 1 .. Len(a) : a[i] = x
    BY <1>1, InSequence
  <2> QED
    BY <1>1, <1>2, <1>3, <2>1, <2>2
<1> QED
  BY <1>4 DEF a

\* Taking one more, passing the first on, and putting it to the end.
LEMMA TakeOne ==
    ASSUME SendTypes, EachOnce, taken' = taken + 1, queue' = Append(queue, taken + 1),
           UNCHANGED <<passed, failed>>
    PROVE  EachOnce' /\ taken' \in Nat /\ queue' \in Seq(Nat)
<1>1. /\ queue \in Seq(Nat) /\ passed \in Seq(Nat) /\ taken \in Nat /\ Len(queue) \in Nat /\ Len(passed) \in Nat
  BY LenProperties DEF SendTypes
<1>2. /\ queue' \in Seq(Nat) /\ Len(queue') = Len(queue) + 1 /\ queue'[Len(queue) + 1] = taken + 1
      /\ \A i \in 1 .. Len(queue) : queue'[i] = queue[i]
  BY <1>1, AppendProperties
<1>3. IP!ToSet(queue') = IP!ToSet(queue) \cup {taken + 1}
  BY <1>1, <1>2, AppendSet
<1>4. 1 .. taken + 1 = (1 .. taken) \cup {taken + 1}
  BY <1>1
<1>5. ASSUME ~failed, NEW i \in 1 .. Len(queue') PROVE queue'[i] = Len(passed) + i
  <2>1. Len(passed) + Len(queue) = taken /\ \A k \in 1 .. Len(queue) : queue[k] = Len(passed) + k
    BY <1>5 DEF EachOnce
  <2>2. i \in 1 .. Len(queue) \/ i = Len(queue) + 1
    BY <1>1, <1>2
  <2>3. CASE i \in 1 .. Len(queue)
    BY <1>2, <2>1, <2>3
  <2>4. CASE i = Len(queue) + 1
    <3>1. queue'[i] = taken + 1
      BY <1>2, <2>4
    <3>2. Len(passed) + (Len(queue) + 1) = taken + 1
      BY <1>1, <2>1
    <3> QED
      BY <2>4, <3>1, <3>2, Zenon
  <2> QED
    BY <2>2, <2>3, <2>4
<1>6. Len(passed) + Len(queue') = taken + 1
  <2>1. Len(passed) + Len(queue) = taken
    BY DEF EachOnce
  <2> QED
    BY <1>1, <1>2, <2>1
<1>7. IP!ToSet(passed) \cup IP!ToSet(queue') = 1 .. taken + 1
  BY <1>3, <1>4 DEF EachOnce
<1>8. ~failed => \A i \in 1 .. Len(passed) : passed[i] = i
  BY DEF EachOnce
<1>9. taken' = taken + 1 /\ passed' = passed /\ failed' = failed
  OBVIOUS
<1>10. EachOnce'
  <2>1. Len(passed') + Len(queue') = taken'
    BY <1>6, <1>9
  <2>2. IP!ToSet(passed') \cup IP!ToSet(queue') = 1 .. taken'
    BY <1>7, <1>9
  <2>3. ~failed' => \A i \in 1 .. Len(passed') : passed'[i] = i
    BY <1>8, <1>9
  <2>4. ~failed' => \A i \in 1 .. Len(queue') : queue'[i] = Len(passed') + i
    BY <1>5, <1>9
  <2> QED
    BY <2>1, <2>2, <2>3, <2>4, Zenon DEF EachOnce
<1> QED
  BY <1>1, <1>2, <1>10

LEMMA HeadOf ==
    ASSUME SendTypes, queue # <<>>
    PROVE  /\ Len(queue) \in Nat /\ Len(queue) >= 1 /\ queue[1] \in Nat /\ Head(queue) = queue[1]
           /\ Tail(queue) \in Seq(Nat) /\ Len(Tail(queue)) = Len(queue) - 1
           /\ \A i \in 1 .. Len(queue) - 1 : Tail(queue)[i] = queue[i + 1]
           /\ IP!ToSet(queue) = IP!ToSet(Tail(queue)) \cup {Head(queue)}
<1> DEFINE rest0 == Tail(queue)
<1>1. queue \in Seq(Nat)
  BY DEF SendTypes
<1>2. /\ Len(queue) \in Nat /\ Len(queue) >= 1 /\ queue[1] \in Nat /\ Head(queue) = queue[1]
  <2>1. Len(queue) \in Nat /\ Len(queue) # 0 /\ Head(queue) = queue[1]
    BY <1>1, LenProperties, EmptySeq
  <2>2. 1 \in 1 .. Len(queue)
    BY <2>1
  <2> QED
    BY <1>1, <2>1, <2>2, ElementOfSeq
<1>3. /\ rest0 \in Seq(Nat) /\ Len(rest0) = Len(queue) - 1
      /\ \A i \in 1 .. Len(queue) - 1 : rest0[i] = queue[i + 1]
  BY <1>1, HeadTailProperties
<1> HIDE DEF rest0
<1>4. \A i \in 1 .. Len(queue) : i = 1 \/ (i - 1 \in 1 .. Len(rest0) /\ queue[i] = rest0[i - 1])
  BY <1>2, <1>3
<1>6. /\ 1 \in 1 .. Len(queue)
      /\ \A i \in 1 .. Len(rest0) : i + 1 \in 1 .. Len(queue) /\ rest0[i] = queue[i + 1]
  BY <1>2, <1>3
<1>5. IP!ToSet(queue) = IP!ToSet(rest0) \cup {queue[1]}
  <2>1. \A x : x \in IP!ToSet(queue) <=> \E i \in 1 .. Len(queue) : queue[i] = x
    BY <1>1, InSequence
  <2>2. \A x : x \in IP!ToSet(rest0) <=> \E i \in 1 .. Len(rest0) : rest0[i] = x
    BY <1>3, InSequence
  <2>3. \A x : x \in IP!ToSet(queue) <=> x \in IP!ToSet(rest0) \/ x = queue[1]
    BY <1>4, <1>6, <2>1, <2>2
  <2> QED
    BY <2>3
<1> QED
  BY <1>2, <1>3, <1>5 DEF rest0

LEMMA PassOne ==
    ASSUME SendTypes, EachOnce, queue # <<>>, passed' = Append(passed, Head(queue)), queue' = Tail(queue),
           UNCHANGED <<taken, failed>>
    PROVE  EachOnce' /\ passed' \in Seq(Nat) /\ queue' \in Seq(Nat)
<1>1. /\ passed \in Seq(Nat) /\ taken \in Nat /\ Len(passed) \in Nat /\ DOMAIN passed = 1 .. Len(passed)
  BY LenProperties DEF SendTypes
<1>2. /\ Len(queue) \in Nat /\ Len(queue) >= 1 /\ queue[1] \in Nat /\ Head(queue) = queue[1]
      /\ queue' \in Seq(Nat) /\ Len(queue') = Len(queue) - 1
      /\ \A i \in 1 .. Len(queue) - 1 : queue'[i] = queue[i + 1]
      /\ IP!ToSet(queue) = IP!ToSet(queue') \cup {queue[1]}
  BY HeadOf
<1>3. /\ passed' \in Seq(Nat) /\ Len(passed') = Len(passed) + 1 /\ passed'[Len(passed) + 1] = queue[1]
      /\ \A i \in 1 .. Len(passed) : passed'[i] = passed[i]
  BY <1>1, <1>2, AppendProperties
<1>4. IP!ToSet(passed') = IP!ToSet(passed) \cup {queue[1]}
  BY <1>1, <1>2, AppendSet
<1>5. ASSUME ~failed
      PROVE  /\ \A i \in 1 .. Len(passed') : passed'[i] = i
             /\ \A i \in 1 .. Len(queue') : queue'[i] = Len(passed') + i
  <2>1. 1 \in 1 .. Len(queue) /\ queue[1] = Len(passed) + 1
    BY <1>2, <1>5 DEF EachOnce
  <2>2. \A i \in 1 .. Len(passed') : passed'[i] = i
    BY <1>1, <1>3, <1>5, <2>1 DEF EachOnce
  <2>3. ASSUME NEW i \in 1 .. Len(queue') PROVE queue'[i] = Len(passed') + i
    <3>1. i + 1 \in 1 .. Len(queue) /\ queue'[i] = queue[i + 1]
      BY <1>2
    <3>2. queue[i + 1] = Len(passed) + (i + 1)
      BY <1>5, <3>1 DEF EachOnce
    <3> QED
      BY <1>1, <1>3, <3>1, <3>2
  <2> QED
    BY <2>2, <2>3
<1>6. Len(passed') + Len(queue') = taken
  BY <1>1, <1>2, <1>3 DEF EachOnce
<1>7. IP!ToSet(passed') \cup IP!ToSet(queue') = 1 .. taken
  BY <1>2, <1>4 DEF EachOnce
<1> QED
  BY <1>2, <1>3, <1>5, <1>6, <1>7 DEF EachOnce

LEMMA PutBack ==
    ASSUME SendTypes, EachOnce, queue # <<>>, queue' = Append(Tail(queue), Head(queue)), failed' = TRUE,
           UNCHANGED <<taken, passed>>
    PROVE  EachOnce' /\ queue' \in Seq(Nat)
<1> DEFINE rest0 == Tail(queue)
<1>1. /\ Len(queue) \in Nat /\ Len(queue) >= 1 /\ queue[1] \in Nat /\ Head(queue) = queue[1]
      /\ rest0 \in Seq(Nat) /\ Len(rest0) = Len(queue) - 1
      /\ IP!ToSet(queue) = IP!ToSet(rest0) \cup {queue[1]}
  BY HeadOf
<1>2. queue' = Append(rest0, queue[1])
  BY <1>1
<1> HIDE DEF rest0
<1>3. /\ queue' \in Seq(Nat) /\ Len(queue') = Len(rest0) + 1
      /\ IP!ToSet(queue') = IP!ToSet(rest0) \cup {queue[1]}
  <2>1. Append(rest0, queue[1]) \in Seq(Nat) /\ Len(Append(rest0, queue[1])) = Len(rest0) + 1
    BY <1>1, AppendProperties
  <2> QED
    BY <1>1, <1>2, <2>1, AppendSet
<1>4. Len(passed) + Len(queue') = taken /\ IP!ToSet(passed) \cup IP!ToSet(queue') = 1 .. taken
  BY <1>1, <1>3 DEF EachOnce
<1> QED
  BY <1>3, <1>4 DEF EachOnce

LEMMA NextSend == SendInv /\ (IP!Sending \/ UNCHANGED sendVars) => SendInv'
<1> SUFFICES ASSUME SendInv, IP!Sending \/ UNCHANGED sendVars PROVE SendInv'
  OBVIOUS
<1>0. /\ SendTypes /\ LockIsHeld /\ EachOnce
      /\ place \in [SendThread -> {"idle", "push", "look", "lock", "send"}]
      /\ "nobody" \notin SendThread /\ "loop" \in SendThread
      /\ lock \in SendThread \cup {"nobody"} /\ link \in BOOLEAN
      /\ \A t \in SendThread : lock = t <=> place[t] = "send"
  BY SenderAssumption DEF SendInv, SendTypes, LockIsHeld, SendThread
<1>a. link /\ (\A t \in SendThread : place[t] \in {"idle", "push"}) => queue = <<>>
  BY DEF SendInv, IP!QuietIsDrained, IP!Thread, SendThread
<1> DEFINE Drained == link /\ (\A t \in SendThread : place[t] \in {"idle", "push"}) => queue = <<>>
<1>b. ASSUME SendTypes', LockIsHeld', EachOnce', Drained' PROVE SendInv'
  <2>1. IP!QuietIsDrained'
    BY <1>b DEF IP!QuietIsDrained, IP!Thread, SendThread
  <2> QED
    BY <1>b, <2>1 DEF SendInv
<1>c. ASSUME UNCHANGED <<queue, taken, passed, failed>> PROVE EachOnce'
  BY <1>0, <1>c DEF EachOnce
<1>1. ASSUME NEW t \in SendThread, IP!SendCall(t) PROVE SendInv'
  <2>1. /\ place[t] = "idle" /\ place' = [place EXCEPT ![t] = "push"]
        /\ UNCHANGED <<isUp, link, queue, lock, taken, passed, failed, changes>>
    BY <1>1 DEF IP!SendCall
  <2>2. SendTypes' /\ LockIsHeld'
    BY <1>0, <2>1 DEF SendTypes, LockIsHeld
  <2>3. Drained'
    BY <1>0, <1>a, <2>1
  <2> QED
    BY <1>b, <1>c, <2>1, <2>2, <2>3
<1>2. ASSUME NEW t \in SendThread, IP!Push(t) PROVE SendInv'
  <2>1. /\ place[t] = "push" /\ UNCHANGED <<isUp, link, lock, passed, failed>>
        /\ \/ /\ lock = "nobody" /\ taken' = taken + 1 /\ queue' = Append(queue, taken + 1)
              /\ place' = [place EXCEPT ![t] = "look"]
           \/ place' = [place EXCEPT ![t] = "idle"] /\ UNCHANGED <<taken, queue>>
    BY <1>2 DEF IP!Push, IP!Free
  <2>2. CASE place' = [place EXCEPT ![t] = "idle"] /\ UNCHANGED <<taken, queue>>
    <3>1. SendTypes' /\ LockIsHeld'
      BY <1>0, <2>1, <2>2 DEF SendTypes, LockIsHeld
    <3>2. Drained'
      BY <1>0, <1>a, <2>1, <2>2
    <3> QED
      BY <1>b, <1>c, <2>1, <2>2, <3>1, <3>2
  <2>3. CASE taken' = taken + 1 /\ queue' = Append(queue, taken + 1) /\ place' = [place EXCEPT ![t] = "look"]
    <3>1. EachOnce' /\ taken' \in Nat /\ queue' \in Seq(Nat)
      BY <1>0, <2>1, <2>3, TakeOne
    <3>2. SendTypes' /\ LockIsHeld'
      BY <1>0, <2>1, <2>3, <3>1 DEF SendTypes, LockIsHeld
    <3>3. Drained'
      BY <1>0, <2>3
    <3> QED
      BY <1>b, <3>1, <3>2, <3>3
  <2> QED
    BY <2>1, <2>2, <2>3
<1>3. ASSUME NEW t \in SendThread, IP!Look(t) PROVE SendInv'
  <2>1. /\ place[t] = "look" /\ place' = [place EXCEPT ![t] = IF link THEN "lock" ELSE "idle"]
        /\ UNCHANGED <<isUp, link, queue, lock, taken, passed, failed, changes>>
    BY <1>3 DEF IP!Look
  <2>2. SendTypes' /\ LockIsHeld'
    BY <1>0, <2>1 DEF SendTypes, LockIsHeld
  <2>3. Drained'
    BY <1>0, <2>1
  <2> QED
    BY <1>b, <1>c, <2>1, <2>2, <2>3
<1>4. ASSUME NEW t \in SendThread, IP!TakeLock(t) PROVE SendInv'
  <2>1. /\ place[t] = "lock" /\ UNCHANGED <<isUp, link, queue, taken, passed, failed, changes>>
        /\ \/ lock = "nobody" /\ lock' = t /\ place' = [place EXCEPT ![t] = "send"]
           \/ lock # "nobody" /\ lock' = lock /\ place' = [place EXCEPT ![t] = "idle"]
    BY <1>4 DEF IP!TakeLock, IP!Free
  <2>2. SendTypes'
    BY <1>0, <2>1 DEF SendTypes
  <2>3. LockIsHeld'
    BY <1>0, <2>1 DEF LockIsHeld
  <2>4. Drained'
    BY <1>0, <2>1
  <2> QED
    BY <1>b, <1>c, <2>1, <2>2, <2>3, <2>4
<1>5. ASSUME NEW t \in SendThread, IP!SendQueue(t) PROVE SendInv'
  <2>1. /\ place[t] = "send" /\ UNCHANGED <<isUp, link, taken>>
        /\ \/ /\ queue # <<>> /\ passed' = Append(passed, Head(queue)) /\ queue' = Tail(queue)
              /\ UNCHANGED <<failed, lock, place>>
           \/ /\ queue # <<>> /\ queue' = Append(Tail(queue), Head(queue)) /\ failed' = TRUE
              /\ UNCHANGED <<passed, lock, place>>
           \/ /\ queue = <<>> /\ lock' = "nobody" /\ place' = [place EXCEPT ![t] = "idle"]
              /\ UNCHANGED <<queue, passed, failed>>
    BY <1>5 DEF IP!SendQueue, IP!Free
  <2>2. CASE queue # <<>> /\ UNCHANGED <<lock, place>>
    <3>1. EachOnce' /\ passed' \in Seq(Nat) /\ queue' \in Seq(Nat) /\ failed' \in BOOLEAN
      <4>1. CASE passed' = Append(passed, Head(queue)) /\ queue' = Tail(queue) /\ failed' = failed
        BY <1>0, <2>1, <2>2, <4>1, PassOne DEF SendTypes
      <4>2. CASE queue' = Append(Tail(queue), Head(queue)) /\ failed' = TRUE /\ passed' = passed
        BY <1>0, <2>1, <2>2, <4>2, PutBack DEF SendTypes
      <4> QED
        BY <2>1, <2>2, <4>1, <4>2
    <3>2. SendTypes' /\ LockIsHeld'
      BY <1>0, <2>1, <2>2, <3>1 DEF SendTypes, LockIsHeld
    <3>3. Drained'
      BY <1>0, <2>1, <2>2
    <3> QED
      BY <1>b, <3>1, <3>2, <3>3
  <2>3. CASE queue = <<>> /\ lock' = "nobody" /\ place' = [place EXCEPT ![t] = "idle"]
             /\ UNCHANGED <<queue, passed, failed>>
    <3>1. SendTypes' /\ LockIsHeld'
      BY <1>0, <2>1, <2>3 DEF SendTypes, LockIsHeld
    <3> QED
      BY <1>b, <1>c, <2>1, <2>3, <3>1
  <2> QED
    BY <2>1, <2>2, <2>3
<1>6. ASSUME IP!CheckLink PROVE SendInv'
  <2>1. /\ place["loop"] = "idle" /\ link' = isUp
        /\ place' = IF isUp THEN [place EXCEPT !["loop"] = "lock"] ELSE place
        /\ UNCHANGED <<isUp, queue, lock, taken, passed, failed, changes>>
    BY <1>6 DEF IP!CheckLink
  <2>2. SendTypes' /\ LockIsHeld'
    BY <1>0, <2>1 DEF SendTypes, LockIsHeld
  <2>3. Drained'
    BY <1>0, <2>1
  <2> QED
    BY <1>b, <1>c, <2>1, <2>2, <2>3
<1>7. ASSUME IP!LinkChanges PROVE SendInv'
  <2>1. isUp' = ~isUp /\ UNCHANGED <<link, queue, lock, taken, passed, failed, place>>
    BY <1>7 DEF IP!LinkChanges
  <2>2. SendTypes' /\ LockIsHeld'
    BY <1>0, <2>1 DEF SendTypes, LockIsHeld
  <2>3. Drained'
    BY <1>a, <2>1
  <2> QED
    BY <1>b, <1>c, <2>1, <2>2, <2>3
<1>8. CASE UNCHANGED sendVars
  <2>1. UNCHANGED <<isUp, link, queue, lock, taken, passed, failed, place>>
    BY <1>8 DEF sendVars
  <2>2. SendTypes' /\ LockIsHeld'
    BY <1>0, <2>1 DEF SendTypes, LockIsHeld
  <2>3. Drained'
    BY <1>a, <2>1
  <2> QED
    BY <1>b, <1>c, <2>1, <2>2, <2>3
<1> QED
  BY <1>1, <1>2, <1>3, <1>4, <1>5, <1>6, <1>7, <1>8 DEF IP!Sending, IP!Thread, SendThread

LEMMA SendIs == SendInv => IP!DatagramsKept /\ IP!QuietIsDrained
<1> SUFFICES ASSUME SendInv PROVE IP!DatagramsKept
  BY DEF SendInv
<1> DEFINE all == passed \o queue
<1>1. /\ queue \in Seq(Nat) /\ passed \in Seq(Nat) /\ taken \in Nat /\ EachOnce
      /\ Len(queue) \in Nat /\ Len(passed) \in Nat
      /\ DOMAIN queue = 1 .. Len(queue) /\ DOMAIN passed = 1 .. Len(passed)
  BY LenProperties DEF SendInv, SendTypes
<1>2. /\ all \in Seq(Nat) /\ Len(all) = Len(passed) + Len(queue)
      /\ \A i \in 1 .. Len(passed) + Len(queue) :
            all[i] = IF i <= Len(passed) THEN passed[i] ELSE queue[i - Len(passed)]
  BY <1>1, ConcatProperties
<1> HIDE DEF all
<1>3. DOMAIN all = 1 .. taken /\ Len(all) = taken
  BY <1>1, <1>2, LenProperties DEF EachOnce
<1>4. IP!ToSet(all) = IP!ToSet(passed) \cup IP!ToSet(queue)
  <2>1. \A i \in 1 .. Len(all) : \/ i \in 1 .. Len(passed) /\ all[i] = passed[i]
                                 \/ i - Len(passed) \in 1 .. Len(queue) /\ all[i] = queue[i - Len(passed)]
    BY <1>1, <1>2
  <2>2. \A i \in 1 .. Len(passed) : i \in 1 .. Len(all) /\ all[i] = passed[i]
    BY <1>1, <1>2
  <2>3. ASSUME NEW i \in 1 .. Len(queue) PROVE i + Len(passed) \in 1 .. Len(all) /\ all[i + Len(passed)] = queue[i]
    <3>1. i + Len(passed) \in 1 .. Len(passed) + Len(queue) /\ ~(i + Len(passed) <= Len(passed))
          /\ (i + Len(passed)) - Len(passed) = i
      BY <1>1
    <3> QED
      BY <1>1, <1>2, <3>1
  <2>4. /\ \A x : x \in IP!ToSet(all) <=> \E i \in 1 .. Len(all) : all[i] = x
        /\ \A x : x \in IP!ToSet(passed) <=> \E i \in 1 .. Len(passed) : passed[i] = x
        /\ \A x : x \in IP!ToSet(queue) <=> \E i \in 1 .. Len(queue) : queue[i] = x
    BY <1>1, <1>2, InSequence
  <2>5. \A x : x \in IP!ToSet(all) <=> x \in IP!ToSet(passed) \/ x \in IP!ToSet(queue)
    BY <2>1, <2>2, <2>3, <2>4
  <2> QED
    BY <2>5
<1>5. ASSUME ~failed PROVE all = [i \in 1 .. taken |-> i]
  <2>1. /\ Len(passed) + Len(queue) = taken /\ \A i \in 1 .. Len(passed) : passed[i] = i
        /\ \A i \in 1 .. Len(queue) : queue[i] = Len(passed) + i
    BY <1>1, <1>5 DEF EachOnce
  <2>2. ASSUME NEW i \in 1 .. taken PROVE all[i] = i
    <3>1. CASE i \in 1 .. Len(passed)
      BY <1>1, <1>2, <2>1, <3>1
    <3>2. CASE i \notin 1 .. Len(passed)
      <4>1. i - Len(passed) \in 1 .. Len(queue) /\ ~(i <= Len(passed)) /\ i \in 1 .. Len(passed) + Len(queue)
        BY <1>1, <2>1, <3>2
      <4>2. all[i] = queue[i - Len(passed)]
        BY <1>2, <4>1
      <4> QED
        BY <1>1, <2>1, <4>1, <4>2
    <3> QED
      BY <3>1, <3>2
  <2>3. all = [i \in 1 .. taken |-> all[i]]
    BY <1>2, <1>3
  <2> QED
    BY <2>2, <2>3
<1>6. IP!ToSet(all) = 1 .. taken
  BY <1>1, <1>4 DEF EachOnce
<1> QED
  BY <1>3, <1>5, <1>6 DEF IP!DatagramsKept, all, IP!ToSet
-----------------------------------------------------------------------------
(* IpInterface: what comes in.                                                     *)

FromRemote(r) == {r} \X Nat \X Nat

\* A piece of an earlier bundle, or an earlier piece of the same.
Earlier(x, y) == x[2] < y[2] \/ (x[2] = y[2] /\ x[3] < y[3])

Ascending(q) == \A j, k \in 1 .. Len(q) : j < k => Earlier(q[j], q[k])

AllEarlier(q, s) == \A j \in 1 .. Len(q), k \in 1 .. Len(s) : Earlier(q[j], s[k])

BundlesInOrder(R) ==
    \A i, j \in 1 .. Len(R) : \A p \in 1 .. Len(R[i]), q \in 1 .. Len(R[j]) :
        i < j \/ (i = j /\ p < q) => Earlier(R[i][p], R[j][q])

BundlesEarlier(R, s) ==
    \A i \in 1 .. Len(R) : \A p \in 1 .. Len(R[i]), k \in 1 .. Len(s) : Earlier(R[i][p], s[k])

\* What was received, what is kept and what is to come of a remote are its pieces, in its order.
OwnPieces(r, R, B, S) ==
    /\ R \in Seq(Seq(FromRemote(r))) /\ B \in Seq(FromRemote(r)) /\ S \in Seq(FromRemote(r))
    /\ BundlesInOrder(R) /\ BundlesEarlier(R, B) /\ BundlesEarlier(R, S)
    /\ Ascending(B) /\ AllEarlier(B, S) /\ Ascending(S)

\* If none was lost they are all its pieces, one after the other.
AllPieces(r, R, B, S) ==
    /\ \A i \in 1 .. Len(R) : R[i] = IP!Bundle(r, i)
    /\ \A j \in 1 .. Len(B) : B[j] = IP!Piece(r, Len(R) * Pieces + j)
    /\ \A k \in 1 .. Len(S) : S[k] = IP!Piece(r, (Len(R) * Pieces + Len(B)) + k)

ReceiveInv ==
    /\ DOMAIN received = Remote /\ DOMAIN buffer = Remote /\ DOMAIN stream = Remote
    /\ \A r \in Remote :
          /\ OwnPieces(r, received[r], buffer[r], stream[r])
          /\ r \notin lost => AllPieces(r, received[r], buffer[r], stream[r])

LEMMA MoreMultiples ==
    ASSUME NEW a \in Nat, NEW b \in Nat, a < b
    PROVE  /\ a * Pieces \in Nat /\ b * Pieces \in Nat
           /\ a * Pieces + Pieces <= b * Pieces
<1>1. Pieces \in Nat
  BY PiecesAssumption
<1>2. PICK c \in Nat : b = (a + 1) + c
  <2>1. b - (a + 1) \in Nat /\ b = (a + 1) + (b - (a + 1))
    OBVIOUS
  <2> QED
    BY <2>1
<1>3. b * Pieces = (a * Pieces + Pieces) + c * Pieces
  BY <1>1, <1>2
<1>4. a * Pieces \in Nat /\ b * Pieces \in Nat /\ c * Pieces \in Nat
  BY <1>1
<1> QED
  BY <1>1, <1>3, <1>4

\* Which bundle a piece is of, and which place it has there.
LEMMA PieceIs ==
    ASSUME NEW r, NEW k \in Nat, k >= 1
    PROVE  \E b \in Nat, p \in 1 .. Pieces :
              b >= 1 /\ k = (b - 1) * Pieces + p /\ IP!Piece(r, k) = <<r, b, p>>
<1> DEFINE d == (k - 1) \div Pieces
<1> DEFINE m == (k - 1) % Pieces
<1>1. Pieces \in Nat /\ Pieces > 0 /\ k - 1 \in Nat
  BY PiecesAssumption
<1>2. d \in Nat /\ m \in 0 .. Pieces - 1 /\ k - 1 = Pieces * d + m
  BY <1>1
<1>3. IP!Piece(r, k) = <<r, d + 1, m + 1>>
  BY DEF IP!Piece
<1> HIDE DEF d, m
<1>4. /\ d + 1 \in Nat /\ m + 1 \in 1 .. Pieces /\ d + 1 >= 1 /\ (d + 1) - 1 = d
      /\ k = d * Pieces + (m + 1)
  BY <1>1, <1>2
<1> QED
  BY <1>3, <1>4

LEMMA PieceOf ==
    ASSUME NEW r, NEW b \in Nat, b >= 1, NEW p \in 1 .. Pieces
    PROVE  IP!Piece(r, (b - 1) * Pieces + p) = <<r, b, p>>
<1> DEFINE k == (b - 1) * Pieces + p
<1>1. Pieces \in Nat /\ b - 1 \in Nat /\ (b - 1) * Pieces \in Nat /\ p \in Nat /\ p >= 1 /\ p <= Pieces
  BY PiecesAssumption
<1>2. k \in Nat /\ k >= 1
  BY <1>1
<1>3. PICK c \in Nat, q \in 1 .. Pieces : c >= 1 /\ k = (c - 1) * Pieces + q /\ IP!Piece(r, k) = <<r, c, q>>
  BY <1>2, PieceIs
<1>4. c - 1 \in Nat /\ (c - 1) * Pieces \in Nat /\ q \in Nat /\ q >= 1 /\ q <= Pieces
  BY <1>1, <1>3
<1>5. ASSUME c < b PROVE FALSE
  <2>1. (c - 1) * Pieces + Pieces <= (b - 1) * Pieces
    BY <1>1, <1>4, <1>5, MoreMultiples
  <2> QED
    BY <1>1, <1>3, <1>4, <2>1
<1>6. ASSUME b < c PROVE FALSE
  <2>1. (b - 1) * Pieces + Pieces <= (c - 1) * Pieces
    BY <1>1, <1>4, <1>6, MoreMultiples
  <2> QED
    BY <1>1, <1>3, <1>4, <2>1
<1>7. b = c
  BY <1>5, <1>6
<1>8. p = q
  BY <1>1, <1>3, <1>4, <1>7
<1> QED
  BY <1>3, <1>7, <1>8

LEMMA PiecesInOrder ==
    ASSUME NEW r, NEW j \in Nat, NEW k \in Nat, 1 <= j, j < k
    PROVE  Earlier(IP!Piece(r, j), IP!Piece(r, k))
<1>1. PICK b \in Nat, p \in 1 .. Pieces : b >= 1 /\ j = (b - 1) * Pieces + p /\ IP!Piece(r, j) = <<r, b, p>>
  BY PieceIs
<1>2. PICK c \in Nat, q \in 1 .. Pieces : c >= 1 /\ k = (c - 1) * Pieces + q /\ IP!Piece(r, k) = <<r, c, q>>
  BY PieceIs
<1>3. /\ Pieces \in Nat /\ b - 1 \in Nat /\ (b - 1) * Pieces \in Nat /\ p \in Nat /\ p >= 1 /\ p <= Pieces
      /\ c - 1 \in Nat /\ (c - 1) * Pieces \in Nat /\ q \in Nat /\ q >= 1 /\ q <= Pieces
  BY <1>1, <1>2, PiecesAssumption
<1>4. ASSUME c < b PROVE FALSE
  <2>1. (c - 1) * Pieces + Pieces <= (b - 1) * Pieces
    BY <1>3, <1>4, MoreMultiples
  <2> QED
    BY <1>1, <1>2, <1>3, <2>1
<1>5. b < c \/ (b = c /\ p < q)
  BY <1>1, <1>2, <1>3, <1>4
<1> QED
  BY <1>1, <1>2, <1>5 DEF Earlier

LEMMA InitReceive == IP!Init => ReceiveInv
<1> SUFFICES ASSUME IP!Init PROVE ReceiveInv
  OBVIOUS
<1>1. /\ stream = [r \in Remote |-> [k \in 1 .. MaxBundles * Pieces |-> IP!Piece(r, k)]]
      /\ buffer = [r \in Remote |-> <<>>] /\ received = [r \in Remote |-> <<>>]
  BY DEF IP!Init
<1>2. ASSUME NEW r \in Remote
      PROVE  OwnPieces(r, received[r], buffer[r], stream[r]) /\ AllPieces(r, received[r], buffer[r], stream[r])
  <2> DEFINE S == stream[r]
  <2> DEFINE n == MaxBundles * Pieces
  <2>1. n \in Nat
    BY PiecesAssumption
  <2>2. S = [k \in 1 .. n |-> IP!Piece(r, k)]
    BY <1>1
  <2> HIDE DEF n, S
  <2>3. \A k \in 1 .. n : IP!Piece(r, k) \in FromRemote(r)
    <3> SUFFICES ASSUME NEW k \in 1 .. n PROVE IP!Piece(r, k) \in FromRemote(r)
      OBVIOUS
    <3>1. PICK b \in Nat, p \in 1 .. Pieces : IP!Piece(r, k) = <<r, b, p>>
      BY <2>1, PieceIs
    <3>2. p \in Nat
      BY PiecesAssumption
    <3> QED
      BY <3>1, <3>2 DEF FromRemote
  <2>4. S \in Seq(FromRemote(r)) /\ Len(S) = n /\ \A k \in 1 .. n : S[k] = IP!Piece(r, k)
    BY <2>1, <2>2, <2>3, IsASeq
  <2>5. Ascending(S)
    BY <2>1, <2>4, PiecesInOrder DEF Ascending
  <2>6. received[r] = <<>> /\ buffer[r] = <<>>
    BY <1>1
  <2>7. Len(<<>>) = 0 /\ <<>> \in Seq(FromRemote(r)) /\ <<>> \in Seq(Seq(FromRemote(r)))
    BY EmptySeq
  <2>8. OwnPieces(r, <<>>, <<>>, S)
    BY <2>4, <2>5, <2>7 DEF OwnPieces, BundlesInOrder, BundlesEarlier, Ascending, AllEarlier
  <2>9. AllPieces(r, <<>>, <<>>, S)
    <3>1. Pieces \in Nat
      BY PiecesAssumption
    <3>2. \A k \in 1 .. Len(S) : (0 * Pieces + 0) + k = k
      BY <2>1, <2>4, <3>1
    <3> QED
      BY <2>4, <2>7, <3>2 DEF AllPieces
  <2> QED
    BY <2>6, <2>8, <2>9 DEF S
<1> QED
  BY <1>1, <1>2 DEF ReceiveInv

\* What is put behind what was kept.
LEMMA PutBehindIs ==
    ASSUME NEW r, NEW R, NEW B, NEW S, OwnPieces(r, R, B, S), NEW n \in Nat, 1 <= n, n <= Len(S)
    PROVE  LET out == B \o SubSeq(S, 1, n)
               later == SubSeq(S, n + 1, Len(S))
           IN  /\ OwnPieces(r, R, out, later) /\ OwnPieces(r, R, B, later)
               /\ AllPieces(r, R, B, S) => AllPieces(r, R, out, later)
<1> DEFINE new == SubSeq(S, 1, n)
<1> DEFINE out == B \o new
<1> DEFINE later == SubSeq(S, n + 1, Len(S))
<1>1. /\ R \in Seq(Seq(FromRemote(r))) /\ B \in Seq(FromRemote(r)) /\ S \in Seq(FromRemote(r)) /\ Len(B) \in Nat /\ Len(S) \in Nat
      /\ BundlesInOrder(R) /\ BundlesEarlier(R, B) /\ BundlesEarlier(R, S)
      /\ Ascending(B) /\ AllEarlier(B, S) /\ Ascending(S)
  BY LenProperties DEF OwnPieces
<1>2. /\ new \in Seq(FromRemote(r)) /\ Len(new) = n
      /\ \A k \in 1 .. n : k \in 1 .. Len(S) /\ new[k] = S[k]
  <2>1. \A k \in 1 .. n : k \in 1 .. Len(S) /\ S[k] \in FromRemote(r)
    BY <1>1, ElementOfSeq
  <2> QED
    BY <1>1, <2>1, SubSeqProperties
<1>3. /\ later \in Seq(FromRemote(r)) /\ Len(later) = Len(S) - n
      /\ \A k \in 1 .. Len(S) - n : n + k \in 1 .. Len(S) /\ later[k] = S[n + k]
  <2>1. \A k \in n + 1 .. Len(S) : k \in 1 .. Len(S) /\ S[k] \in FromRemote(r)
    BY <1>1, ElementOfSeq
  <2>2. /\ later \in Seq(FromRemote(r)) /\ Len(later) = IF n + 1 <= Len(S) THEN Len(S) - (n + 1) + 1 ELSE 0
        /\ \A k \in 1 .. Len(S) - (n + 1) + 1 : later[k] = S[(n + 1) + k - 1]
    BY <1>1, <2>1, SubSeqProperties
  <2>3. Len(S) - (n + 1) + 1 = Len(S) - n
    BY <1>1
  <2> HIDE DEF later
  <2>4. \A k \in 1 .. Len(S) - n : (n + 1) + k - 1 = n + k /\ n + k \in 1 .. Len(S)
    BY <1>1
  <2>5. Len(later) = Len(S) - n
    BY <1>1, <2>2
  <2>6. ASSUME NEW k \in 1 .. Len(S) - n PROVE n + k \in 1 .. Len(S) /\ later[k] = S[n + k]
    <3>1. k \in 1 .. Len(S) - (n + 1) + 1
      BY <2>3
    <3> QED
      BY <2>2, <2>4, <3>1
  <2> QED
    BY <2>2, <2>5, <2>6
<1> HIDE DEF new, later
<1>4. /\ out \in Seq(FromRemote(r)) /\ Len(out) = Len(B) + n
      /\ \A m \in 1 .. Len(B) + n : out[m] = IF m <= Len(B) THEN B[m] ELSE new[m - Len(B)]
  BY <1>1, <1>2, ConcatProperties
<1> HIDE DEF out
<1>5. ASSUME NEW m \in 1 .. Len(out)
      PROVE  \/ m \in 1 .. Len(B) /\ out[m] = B[m]
             \/ m - Len(B) \in 1 .. n /\ m - Len(B) \in 1 .. Len(S) /\ out[m] = S[m - Len(B)]
  <2>1. CASE m <= Len(B)
    BY <1>1, <1>4, <2>1
  <2>2. CASE ~(m <= Len(B))
    <3>1. m - Len(B) \in 1 .. n /\ m \in 1 .. Len(B) + n
      BY <1>1, <1>4, <2>2
    <3> QED
      BY <1>2, <1>4, <2>2, <3>1
  <2> QED
    BY <2>1, <2>2
<1>6. Ascending(out)
  <2> SUFFICES ASSUME NEW j \in 1 .. Len(out), NEW k \in 1 .. Len(out), j < k
               PROVE  Earlier(out[j], out[k])
    BY DEF Ascending
  <2>1. j \in Nat /\ k \in Nat
    BY <1>1, <1>4
  <2>2. CASE k \in 1 .. Len(B)
    <3>1. j \in 1 .. Len(B) /\ out[j] = B[j] /\ out[k] = B[k]
      BY <1>1, <1>4, <2>2
    <3> QED
      BY <1>1, <3>1, <2>2 DEF Ascending
  <2>3. CASE k \notin 1 .. Len(B)
    <3>1. k - Len(B) \in 1 .. Len(S) /\ out[k] = S[k - Len(B)]
      BY <1>5, <2>3
    <3>2. CASE j \in 1 .. Len(B) /\ out[j] = B[j]
      BY <1>1, <3>1, <3>2 DEF AllEarlier
    <3>3. CASE j - Len(B) \in 1 .. Len(S) /\ out[j] = S[j - Len(B)]
      <4>1. j - Len(B) < k - Len(B)
        BY <1>1, <2>1
      <4> QED
        BY <1>1, <3>1, <3>3, <4>1 DEF Ascending
    <3> QED
      BY <1>5, <3>2, <3>3
  <2> QED
    BY <2>2, <2>3
<1>7. BundlesEarlier(R, out)
  BY <1>1, <1>5 DEF BundlesEarlier
<1>8. AllEarlier(out, later)
  <2> SUFFICES ASSUME NEW m \in 1 .. Len(out), NEW k \in 1 .. Len(later)
               PROVE  Earlier(out[m], later[k])
    BY DEF AllEarlier
  <2>1. n + k \in 1 .. Len(S) /\ later[k] = S[n + k] /\ k >= 1
    BY <1>3
  <2>2. CASE m \in 1 .. Len(B) /\ out[m] = B[m]
    BY <1>1, <2>1, <2>2 DEF AllEarlier
  <2>3. CASE m - Len(B) \in 1 .. n /\ m - Len(B) \in 1 .. Len(S) /\ out[m] = S[m - Len(B)]
    <3>1. m - Len(B) < n + k
      BY <1>3, <2>1, <2>3
    <3> QED
      BY <1>1, <2>1, <2>3, <3>1 DEF Ascending
  <2> QED
    BY <1>5, <2>2, <2>3
<1>9. /\ BundlesEarlier(R, later) /\ AllEarlier(B, later)
  BY <1>1, <1>3 DEF BundlesEarlier, AllEarlier
<1>10. Ascending(later)
  <2> SUFFICES ASSUME NEW j \in 1 .. Len(later), NEW k \in 1 .. Len(later), j < k
               PROVE  Earlier(later[j], later[k])
    BY DEF Ascending
  <2>1. n + j \in 1 .. Len(S) /\ n + k \in 1 .. Len(S) /\ n + j < n + k
        /\ later[j] = S[n + j] /\ later[k] = S[n + k]
    BY <1>3
  <2> QED
    BY <1>1, <2>1 DEF Ascending
<1>11. OwnPieces(r, R, out, later) /\ OwnPieces(r, R, B, later)
  BY <1>1, <1>3, <1>4, <1>6, <1>7, <1>8, <1>9, <1>10 DEF OwnPieces
<1>12. ASSUME AllPieces(r, R, B, S) PROVE AllPieces(r, R, out, later)
  <2> DEFINE c == Len(R) * Pieces
  <2>1. c \in Nat
    BY <1>1, LenProperties, PiecesAssumption
  <2>2. /\ \A i \in 1 .. Len(R) : R[i] = IP!Bundle(r, i)
        /\ \A j \in 1 .. Len(B) : B[j] = IP!Piece(r, c + j)
        /\ \A k \in 1 .. Len(S) : S[k] = IP!Piece(r, (c + Len(B)) + k)
    BY <1>12 DEF AllPieces
  <2> HIDE DEF c
  <2>3. ASSUME NEW m \in 1 .. Len(out) PROVE out[m] = IP!Piece(r, c + m)
    <3>1. CASE m \in 1 .. Len(B) /\ out[m] = B[m]
      BY <2>2, <3>1
    <3>2. CASE m - Len(B) \in 1 .. Len(S) /\ out[m] = S[m - Len(B)]
      <4>1. (c + Len(B)) + (m - Len(B)) = c + m
        BY <1>1, <1>4, <2>1
      <4> QED
        BY <2>2, <3>2, <4>1
    <3> QED
      BY <1>5, <3>1, <3>2
  <2>4. ASSUME NEW k \in 1 .. Len(later) PROVE later[k] = IP!Piece(r, (c + Len(out)) + k)
    <3>1. n + k \in 1 .. Len(S) /\ later[k] = S[n + k] /\ (c + Len(B)) + (n + k) = (c + Len(out)) + k
      BY <1>1, <1>3, <1>4, <2>1
    <3> QED
      BY <2>2, <3>1
  <2> QED
    BY <2>2, <2>3, <2>4 DEF AllPieces, c
<1> QED
  BY <1>11, <1>12 DEF out, new, later

LEMMA WholeIs ==
    ASSUME NEW S, NEW s \in Seq(S)
    PROVE  /\ Len(s) \in Nat /\ IP!Whole(s) \in Nat /\ IP!Whole(s) * Pieces \in Nat
           /\ IP!Whole(s) * Pieces <= Len(s)
<1> DEFINE d == Len(s) \div Pieces
<1> DEFINE Fits(k) == IP!InPlace(SubSeq(s, 1, k * Pieces))
<1>1. Len(s) \in Nat /\ Pieces \in Nat /\ Pieces > 0
  BY LenProperties, PiecesAssumption
<1>2. d \in Nat /\ d * Pieces \in Nat /\ d * Pieces <= Len(s)
  <2>1. d \in Nat /\ Len(s) % Pieces \in 0 .. Pieces - 1 /\ Len(s) = Pieces * d + (Len(s) % Pieces)
    BY <1>1
  <2> HIDE DEF d
  <2>2. Pieces * d = d * Pieces /\ d * Pieces \in Nat
    BY <1>1, <2>1
  <2> QED
    BY <1>1, <2>1, <2>2
<1>3. Fits(0)
  <2>1. 0 * Pieces = 0
    BY <1>1
  <2>2. SubSeq(s, 1, 0) = <<>>
    BY SubSeqEmpty
  <2>3. DOMAIN (<<>>) = {}
    BY EmptySeq
  <2> QED
    BY <2>1, <2>2, <2>3 DEF IP!InPlace
<1>4. IP!Whole(s) = CHOOSE k \in 0 .. d : Fits(k) /\ \A j \in 0 .. d : Fits(j) => j <= k
  BY DEF IP!Whole
<1> HIDE DEF d, Fits
<1>5. \E k \in 0 .. d : Fits(k) /\ \A j \in 0 .. d : Fits(j) => j <= k
  <2> DEFINE T == {n \in 0 .. d : Fits(d - n)}
  <2>1. T \in SUBSET Nat /\ d \in T
    <3>1. d - d = 0 /\ d \in 0 .. d /\ 0 .. d \subseteq Nat
      BY <1>2
    <3> QED
      BY <1>3, <3>1
  <2>2. PICK n \in T : \A m \in T : n <= m
    BY <2>1, LeastElement
  <2>3. d - n \in 0 .. d /\ Fits(d - n)
    BY <1>2, <2>2
  <2>4. ASSUME NEW j \in 0 .. d, Fits(j) PROVE j <= d - n
    <3>1. d - j \in 0 .. d /\ d - (d - j) = j
      BY <1>2
    <3>2. n <= d - j
      BY <2>2, <2>4, <3>1
    <3> QED
      BY <1>2, <2>2, <3>2
  <2> QED
    BY <2>3, <2>4
<1>6. IP!Whole(s) \in 0 .. d
  BY <1>4, <1>5
<1> DEFINE w == IP!Whole(s)
<1>7. w \in Nat /\ w <= d
  BY <1>2, <1>6
<1> HIDE DEF w
<1>8. w * Pieces \in Nat /\ w * Pieces <= d * Pieces
  <2>1. CASE w = d
    BY <1>2, <2>1
  <2>2. CASE w < d
    <3>1. w * Pieces \in Nat /\ w * Pieces + Pieces <= d * Pieces
      BY <1>2, <1>7, <2>2, MoreMultiples
    <3> QED
      BY <1>1, <1>2, <3>1
  <2> QED
    BY <1>2, <1>7, <2>1, <2>2
<1> QED
  BY <1>1, <1>2, <1>7, <1>8 DEF w

\* The bundles that are cut off the front, and what is left.
LEMMA BundlesAre ==
    ASSUME NEW S, NEW s \in Seq(S)
    PROVE  LET w == IP!Whole(s)
               bs == IP!BundlesOf(s)
               rest0 == IP!RestOf(s)
           IN  /\ bs \in Seq(Seq(S)) /\ Len(bs) = w /\ rest0 \in Seq(S)
               /\ Len(rest0) = Len(s) - w * Pieces
               /\ \A i \in 1 .. w : Len(bs[i]) = Pieces
               /\ \A i \in 1 .. w : \A p \in 1 .. Pieces :
                     (i - 1) * Pieces + p \in 1 .. w * Pieces /\ bs[i][p] = s[(i - 1) * Pieces + p]
               /\ \A k \in 1 .. Len(rest0) :
                     w * Pieces + k \in 1 .. Len(s) /\ rest0[k] = s[w * Pieces + k]
<1> DEFINE w == IP!Whole(s)
<1> DEFINE bs == IP!BundlesOf(s)
<1> DEFINE rest0 == IP!RestOf(s)
<1>1. w \in Nat /\ w * Pieces \in Nat /\ w * Pieces <= Len(s) /\ Len(s) \in Nat
  BY WholeIs
<1>2. Pieces \in Nat /\ Pieces > 0
  BY PiecesAssumption
<1> DEFINE Cut(i) == SubSeq(s, (i - 1) * Pieces + 1, i * Pieces)
<1>3. bs = [i \in 1 .. w |-> Cut(i)] /\ rest0 = SubSeq(s, w * Pieces + 1, Len(s))
  BY DEF IP!BundlesOf, IP!RestOf
<1> HIDE DEF w, bs, rest0
<1>4. ASSUME NEW i \in 1 .. w
      PROVE  /\ Cut(i) \in Seq(S) /\ Len(Cut(i)) = Pieces
             /\ \A p \in 1 .. Pieces :
                   (i - 1) * Pieces + p \in 1 .. w * Pieces /\ Cut(i)[p] = s[(i - 1) * Pieces + p]
  <2> DEFINE a == (i - 1) * Pieces
  <2>1. i - 1 \in Nat /\ i \in Nat /\ i - 1 < w /\ i = (i - 1) + 1
    BY <1>1
  <2>2. a \in Nat /\ a + Pieces <= w * Pieces
    BY <1>1, <2>1, MoreMultiples
  <2>3. i * Pieces = a + Pieces
    BY <1>2, <2>1
  <2> HIDE DEF a
  <2>4. \A k \in a + 1 .. a + Pieces : k \in 1 .. Len(s) /\ s[k] \in S
    <3>1. \A k \in a + 1 .. a + Pieces : k \in 1 .. Len(s)
      BY <1>1, <1>2, <2>2
    <3> QED
      BY <3>1, ElementOfSeq
  <2> DEFINE c == SubSeq(s, a + 1, a + Pieces)
  <2>5. /\ c \in Seq(S) /\ Len(c) = IF a + 1 <= a + Pieces THEN (a + Pieces) - (a + 1) + 1 ELSE 0
        /\ \A p \in 1 .. (a + Pieces) - (a + 1) + 1 : c[p] = s[(a + 1) + p - 1]
    BY <1>2, <2>2, <2>4, SubSeqProperties
  <2>6. Cut(i) = c
    BY <2>3 DEF a
  <2> HIDE DEF c, Cut
  <2>7. (a + Pieces) - (a + 1) + 1 = Pieces /\ a + 1 <= a + Pieces
    BY <1>2, <2>2
  <2>8. ASSUME NEW p \in 1 .. Pieces PROVE a + p \in 1 .. w * Pieces /\ c[p] = s[a + p]
    <3>1. (a + 1) + p - 1 = a + p /\ a + p \in 1 .. w * Pieces
      BY <1>1, <1>2, <2>2
    <3> QED
      BY <2>5, <2>7, <3>1
  <2>9. Len(c) = Pieces
    BY <2>5, <2>7
  <2> QED
    BY <2>5, <2>6, <2>8, <2>9 DEF a
<1>5. /\ bs \in Seq(Seq(S)) /\ Len(bs) = w /\ \A i \in 1 .. w : bs[i] = Cut(i)
  <2>1. \A i \in 1 .. w : Cut(i) \in Seq(S)
    BY <1>4
  <2> HIDE DEF Cut
  <2> QED
    BY <1>1, <1>3, <2>1, IsASeq
<1>6. /\ rest0 \in Seq(S) /\ Len(rest0) = Len(s) - w * Pieces
      /\ \A k \in 1 .. Len(rest0) : w * Pieces + k \in 1 .. Len(s) /\ rest0[k] = s[w * Pieces + k]
  <2> DEFINE a == w * Pieces
  <2>1. a \in Nat /\ a <= Len(s)
    BY <1>1
  <2> HIDE DEF a
  <2>2. \A k \in a + 1 .. Len(s) : k \in 1 .. Len(s) /\ s[k] \in S
    BY <1>1, <2>1, ElementOfSeq
  <2>3. rest0 = SubSeq(s, a + 1, Len(s))
    BY <1>3 DEF a
  <2>4. /\ rest0 \in Seq(S) /\ Len(rest0) = IF a + 1 <= Len(s) THEN Len(s) - (a + 1) + 1 ELSE 0
        /\ \A k \in 1 .. Len(s) - (a + 1) + 1 : rest0[k] = s[(a + 1) + k - 1]
    BY <1>1, <2>1, <2>2, <2>3, SubSeqProperties
  <2>5. ASSUME NEW k \in 1 .. Len(rest0) PROVE a + k \in 1 .. Len(s) /\ rest0[k] = s[a + k]
    <3>1. a + 1 <= Len(s) /\ k \in 1 .. Len(s) - (a + 1) + 1
      BY <1>1, <2>1, <2>4
    <3>2. (a + 1) + k - 1 = a + k /\ a + k \in 1 .. Len(s)
      BY <1>1, <2>1, <3>1
    <3> QED
      BY <2>4, <3>1, <3>2
  <2>6. Len(rest0) = Len(s) - a
    BY <1>1, <2>1, <2>4
  <2> QED
    BY <2>4, <2>5, <2>6 DEF a
<1> HIDE DEF Cut
<1>7. \A i \in 1 .. w : Len(bs[i]) = Pieces
  BY <1>4, <1>5
<1>8. \A i \in 1 .. w : \A p \in 1 .. Pieces :
         (i - 1) * Pieces + p \in 1 .. w * Pieces /\ bs[i][p] = s[(i - 1) * Pieces + p]
  BY <1>4, <1>5
<1> QED
  BY <1>5, <1>6, <1>7, <1>8 DEF w, bs, rest0

\* The bundles that are cut off are put behind those that came before, and what is left is kept or not.
LEMMA CutIs ==
    ASSUME NEW r, NEW R, NEW B, NEW S, OwnPieces(r, R, B, S)
    PROVE  LET more == R \o IP!BundlesOf(B)
               rest0 == IP!RestOf(B)
           IN  /\ OwnPieces(r, more, rest0, S) /\ OwnPieces(r, more, <<>>, S)
               /\ AllPieces(r, R, B, S) => AllPieces(r, more, rest0, S)
<1> DEFINE w == IP!Whole(B)
<1> DEFINE bs == IP!BundlesOf(B)
<1> DEFINE rest0 == IP!RestOf(B)
<1> DEFINE more == R \o bs
<1>1. /\ R \in Seq(Seq(FromRemote(r))) /\ B \in Seq(FromRemote(r)) /\ S \in Seq(FromRemote(r))
      /\ Len(R) \in Nat /\ Len(B) \in Nat /\ Len(S) \in Nat
      /\ BundlesInOrder(R) /\ BundlesEarlier(R, B) /\ BundlesEarlier(R, S)
      /\ Ascending(B) /\ AllEarlier(B, S) /\ Ascending(S)
  BY LenProperties DEF OwnPieces
<1>2. Pieces \in Nat /\ Pieces > 0 /\ w \in Nat /\ w * Pieces \in Nat /\ w * Pieces <= Len(B)
  BY <1>1, WholeIs, PiecesAssumption
<1>3. /\ bs \in Seq(Seq(FromRemote(r))) /\ Len(bs) = w /\ rest0 \in Seq(FromRemote(r))
      /\ Len(rest0) = Len(B) - w * Pieces
      /\ \A i \in 1 .. w : Len(bs[i]) = Pieces
      /\ \A i \in 1 .. w : \A p \in 1 .. Pieces :
            (i - 1) * Pieces + p \in 1 .. w * Pieces /\ bs[i][p] = B[(i - 1) * Pieces + p]
      /\ \A k \in 1 .. Len(rest0) :
            w * Pieces + k \in 1 .. Len(B) /\ rest0[k] = B[w * Pieces + k]
  BY <1>1, BundlesAre
<1> HIDE DEF w, bs, rest0
<1>4. /\ more \in Seq(Seq(FromRemote(r))) /\ Len(more) = Len(R) + w
      /\ \A i \in 1 .. Len(R) + w : more[i] = IF i <= Len(R) THEN R[i] ELSE bs[i - Len(R)]
  <2>1. R \in Seq(Seq(FromRemote(r))) /\ bs \in Seq(Seq(FromRemote(r))) /\ Len(bs) = w
    BY <1>1, <1>3
  <2> QED
    BY <2>1, ConcatProperties
<1> HIDE DEF more
\* A bundle is an old one, or its pieces were kept.
<1>5. ASSUME NEW i \in 1 .. Len(more)
      PROVE  \/ i \in 1 .. Len(R) /\ more[i] = R[i]
             \/ /\ i \notin 1 .. Len(R) /\ i - Len(R) \in 1 .. w /\ Len(more[i]) = Pieces
                /\ more[i] = bs[i - Len(R)]
                /\ \A p \in 1 .. Pieces : /\ ((i - Len(R)) - 1) * Pieces + p \in 1 .. w * Pieces
                                          /\ more[i][p] = B[((i - Len(R)) - 1) * Pieces + p]
  <2>1. i \in 1 .. Len(R) + w /\ i \in Nat
    BY <1>1, <1>2, <1>4
  <2>2. CASE i <= Len(R)
    <3>1. i \in 1 .. Len(R)
      BY <1>1, <2>1, <2>2
    <3>2. more[i] = R[i]
      BY <1>4, <2>1, <2>2
    <3> QED
      BY <3>1, <3>2
  <2>3. CASE ~(i <= Len(R))
    <3>1. i - Len(R) \in 1 .. w /\ i \notin 1 .. Len(R)
      BY <1>1, <1>2, <2>1, <2>3
    <3>2. more[i] = bs[i - Len(R)]
      BY <1>4, <2>1, <2>3
    <3>3. Len(bs[i - Len(R)]) = Pieces
      BY <1>3, <3>1
    <3>4. \A p \in 1 .. Pieces : /\ ((i - Len(R)) - 1) * Pieces + p \in 1 .. w * Pieces
                                 /\ bs[i - Len(R)][p] = B[((i - Len(R)) - 1) * Pieces + p]
      BY <1>3, <3>1
    <3> QED
      BY <3>1, <3>2, <3>3, <3>4
  <2> QED
    BY <2>2, <2>3
\* So each of its pieces is before all that is left, and before all that is to come.
<1>6. ASSUME NEW i \in 1 .. Len(more), NEW p \in 1 .. Len(more[i]), i \notin 1 .. Len(R)
      PROVE  \E m \in 1 .. w * Pieces : m \in 1 .. Len(B) /\ more[i][p] = B[m]
  <2>1. p \in 1 .. Pieces
    BY <1>5, <1>6
  <2>2. PICK m \in 1 .. w * Pieces : more[i][p] = B[m]
    BY <1>5, <1>6, <2>1
  <2>3. m \in 1 .. Len(B)
    BY <1>1, <1>2
  <2> QED
    BY <2>2, <2>3
<1>7. BundlesEarlier(more, S)
  <2> SUFFICES ASSUME NEW i \in 1 .. Len(more), NEW p \in 1 .. Len(more[i]), NEW k \in 1 .. Len(S)
               PROVE  Earlier(more[i][p], S[k])
    BY DEF BundlesEarlier
  <2>1. CASE i \in 1 .. Len(R) /\ more[i] = R[i]
    BY <1>1, <2>1 DEF BundlesEarlier
  <2>2. CASE i \notin 1 .. Len(R)
    BY <1>1, <1>6, <2>2 DEF AllEarlier
  <2> QED
    BY <1>5, <2>1, <2>2
<1>8. BundlesEarlier(more, rest0)
  <2> SUFFICES ASSUME NEW i \in 1 .. Len(more), NEW p \in 1 .. Len(more[i]), NEW k \in 1 .. Len(rest0)
               PROVE  Earlier(more[i][p], rest0[k])
    BY DEF BundlesEarlier
  <2>0. w * Pieces + k \in 1 .. Len(B) /\ rest0[k] = B[w * Pieces + k]
    BY <1>3
  <2>1. CASE i \in 1 .. Len(R) /\ more[i] = R[i]
    BY <1>1, <2>0, <2>1 DEF BundlesEarlier
  <2>2. CASE i \notin 1 .. Len(R)
    <3>1. PICK m \in 1 .. w * Pieces : m \in 1 .. Len(B) /\ more[i][p] = B[m]
      BY <1>6, <2>2
    <3>2. m < w * Pieces + k
      BY <1>2, <1>3
    <3> QED
      BY <1>1, <2>0, <3>1, <3>2 DEF Ascending
  <2> QED
    BY <1>5, <2>1, <2>2
<1>9. BundlesInOrder(more)
  <2> SUFFICES ASSUME NEW i \in 1 .. Len(more), NEW j \in 1 .. Len(more),
                      NEW p \in 1 .. Len(more[i]), NEW q \in 1 .. Len(more[j]),
                      i < j \/ (i = j /\ p < q)
               PROVE  Earlier(more[i][p], more[j][q])
    BY DEF BundlesInOrder
  <2>0. i \in Nat /\ j \in Nat
    BY <1>1, <1>2, <1>4
  <2>1. CASE j \in 1 .. Len(R) /\ more[j] = R[j]
    <3>1. i \in 1 .. Len(R)
      BY <1>1, <2>0, <2>1
    <3>2. more[i] = R[i]
      BY <1>5, <3>1
    <3> QED
      BY <1>1, <2>1, <3>1, <3>2 DEF BundlesInOrder
  <2>2. CASE j \notin 1 .. Len(R) /\ i \in 1 .. Len(R)
    <3>1. more[i] = R[i]
      BY <1>5, <2>2
    <3>2. PICK m \in 1 .. w * Pieces : m \in 1 .. Len(B) /\ more[j][q] = B[m]
      BY <1>6, <2>2
    <3> QED
      BY <1>1, <2>2, <3>1, <3>2 DEF BundlesEarlier
  <2>3. CASE j \notin 1 .. Len(R) /\ i \notin 1 .. Len(R)
    <3> DEFINE a == ((i - Len(R)) - 1) * Pieces
    <3> DEFINE b == ((j - Len(R)) - 1) * Pieces
    <3>1. /\ p \in 1 .. Pieces /\ a + p \in 1 .. w * Pieces /\ more[i][p] = B[a + p]
          /\ q \in 1 .. Pieces /\ b + q \in 1 .. w * Pieces /\ more[j][q] = B[b + q]
          /\ i - Len(R) \in 1 .. w /\ j - Len(R) \in 1 .. w
      BY <1>5, <2>3
    <3>2. /\ (i - Len(R)) - 1 \in Nat /\ (j - Len(R)) - 1 \in Nat
          /\ p \in Nat /\ q \in Nat /\ p >= 1 /\ q >= 1 /\ p <= Pieces /\ q <= Pieces
      BY <1>1, <1>2, <2>0, <3>1
    <3>3. a \in Nat /\ b \in Nat
      BY <1>2, <3>2
    <3>4. a + p < b + q
      <4>1. CASE i < j
        <5>1. (i - Len(R)) - 1 < (j - Len(R)) - 1
          BY <1>1, <2>0, <4>1
        <5>2. a + Pieces <= b
          BY <3>2, <5>1, MoreMultiples
        <5> HIDE DEF a, b
        <5> QED
          BY <1>2, <3>2, <3>3, <5>2
      <4>2. CASE i = j /\ p < q
        <5>1. a = b
          BY <4>2
        <5> HIDE DEF a, b
        <5> QED
          BY <3>2, <3>3, <4>2, <5>1
      <4> QED
        BY <4>1, <4>2
    <3> HIDE DEF a, b
    <3>5. a + p \in 1 .. Len(B) /\ b + q \in 1 .. Len(B)
      BY <1>1, <1>2, <3>1, <3>2, <3>3
    <3> QED
      BY <1>1, <3>1, <3>4, <3>5 DEF Ascending
  <2>4. j \in 1 .. Len(R) => more[j] = R[j]
    BY <1>5
  <2> QED
    BY <2>1, <2>2, <2>3, <2>4
<1>10. Ascending(rest0)
  <2> SUFFICES ASSUME NEW j \in 1 .. Len(rest0), NEW k \in 1 .. Len(rest0), j < k
               PROVE  Earlier(rest0[j], rest0[k])
    BY DEF Ascending
  <2>1. /\ w * Pieces + j \in 1 .. Len(B) /\ rest0[j] = B[w * Pieces + j]
        /\ w * Pieces + k \in 1 .. Len(B) /\ rest0[k] = B[w * Pieces + k]
    BY <1>3
  <2>2. w * Pieces + j < w * Pieces + k
    BY <1>2, <1>3
  <2> QED
    BY <1>1, <2>1, <2>2 DEF Ascending
<1>11. AllEarlier(rest0, S)
  BY <1>1, <1>3 DEF AllEarlier
<1>12. OwnPieces(r, more, rest0, S)
  BY <1>1, <1>3, <1>4, <1>7, <1>8, <1>9, <1>10, <1>11 DEF OwnPieces
<1>13. OwnPieces(r, more, <<>>, S)
  <2>1. <<>> \in Seq(FromRemote(r)) /\ Len(<<>>) = 0
    BY EmptySeq
  <2>2. BundlesEarlier(more, <<>>) /\ Ascending(<<>>) /\ AllEarlier(<<>>, S)
    BY <2>1 DEF BundlesEarlier, Ascending, AllEarlier
  <2> QED
    BY <1>1, <1>4, <1>7, <1>9, <2>1, <2>2 DEF OwnPieces
<1>14. ASSUME AllPieces(r, R, B, S) PROVE AllPieces(r, more, rest0, S)
  <2> DEFINE c == Len(R) * Pieces
  <2>1. c \in Nat
    BY <1>1, <1>2
  <2>2. /\ \A i \in 1 .. Len(R) : R[i] = IP!Bundle(r, i)
        /\ \A j \in 1 .. Len(B) : B[j] = IP!Piece(r, c + j)
        /\ \A k \in 1 .. Len(S) : S[k] = IP!Piece(r, (c + Len(B)) + k)
    BY <1>14 DEF AllPieces
  <2>3. Len(more) * Pieces = c + w * Pieces
    BY <1>1, <1>2, <1>4
  <2> HIDE DEF c
  <2>4. ASSUME NEW j \in 1 .. Len(rest0) PROVE rest0[j] = IP!Piece(r, (c + w * Pieces) + j)
    <3>1. w * Pieces + j \in 1 .. Len(B) /\ rest0[j] = B[w * Pieces + j]
      BY <1>3
    <3>2. c + (w * Pieces + j) = (c + w * Pieces) + j
      BY <1>2, <1>3, <2>1
    <3> QED
      BY <2>2, <3>1, <3>2
  <2>5. ASSUME NEW k \in 1 .. Len(S)
        PROVE  S[k] = IP!Piece(r, ((c + w * Pieces) + Len(rest0)) + k)
    <3>1. ((c + w * Pieces) + Len(rest0)) + k = (c + Len(B)) + k
      BY <1>1, <1>2, <1>3, <2>1
    <3> QED
      BY <2>2, <3>1
  <2>6. ASSUME NEW i \in 1 .. Len(more) PROVE more[i] = IP!Bundle(r, i)
    <3>1. CASE i \in 1 .. Len(R) /\ more[i] = R[i]
      BY <2>2, <3>1
    <3>2. CASE i \notin 1 .. Len(R)
      <4> DEFINE n == i - Len(R)
      <4>1. /\ n \in 1 .. w /\ Len(more[i]) = Pieces /\ more[i] = bs[n]
            /\ \A p \in 1 .. Pieces : (n - 1) * Pieces + p \in 1 .. w * Pieces
                                      /\ more[i][p] = B[(n - 1) * Pieces + p]
        BY <1>5, <3>2
      <4>2. n - 1 \in Nat /\ i = Len(R) + n /\ i \in Nat /\ i >= 1 /\ i - 1 = Len(R) + (n - 1)
        BY <1>1, <1>2, <4>1
      <4> HIDE DEF n
      <4>3. (n - 1) * Pieces \in Nat /\ (i - 1) * Pieces = c + (n - 1) * Pieces
        <5>1. (Len(R) + (n - 1)) * Pieces = Len(R) * Pieces + (n - 1) * Pieces
          BY <1>1, <1>2, <4>2
        <5> QED
          BY <1>2, <4>2, <5>1 DEF c
      <4>4. ASSUME NEW p \in 1 .. Pieces PROVE more[i][p] = <<r, i, p>>
        <5>1. (n - 1) * Pieces + p \in 1 .. Len(B)
          <6>1. (n - 1) * Pieces + p \in 1 .. w * Pieces
            BY <4>1
          <6> QED
            BY <1>1, <1>2, <4>3, <6>1
        <5>2. more[i][p] = IP!Piece(r, c + ((n - 1) * Pieces + p))
          BY <2>2, <4>1, <5>1
        <5>3. c + ((n - 1) * Pieces + p) = (i - 1) * Pieces + p
          BY <1>2, <2>1, <4>3
        <5>4. IP!Piece(r, (i - 1) * Pieces + p) = <<r, i, p>>
          BY <4>2, PieceOf
        <5> QED
          BY <5>2, <5>3, <5>4
      <4>5. more[i] \in Seq(FromRemote(r))
        BY <1>4, ElementOfSeq
      <4>6. more[i] = [p \in 1 .. Pieces |-> more[i][p]]
        BY <4>1, <4>5, LenProperties
      <4>7. IP!Bundle(r, i) = [p \in 1 .. Pieces |-> <<r, i, p>>]
        BY DEF IP!Bundle
      <4> QED
        BY <4>4, <4>6, <4>7
    <3> QED
      BY <1>5, <3>1, <3>2
  <2> QED
    BY <2>3, <2>4, <2>5, <2>6 DEF AllPieces
<1> QED
  BY <1>12, <1>13, <1>14 DEF more, bs, rest0

LEMMA NextReceive ==
    ASSUME ReceiveInv, IP!Receiving \/ UNCHANGED receiveVars
    PROVE  ReceiveInv'
<1>1. CASE UNCHANGED receiveVars
  BY <1>1 DEF ReceiveInv, receiveVars
<1>2. CASE IP!Receiving
  <2>1. PICK r \in Remote : IP!Receive(r)
    BY <1>2 DEF IP!Receiving
  <2>2. PICK n \in 1 .. Pieces + 1 :
           /\ n <= Len(stream[r])
           /\ stream' = [stream EXCEPT ![r] = SubSeq(@, n + 1, Len(@))]
           /\ LET out == IP!PutBehind(r, SubSeq(stream[r], 1, n))
              IN \/ lost' = lost \cup {r} /\ UNCHANGED <<buffer, received>>
                 \/ /\ received' = [received EXCEPT ![r] = @ \o IP!BundlesOf(out)]
                    /\ \E keep \in BOOLEAN :
                          /\ keep => IP!InPlace(IP!RestOf(out))
                          /\ ~keep => IP!RestOf(out) # <<>>
                          /\ buffer' = [buffer EXCEPT ![r] = IF keep THEN IP!RestOf(out) ELSE <<>>]
                          /\ lost' = IF keep THEN lost ELSE lost \cup {r}
    BY <2>1, Zenon DEF IP!Receive
  <2> DEFINE R == received[r]
  <2> DEFINE B == buffer[r]
  <2> DEFINE S == stream[r]
  <2> DEFINE out == B \o SubSeq(S, 1, n)
  <2> DEFINE later == SubSeq(S, n + 1, Len(S))
  <2> DEFINE more == R \o IP!BundlesOf(out)
  <2>3. DOMAIN received = Remote /\ DOMAIN buffer = Remote /\ DOMAIN stream = Remote
    BY DEF ReceiveInv
  <2>4. OwnPieces(r, R, B, S) /\ (r \notin lost => AllPieces(r, R, B, S))
    BY DEF ReceiveInv
  <2>5. n \in Nat /\ 1 <= n /\ n <= Len(S)
    BY <2>2, PiecesAssumption
  <2>6. /\ OwnPieces(r, R, out, later) /\ OwnPieces(r, R, B, later)
        /\ AllPieces(r, R, B, S) => AllPieces(r, R, out, later)
    BY <2>4, <2>5, PutBehindIs
  <2>7. /\ OwnPieces(r, more, IP!RestOf(out), later) /\ OwnPieces(r, more, <<>>, later)
        /\ AllPieces(r, R, out, later) => AllPieces(r, more, IP!RestOf(out), later)
    BY <2>6, CutIs
  <2>8. IP!PutBehind(r, SubSeq(stream[r], 1, n)) = out
    BY DEF IP!PutBehind
  <2>9. /\ DOMAIN received' = Remote /\ DOMAIN buffer' = Remote /\ DOMAIN stream' = Remote
        /\ stream'[r] = later
        /\ \A q \in Remote : q # r => /\ received'[q] = received[q] /\ buffer'[q] = buffer[q]
                                      /\ stream'[q] = stream[q]
        /\ lost \subseteq lost' /\ lost' \subseteq lost \cup {r}
    BY <2>2, <2>3, <2>8
  <2>10. OwnPieces(r, received'[r], buffer'[r], later)
         /\ (r \notin lost' => AllPieces(r, received'[r], buffer'[r], later))
    <3>1. CASE lost' = lost \cup {r} /\ UNCHANGED <<buffer, received>>
      <4>1. r \in lost' /\ received'[r] = R /\ buffer'[r] = B
        BY <3>1
      <4> QED
        BY <2>6, <4>1
    <3>2. ASSUME received' = [received EXCEPT ![r] = @ \o IP!BundlesOf(out)],
                 NEW keep \in BOOLEAN,
                 buffer' = [buffer EXCEPT ![r] = IF keep THEN IP!RestOf(out) ELSE <<>>],
                 lost' = IF keep THEN lost ELSE lost \cup {r}
          PROVE  OwnPieces(r, received'[r], buffer'[r], later)
                 /\ (r \notin lost' => AllPieces(r, received'[r], buffer'[r], later))
      <4> HIDE DEF out, later
      <4>1. received'[r] = more /\ buffer'[r] = IF keep THEN IP!RestOf(out) ELSE <<>>
        BY <2>3, <3>2
      <4>2. CASE keep
        BY <2>4, <2>6, <2>7, <3>2, <4>1, <4>2
      <4>3. CASE ~keep
        <5>1. r \in lost' /\ buffer'[r] = <<>>
          BY <3>2, <4>1, <4>3
        <5> QED
          BY <2>7, <4>1, <5>1
      <4> QED
        BY <4>2, <4>3
    <3> QED
      BY <2>2, <2>8, <3>1, <3>2
  <2>11. ASSUME NEW q \in Remote
         PROVE  /\ OwnPieces(q, received'[q], buffer'[q], stream'[q])
                /\ q \notin lost' => AllPieces(q, received'[q], buffer'[q], stream'[q])
    <3>1. CASE q = r
      BY <2>9, <2>10, <3>1
    <3>2. CASE q # r
      <4>1. /\ OwnPieces(q, received[q], buffer[q], stream[q])
            /\ q \notin lost => AllPieces(q, received[q], buffer[q], stream[q])
        BY DEF ReceiveInv
      <4>2. /\ received'[q] = received[q] /\ buffer'[q] = buffer[q] /\ stream'[q] = stream[q]
            /\ q \notin lost' => q \notin lost
        BY <2>9, <3>2
      <4> QED
        BY <4>1, <4>2
    <3> QED
      BY <3>1, <3>2
  <2> HIDE DEF out, later, more, R, B, S
  <2>12. /\ DOMAIN received' = Remote /\ DOMAIN buffer' = Remote /\ DOMAIN stream' = Remote
    BY <2>9
  <2> QED
    BY <2>11, <2>12 DEF ReceiveInv, OwnPieces, AllPieces, IP!Bundle, IP!Piece
<1> QED
  BY <1>1, <1>2

LEMMA ReceiveIs == ReceiveInv => IP!BundlesAreOwn
<1> SUFFICES ASSUME ReceiveInv, NEW r \in Remote
             PROVE  /\ \A i, j \in DOMAIN received[r] :
                          \A p \in DOMAIN received[r][i], q \in DOMAIN received[r][j] :
                             /\ received[r][i][p][1] = r
                             /\ i < j \/ (i = j /\ p < q) => /\ received[r][i][p] # received[r][j][q]
                                                             /\ received[r][i][p][2] <= received[r][j][q][2]
                    /\ r \notin lost => \A i \in DOMAIN received[r] : received[r][i] = IP!Bundle(r, i)
  BY Zenon DEF IP!BundlesAreOwn
<1> DEFINE R == received[r]
<1>1. R \in Seq(Seq(FromRemote(r))) /\ BundlesInOrder(R)
  BY DEF ReceiveInv, OwnPieces
<1>2. r \notin lost => \A i \in 1 .. Len(R) : R[i] = IP!Bundle(r, i)
  BY DEF ReceiveInv, AllPieces
<1> HIDE DEF R
<1>3. DOMAIN R = 1 .. Len(R)
  BY <1>1, LenProperties
<1>4. ASSUME NEW i \in 1 .. Len(R)
      PROVE  DOMAIN R[i] = 1 .. Len(R[i]) /\ \A p \in 1 .. Len(R[i]) : R[i][p] \in FromRemote(r)
  <2>1. R[i] \in Seq(FromRemote(r))
    BY <1>1, ElementOfSeq
  <2> QED
    BY <2>1, LenProperties, ElementOfSeq
<1>5. \A x \in FromRemote(r), y \in FromRemote(r) : Earlier(x, y) => x # y /\ x[2] <= y[2]
  BY DEF FromRemote, Earlier
<1>6. \A x \in FromRemote(r) : x[1] = r
  BY DEF FromRemote
<1>7. ASSUME NEW i \in 1 .. Len(R), NEW j \in 1 .. Len(R), NEW p \in 1 .. Len(R[i]), NEW q \in 1 .. Len(R[j])
      PROVE  /\ R[i][p][1] = r
             /\ i < j \/ (i = j /\ p < q) => R[i][p] # R[j][q] /\ R[i][p][2] <= R[j][q][2]
  <2>1. R[i][p] \in FromRemote(r) /\ R[j][q] \in FromRemote(r)
    BY <1>4
  <2>2. i < j \/ (i = j /\ p < q) => Earlier(R[i][p], R[j][q])
    BY <1>1 DEF BundlesInOrder
  <2> QED
    BY <1>5, <1>6, <2>1, <2>2
<1> QED
  BY <1>2, <1>3, <1>4, <1>7 DEF R

-----------------------------------------------------------------------------
(* The file nodes: what TunnelProofs shows of them, for files in the place of      *)
(* datagrams.                                                                      *)
FP == INSTANCE TunnelProofs WITH Datagrams <- Files, Sizes <- FileSizes, Chunk <- FileChunk, Least <- 1,
          Duplicates <- 0, MaxTime <- FileTime, Directory <- RouteDirs, Interface <- NodeInterfaces,
          crashed <- misled

LEMMA FilesAre ==
    /\ None \notin Files /\ FileSizes \subseteq Nat \ {0}
    /\ FileChunk \in Nat \ {0} /\ 1 \in 1 .. FileChunk /\ 0 \in Nat /\ FileTime \in Nat
  BY FileAssumption

LEMMA GoalsAreOfFiles == FP!GoalsAre
<1> SUFFICES ASSUME NEW g \in Goals, NEW f \in Files
             PROVE  g[f] \in [here : BOOLEAN, path : FP!Paths \cup {None}]
  BY DEF FP!GoalsAre
<1>1. PICK both \in BOOLEAN : g = [d \in Files |-> [here |-> (d = 1 \/ both), path |-> "path"]]
  BY DEF Goals
<1>2. g[f] = [here |-> (f = 1 \/ both), path |-> "path"]
  BY <1>1
<1>3. "path" \in FP!Paths \cup {None}
  <2>1. g[f].path = "path"
    BY <1>2
  <2> DEFINE all == UNION {{h[d].path : d \in Files} : h \in Goals}
  <2>2. "path" \in all
    BY <2>1
  <2>3. FP!Paths = all \ {None}
    BY DEF FP!Paths
  <2> HIDE DEF all
  <2> QED
    BY <2>2, <2>3
<1>4. (f = 1 \/ both) \in BOOLEAN
  OBVIOUS
<1> QED
  BY <1>2, <1>3, <1>4

(* The file nodes of MCServices are those: each definition with all it rests on.   *)
LEMMA SameInit == FN!FileInit => FP!FileInit
  BY DEF FN!FileInit, FP!FileInit, FN!Init, FP!Init, FN!SenderInit, FP!SenderInit, FN!EmptyBag, FP!EmptyBag,
     FN!SetToBag, FP!SetToBag, FN!Paths, FP!Paths, FN!Idle, FP!Idle, FN!NotLoading, FP!NotLoading

LEMMA SameLoading == FN!Loading => FP!Loading
  BY Zenon DEF FN!Loading, FP!Loading, FN!ReadRoutes, FP!ReadRoutes, FN!StoreRoutes, FP!StoreRoutes,
     FN!dtn_routing_load, FP!dtn_routing_load, FN!FreeWorker, FP!FreeWorker, FN!OthersAtWork, FP!OthersAtWork,
     FN!SetPath, FP!SetPath, FN!vars, FP!vars, FN!sender, FP!sender, FN!receiver, FP!receiver, FN!nodeVars,
     FP!nodeVars, FN!diskVars, FP!diskVars, FN!Idle, FP!Idle, FN!NotLoading, FP!NotLoading

LEMMA SameSending == FN!Sending => FP!Sending
  BY Zenon DEF FN!Sending, FP!Sending, FN!create_bundles_for_file, FP!create_bundles_for_file, FN!CutChunks,
     FP!CutChunks, FN!CutLast, FP!CutLast, FN!Stamp, FP!Stamp, FN!Load, FP!Load, FN!Store, FP!Store,
     FN!MakeChunk, FP!MakeChunk, FN!MakeLast, FP!MakeLast, FN!Loop, FP!Loop, FN!MoreChunks, FP!MoreChunks,
     FN!Bundle, FP!Bundle, FN!AfterChunk, FP!AfterChunk, FN!Breaks, FP!Breaks, FN!NextNumber, FP!NextNumber,
     FN!SendBundle, FP!SendBundle, FN!Cardinality, FP!Cardinality, FN!(+), FP!(+),
     FN!dtn_file_node_core_send_file, FP!dtn_file_node_core_send_file, FN!Begin, FP!Begin, FN!Busy, FP!Busy,
     FN!FreeWorker, FP!FreeWorker, FN!find_socket_config, FP!find_socket_config, FN!interface_close,
     FP!interface_close, FN!Tick, FP!Tick, FN!vars, FP!vars, FN!sender, FP!sender, FN!receiver, FP!receiver,
     FN!nodeVars, FP!nodeVars, FN!diskVars, FP!diskVars, FN!Idle, FP!Idle, FN!NotLoading, FP!NotLoading

LEMMA SameReceiving == FN!Receiving => FP!Receiving
  BY Zenon DEF FN!Receiving, FP!Receiving, FN!interface_io, FP!interface_io, FN!Receive, FP!Receive, FN!BagIn,
     FP!BagIn, FN!BagToSet, FP!BagToSet, FN!(-), FP!(-), FN!SetToBag, FP!SetToBag, FN!PushWhole, FP!PushWhole,
     FN!PushKnown, FP!PushKnown, FN!PushFragment, FP!PushFragment, FN!Known, FP!Known, FN!Key, FP!Key,
     FN!Complete, FP!Complete, FN!Bytes, FP!Bytes, FN!BytesUpTo, FP!BytesUpTo, FN!Counted, FP!Counted,
     FN!Place, FP!Place, FN!Insert, FP!Insert, FN!InsertAt, FP!InsertAt, FN!StartPayload, FP!StartPayload,
     FN!EndPayload, FP!EndPayload, FN!Content, FP!Content, FN!ForThisNode, FP!ForThisNode, FN!ToSet, FP!ToSet,
     FN!vars, FP!vars, FN!sender, FP!sender, FN!receiver, FP!receiver, FN!nodeVars, FP!nodeVars, FN!diskVars,
     FP!diskVars, FN!Idle, FP!Idle, FN!NotLoading, FP!NotLoading

LEMMA InitFiles == FN!FileInit => FP!FileInv
<1>1. FP!FileInit => FP!FileInv
  BY FilesAre, FP!InitFile DEF FP!InitFile
<1> QED
  BY <1>1, SameInit

LEMMA NextFiles ==
    ASSUME FP!FileInv, FN!Loading \/ FN!Sending \/ FN!Receiving \/ UNCHANGED fileVars
    PROVE  FP!FileInv'
<1>1. FP!GoalsAre /\ FP!FileInv /\ [FP!FileNext]_(FP!fileVars) => FP!FileInv'
  BY FilesAre, FP!NextFile DEF FP!NextFile
<1>2. UNCHANGED fileVars => UNCHANGED FP!fileVars
  BY DEF fileVars, FP!fileVars, FP!vars, FP!sender, FP!receiver, FP!nodeVars, FP!diskVars
<1>3. FP!FileNext \/ UNCHANGED FP!fileVars
  BY <1>2, SameLoading, SameSending, SameReceiving DEF FP!FileNext
<1> QED
  BY <1>1, <1>3, GoalsAreOfFiles

LEMMA FilesAreAsSent == FP!FileInv => FN!FileIsAsSent /\ FN!RoutesAreAsked
<1>1. FP!FileInv => FP!FileIsAsSent /\ FP!RoutesAreAsked
  BY FilesAre, FP!FileIs DEF FP!FileIs
<1>2. FP!FileIsAsSent => FN!FileIsAsSent
  BY DEF FN!FileIsAsSent, FP!FileIsAsSent, FN!Paths, FP!Paths, FN!Content, FP!Content, FN!ToSet, FP!ToSet,
     FN!Exact, FP!Exact, FN!Alone, FP!Alone, FN!Intact, FP!Intact, FN!Contiguous, FP!Contiguous, FN!Bytes,
     FP!Bytes, FN!BytesUpTo, FP!BytesUpTo
<1>3. FP!RoutesAreAsked => FN!RoutesAreAsked
  BY DEF FN!RoutesAreAsked, FP!RoutesAreAsked
<1> QED
  BY <1>1, <1>2, <1>3

(* A datagram that was taken goes out once or waits, and nothing is left in the    *)
(* queue of a link that is up; the bundles of a remote are put together of its     *)
(* own pieces, each used once; a file that came in is one that was sent to its     *)
(* path, and as it was; and a load of routes that was alone has those it asked for. *)
THEOREM DatagramsCorrect == Spec => []DatagramsAreKept
<1> DEFINE DatagramsInv == SendInv /\ ReceiveInv /\ FP!FileInv
<1>1. Init => DatagramsInv
  BY InitSend, InitReceive, InitFiles DEF Init
<1>2. DatagramsInv /\ [Next]_vars => DatagramsInv'
  <2> SUFFICES ASSUME SendInv, ReceiveInv, FP!FileInv, [Next]_vars PROVE DatagramsInv'
    OBVIOUS
  <2>1. IP!Sending \/ UNCHANGED sendVars
    BY DEF Next, PollStep, EpollStep, IoStep, SendStep, ReceiveStep, ItemStep, StoreStep, AppStep, RoutesStep,
       FileSent, FileReceived, vars, loopVars
  <2>2. IP!Receiving \/ UNCHANGED receiveVars
    BY DEF Next, PollStep, EpollStep, IoStep, SendStep, ReceiveStep, ItemStep, StoreStep, AppStep, RoutesStep,
       FileSent, FileReceived, vars, loopVars
  <2>3. FN!Loading \/ FN!Sending \/ FN!Receiving \/ UNCHANGED fileVars
    BY DEF Next, PollStep, EpollStep, IoStep, SendStep, ReceiveStep, ItemStep, StoreStep, AppStep, RoutesStep,
       FileSent, FileReceived, vars, nodeVars
  <2>4. SendInv'
    BY <2>1, NextSend
  <2>5. ReceiveInv'
    BY <2>2, NextReceive
  <2>6. FP!FileInv'
    BY <2>3, NextFiles
  <2> QED
    BY <2>4, <2>5, <2>6
<1>3. DatagramsInv => DatagramsAreKept
  BY SendIs, ReceiveIs, FilesAreAsSent DEF DatagramsAreKept
<1> QED
  BY <1>1, <1>2, <1>3, PTL DEF Spec
=============================================================================
