-------------------------------- MODULE Dict --------------------------------
(***************************************************************************)
(* dtn_dict.c: pairs of a key and a value chained in the slots of an array. *)
(* The dictionary owns the key and value objects it is given and frees them *)
(* with the functions of its configuration.  Several key objects may match, *)
(* as two copies of a string do.  A slot starts with an empty pair that is  *)
(* left out here: the chain is the sequence of the pairs behind it.         *)
(***************************************************************************)
EXTENDS Naturals, Sequences, SequencesExt, FiniteSets

CONSTANTS
    Key,            \* key objects
    KeyOf,          \* the key an object stands for: match compares it
    SlotOf,         \* hash % slots, of a key: a function on what KeyOf answers
    Value, NULL, NONE

VARIABLES
    chains,         \* per slot, the pairs in their order
    freed,          \* objects the dictionary has freed and no one has got anew
    owned,          \* objects the dictionary is responsible for
    answer

vars == <<chains, freed, owned, answer>>

Slots == {SlotOf[c] : c \in DOMAIN SlotOf}
KeyNames == DOMAIN SlotOf
KeyOrValue == Key \cup Value
Chain(c) == chains[SlotOf[c]]
Pairs == UNION {Range(chains[s]) : s \in Slots}

\* As MatchAt, with the last pair of the chain left out of the search.
MatchBeforeLast(c) ==
    LET at == {i \in 1 .. Len(Chain(c)) - 1 : KeyOf[Chain(c)[i].key] = c}
    IN IF at = {} THEN 0 ELSE CHOOSE i \in at : \A j \in at : i <= j

\* The place of the pair whose key matches, 0 when there is none.
MatchAt(c) ==
    LET at == {i \in 1 .. Len(Chain(c)) : KeyOf[Chain(c)[i].key] = c}
    IN IF at = {} THEN 0 ELSE CHOOSE i \in at : \A j \in at : i <= j

\* The objects a caller may pass: it has them, or allocates them.
Mine(o) == o \notin owned

Init ==
    /\ chains = [s \in Slots |-> <<>>]
    /\ freed = {}
    /\ owned = {}
    /\ answer = <<"value", NULL>>

\* impl_dict_set: a pair that matches gets the new key object and value, and
\* the old key object is freed.  The old value is freed, or handed to a caller
\* that passes a place for it (dict_pair_replace_value).
Set(k, v, wantsOld) ==
    LET c == KeyOf[k]
        i == MatchAt(c)
    IN /\ Mine(k) /\ Mine(v)
       /\ IF i = 0
          THEN /\ chains' = [chains EXCEPT ![SlotOf[c]] = Append(@, [key |-> k, value |-> v])]
               /\ owned' = owned \cup ({k, v} \ {NULL})
               /\ freed' = freed \ {k, v}
               /\ answer' = <<"value", NULL>>
          ELSE LET old == Chain(c)[i]
                   drop == {old.key} \cup (IF wantsOld THEN {} ELSE {old.value} \ {NULL})
               IN /\ chains' = [chains EXCEPT ![SlotOf[c]][i] = [key |-> k, value |-> v]]
                  /\ owned' = (owned \ {old.key, old.value}) \cup ({k, v} \ {NULL})
                  /\ freed' = (freed \ {k, v}) \cup drop
                  /\ answer' = IF wantsOld THEN <<"value", old.value>> ELSE <<"done">>

\* impl_dict_remove frees the key and hands out the value; impl_dict_del frees
\* the value as well.
RemoveKey(c, alsoValue) ==
    LET i == MatchAt(c)
    IN IF i = 0
       THEN answer' = (IF alsoValue THEN <<"done">> ELSE <<"value", NULL>>) /\ UNCHANGED <<chains, freed, owned>>
       ELSE LET old == Chain(c)[i]
            IN /\ chains' = [chains EXCEPT ![SlotOf[c]] = RemoveAt(@, i)]
               /\ owned' = owned \ {old.key, old.value}
               /\ freed' = freed \cup {old.key} \cup (IF alsoValue THEN {old.value} \ {NULL} ELSE {})
               /\ answer' = IF alsoValue THEN <<"done">> ELSE <<"value", old.value>>

Get(c) ==
    /\ answer' = <<"value", IF MatchAt(c) = 0 THEN NULL ELSE Chain(c)[MatchAt(c)].value>>
    /\ UNCHANGED <<chains, freed, owned>>

IsSet(c) ==
    /\ answer' = <<"has", MatchAt(c) # 0>>
    /\ UNCHANGED <<chains, freed, owned>>

\* impl_dict_get_keys collects the keys with this value, all for NULL; pairs
\* with a NULL value are skipped by both collectors.
GetKeys(v) ==
    /\ answer' = <<"keys", {KeyOf[p.key] : p \in {q \in Pairs : q.value # NULL /\ v \in {NULL, q.value}}}>>
    /\ UNCHANGED <<chains, freed, owned>>

Clear ==
    /\ chains' = [s \in Slots |-> <<>>]
    /\ freed' = freed \cup owned
    /\ owned' = {}
    /\ answer' = <<"value", NULL>>

Next ==
    \/ \E k \in Key, v \in Value \cup {NULL}, old \in BOOLEAN : Set(k, v, old)
    \/ \E c \in KeyNames, also \in BOOLEAN : RemoveKey(c, also)
    \/ \E c \in KeyNames : Get(c) \/ IsSet(c)
    \/ \E v \in Value \cup {NULL} : GetKeys(v)
    \/ Clear

Spec == Init /\ [][Next]_vars

-----------------------------------------------------------------------------
\* What the pairs point to is what the dictionary owns, nothing of it is freed,
\* and no object is in two pairs: a caller that passes objects of its own is
\* never left with a pointer the dictionary frees, nor the dictionary with one
\* that is freed.
OwnsItsPairs ==
    /\ owned = ({p.key : p \in Pairs} \cup {p.value : p \in Pairs}) \ {NULL}
    /\ owned \cap freed = {}

\* The chains are a map: every call does to it and answers what it should,
\* with keys that share a slot.
Value0(c) == IF MatchAt(c) = 0 THEN NONE ELSE Chain(c)[MatchAt(c)].value
Abstract == INSTANCE Map WITH Key <- KeyNames, map <- [c \in KeyNames |-> Value0(c)]
IsMap == Abstract!Spec
=============================================================================
