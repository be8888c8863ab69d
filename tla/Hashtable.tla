------------------------------ MODULE Hashtable -----------------------------
(***************************************************************************)
(* dtn_hashtable.c: entries chained in buckets.  The table keeps a copy of  *)
(* the key of a new entry and frees it with the entry; values stay the      *)
(* user's.  get_entry_for answers the entry BEFORE the one that matches, or *)
(* the last one of the bucket.                                              *)
(***************************************************************************)
EXTENDS Naturals, SequencesExt, FiniteSetsExt

CONSTANTS Key, BucketOf, Value, NULL, NONE

VARIABLES
    buckets,    \* per bucket, the entries behind its first, empty one
    copies,     \* key copies allocated and not freed
    answer

vars == <<buckets, copies, answer>>

Buckets == {BucketOf[k] : k \in Key}
Entries(k) == buckets[BucketOf[k]]

\* get_entry_for: how many entries are before the place of the key.
EntryBefore(k) ==
    LET at == {i \in 1 .. Len(Entries(k)) : Entries(k)[i].key = k}
    IN IF at = {} THEN Len(Entries(k)) ELSE Min(at) - 1

HasNext(k) == EntryBefore(k) < Len(Entries(k))
Found(k) == IF HasNext(k) THEN Entries(k)[EntryBefore(k) + 1].value ELSE NULL

\* As many copies as entries.
Held == Cardinality(UNION {{b} \X DOMAIN buckets[b] : b \in Buckets})

Init ==
    /\ buckets = [b \in Buckets |-> <<>>]
    /\ copies = 0
    /\ answer = <<"value", NULL>>

Set(k, v) ==
    /\ answer' = <<"value", Found(k)>>
    /\ IF HasNext(k)
       THEN /\ buckets' = [buckets EXCEPT ![BucketOf[k]][EntryBefore(k) + 1].value = v]
            /\ UNCHANGED copies
       ELSE /\ buckets' = [buckets EXCEPT ![BucketOf[k]] = Append(@, [key |-> k, value |-> v])]
            /\ copies' = copies + 1

RemoveKey(k) ==
    /\ answer' = <<"value", Found(k)>>
    /\ IF HasNext(k)
       THEN /\ buckets' = [buckets EXCEPT ![BucketOf[k]] = RemoveAt(@, EntryBefore(k) + 1)]
            /\ copies' = copies - 1
       ELSE UNCHANGED <<buckets, copies>>

Get(k) == answer' = <<"value", Found(k)>> /\ UNCHANGED <<buckets, copies>>
ContainsKey(k) == answer' = <<"has", HasNext(k)>> /\ UNCHANGED <<buckets, copies>>

\* hashtable_clear, as part of dtn_hashtable_free; the table is created anew.
Free ==
    /\ buckets' = [b \in Buckets |-> <<>>]
    /\ copies' = copies - Held
    /\ answer' = <<"value", NULL>>

Next ==
    \/ \E k \in Key, v \in Value \cup {NULL} : Set(k, v)
    \/ \E k \in Key : RemoveKey(k) \/ Get(k) \/ ContainsKey(k)
    \/ Free

Spec == Init /\ [][Next]_vars

-----------------------------------------------------------------------------
\* One copy of a key per entry: none leaks, none is freed twice.
CopiesFreed == copies = Held

\* The buckets are a map.
Abstract == INSTANCE Map WITH map <- [k \in Key |->
                IF HasNext(k) THEN Entries(k)[EntryBefore(k) + 1].value ELSE NONE]
IsMap == Abstract!Spec
=============================================================================
