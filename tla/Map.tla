-------------------------------- MODULE Map ---------------------------------
(***************************************************************************)
(* What dtn_dict and dtn_hashtable promise their users: a map from keys to *)
(* values, where keys that match are the same key, and the answer of the   *)
(* last call.  A value may be NULL; get does not tell it from no entry.    *)
(***************************************************************************)
CONSTANTS Key, Value, NULL, NONE    \* NONE: the key has no entry

VARIABLES map, answer

vars == <<map, answer>>

Got(k) == IF map[k] = NONE THEN NULL ELSE map[k]

Init == map = [k \in Key |-> NONE] /\ answer = <<"value", NULL>>

\* The value that was there is answered to those who ask for it.
Set(k, v) == map' = [map EXCEPT ![k] = v] /\ answer' \in {<<"value", Got(k)>>, <<"done">>}
\* The answer is the value, or nothing when it goes with its entry.
RemoveKey(k) == map' = [map EXCEPT ![k] = NONE] /\ answer' \in {<<"value", Got(k)>>, <<"done">>}
Get(k) == UNCHANGED map /\ answer' = <<"value", Got(k)>>
ContainsKey(k) == UNCHANGED map /\ answer' = <<"has", map[k] # NONE>>
Keys(v) == UNCHANGED map /\ answer' = <<"keys", {k \in Key : map[k] # NONE /\ map[k] # NULL /\ v \in {NULL, map[k]}}>>
Clear == map' = [k \in Key |-> NONE] /\ answer' = <<"value", NULL>>

Next ==
    \/ \E k \in Key, v \in Value \cup {NULL} : Set(k, v)
    \/ \E k \in Key : RemoveKey(k) \/ Get(k) \/ ContainsKey(k)
    \/ \E v \in Value \cup {NULL} : Keys(v)
    \/ Clear

Spec == Init /\ [][Next]_vars
=============================================================================
