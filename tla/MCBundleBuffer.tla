--------------------------- MODULE MCBundleBuffer ---------------------------
(* Two workers; an ADU of three fragments (a), an ADU in one bundle        *)
(* without flags (u) and one in a bundle that has some other flag than     *)
(* that of a fragment (v).  Either all fragments are good and the network  *)
(* delivers one twice, or the first does not verify, or the last has no    *)
(* payload block and u does not verify, or u and v come without the rest.  *)
EXTENDS BundleBuffer

MCSizes == [a |-> <<1, 1, 1>>, u |-> <<1>>, v |-> <<1>>]
MCTotal == [a |-> 3, u |-> 1, v |-> 0]
MCWhole == {"u"}
AllGood == [f \in Fragments |-> "good"]
Once == [f \in Fragments |-> IF f[1] = "v" THEN 0 ELSE 1]

MCScenarios ==
    {[quality |-> AllGood,
      copies |-> [Once EXCEPT ![<<"a", 1>>] = 2, ![<<"u", 1>>] = 0]],
     [quality |-> [AllGood EXCEPT ![<<"a", 1>>] = "unverifiable"],
      copies |-> [Once EXCEPT ![<<"u", 1>>] = 0]],
     [quality |-> [AllGood EXCEPT ![<<"a", 3>>] = "no payload",
                                  ![<<"u", 1>>] = "unverifiable"],
      copies |-> Once],
     [quality |-> AllGood,
      copies |-> [f \in Fragments |-> IF f[1] = "a" THEN 0 ELSE 1]]}

MCGoodScenarios == {[quality |-> AllGood, copies |-> Once]}
=============================================================================
