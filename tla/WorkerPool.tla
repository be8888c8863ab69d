----------------------------- MODULE WorkerPool -----------------------------
(***************************************************************************)
(* What a thread pool of opendtn promises its user, with threads, lock and *)
(* condition variable left out: every message handed in is given to the    *)
(* process function at most once, no more than NumThreads at a time, and   *)
(* once the pool is stopped or freed no message is being processed.        *)
(* ThreadPool implements this specification.                               *)
(***************************************************************************)
EXTENDS Naturals, FiniteSets

CONSTANTS
    Messages,
    NumThreads

VARIABLES
    phase,      \* "stopped", "running", "stopping" or "gone"
    pending,    \* messages waiting in the queue
    active      \* messages the process function is working on

vars == <<phase, pending, active>>

Init == phase = "stopped" /\ pending = {} /\ active = {}

Start == /\ phase = "stopped"
         /\ phase' = "running"
         /\ UNCHANGED <<pending, active>>

(* A full queue gives up some older message for the new one. *)
Submit(m) == /\ m \notin pending \cup active
             /\ \/ pending' = pending \cup {m}
                \/ \E old \in pending : pending' = (pending \ {old}) \cup {m}
             /\ UNCHANGED <<phase, active>>

(* A thread may still take a message while the pool is being stopped. *)
Take(m) == /\ phase \in {"running", "stopping"}
           /\ m \in pending
           /\ Cardinality(active) < NumThreads
           /\ pending' = pending \ {m}
           /\ active' = active \cup {m}
           /\ UNCHANGED phase

Finish(m) == /\ m \in active
             /\ active' = active \ {m}
             /\ UNCHANGED <<phase, pending>>

BeginStop == /\ phase = "running"
             /\ phase' = "stopping"
             /\ UNCHANGED <<pending, active>>

(* Stopping ends in a quiet pool, for a new start or for good ... *)
EndStop == /\ phase = "stopping"
           /\ active = {}
           /\ phase' \in {"stopped", "gone"}
           /\ UNCHANGED <<pending, active>>

(* ... or fails, which leaves the pool as if it had not been asked to stop. *)
StopFails == /\ phase = "stopping"
             /\ phase' = "running"
             /\ UNCHANGED <<pending, active>>

Free == /\ phase = "stopped"
        /\ phase' = "gone"
        /\ UNCHANGED <<pending, active>>

Next ==
    \/ \E m \in Messages : Submit(m) \/ Take(m) \/ Finish(m)
    \/ Start \/ BeginStop \/ EndStop \/ StopFails \/ Free

Spec == Init /\ [][Next]_vars
=============================================================================
