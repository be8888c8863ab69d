---------------------------- MODULE IpInterface ----------------------------
(***************************************************************************)
(* dtn_interface_ip.c with dtn_io_buffer.c: datagrams wait in a queue      *)
(* while the link is down, and are sent by whoever finds it up; the        *)
(* beginning of a bundle is kept for each remote until the rest comes.     *)
(***************************************************************************)
EXTENDS Naturals, Sequences, SequencesExt

CONSTANTS
    Sender,         \* threads that send; "loop" runs the check of the link
    Remote,         \* who sends to this side
    Pieces,         \* of a bundle
    MaxDatagrams,   \* bound on what is given to be sent
    MaxBundles,     \* bundles each remote sends
    MaxChanges      \* bound on the changes of the link

Thread == Sender \cup {"loop"}
Free == "nobody"

VARIABLES
    isUp, link,     \* the link, and what the interface knows of it
    queue, lock,    \* out.queue and out.lock
    given, sent, failed,    \* datagrams taken, sent in this order; whether sendto failed
    at,             \* [Thread -> "idle", "push", "look", "lock", "send"]
    changes,
    stream,         \* [Remote -> pieces it has yet to send]
    buffer,         \* [Remote -> pieces kept]
    received,       \* [Remote -> bundles given to the callback]
    lost            \* the remotes of which a datagram was lost

vars == <<isUp, link, queue, lock, given, sent, failed, at, changes, stream, buffer, received, lost>>
sending == <<isUp, link, queue, lock, given, sent, failed, at, changes>>
receiving == <<stream, buffer, received, lost>>

Bundle(r, b) == [p \in 1 .. Pieces |-> <<r, b, p>>]
Piece(r, k) == <<r, (k - 1) \div Pieces + 1, ((k - 1) % Pieces) + 1>>  \* the k-th it sends

Init ==
    /\ isUp = FALSE /\ link = FALSE /\ queue = <<>> /\ lock = Free
    /\ given = 0 /\ sent = <<>> /\ failed = FALSE
    /\ at = [t \in Thread |-> "idle"] /\ changes = 0
    /\ stream = [r \in Remote |-> [k \in 1 .. MaxBundles * Pieces |-> Piece(r, k)]]
    /\ buffer = [r \in Remote |-> <<>>] /\ received = [r \in Remote |-> <<>>] /\ lost = {}

(***************************************************************************)
(* dtn_interface_ip_send.                                                  *)
(***************************************************************************)
SendCall(t) ==
    /\ at[t] = "idle" /\ at' = [at EXCEPT ![t] = "push"]
    /\ UNCHANGED <<isUp, link, queue, lock, given, sent, failed, changes, receiving>>

\* Without the lock in time the datagram is refused.
Push(t) ==
    /\ at[t] = "push" /\ given < MaxDatagrams
    /\ \/ /\ lock = Free
          /\ given' = given + 1 /\ queue' = Append(queue, given')
          /\ at' = [at EXCEPT ![t] = "look"]
       \/ lock # Free /\ at' = [at EXCEPT ![t] = "idle"] /\ UNCHANGED <<given, queue>>
    /\ UNCHANGED <<isUp, link, lock, sent, failed, changes, receiving>>

Look(t) ==
    /\ at[t] = "look"
    /\ at' = [at EXCEPT ![t] = IF link THEN "lock" ELSE "idle"]
    /\ UNCHANGED <<isUp, link, queue, lock, given, sent, failed, changes, receiving>>

(***************************************************************************)
(* start_sending_queue: given up without the lock in time.  What sendto    *)
(* refuses goes to the end of the queue, and the queue is tried until it   *)
(* is empty.                                                               *)
(***************************************************************************)
TakeLock(t) ==
    /\ at[t] = "lock"
    /\ \/ lock = Free /\ lock' = t /\ at' = [at EXCEPT ![t] = "send"]
       \/ lock # Free /\ at' = [at EXCEPT ![t] = "idle"] /\ UNCHANGED lock
    /\ UNCHANGED <<isUp, link, queue, given, sent, failed, changes, receiving>>

SendOnce(t) ==
    /\ at[t] = "send"
    /\ \/ /\ queue # <<>>
          /\ sent' = Append(sent, Head(queue)) /\ queue' = Tail(queue)
          /\ UNCHANGED <<failed, lock, at>>
       \/ /\ queue # <<>> /\ ~failed
          /\ queue' = Tail(queue) /\ failed' = TRUE
          /\ UNCHANGED <<sent, lock, at>>
       \/ /\ queue = <<>>
          /\ lock' = Free /\ at' = [at EXCEPT ![t] = "idle"]
          /\ UNCHANGED <<queue, sent, failed>>
    /\ UNCHANGED <<isUp, link, given, changes, receiving>>
SendQueue(t) ==
    /\ at[t] = "send"
    /\ \/ /\ queue # <<>>
          /\ sent' = Append(sent, Head(queue)) /\ queue' = Tail(queue)
          /\ UNCHANGED <<failed, lock, at>>
       \/ /\ queue # <<>> /\ ~failed
          /\ queue' = Append(Tail(queue), Head(queue)) /\ failed' = TRUE
          /\ UNCHANGED <<sent, lock, at>>
       \/ /\ queue = <<>>
          /\ lock' = Free /\ at' = [at EXCEPT ![t] = "idle"]
          /\ UNCHANGED <<queue, sent, failed>>
    /\ UNCHANGED <<isUp, link, given, changes, receiving>>

\* check_link_status: link is set first, then the queue is sent if it is up.
CheckLinkLate ==
    /\ at["loop"] = "idle" /\ link # isUp
    /\ link' = isUp /\ UNCHANGED at
    /\ UNCHANGED <<isUp, queue, lock, given, sent, failed, changes, receiving>>
CheckLink ==
    /\ at["loop"] = "idle" /\ link # isUp
    /\ link' = isUp
    /\ at' = IF isUp THEN [at EXCEPT !["loop"] = "lock"] ELSE at
    /\ UNCHANGED <<isUp, queue, lock, given, sent, failed, changes, receiving>>

LinkChanges ==
    /\ changes < MaxChanges /\ changes' = changes + 1 /\ isUp' = ~isUp
    /\ UNCHANGED <<link, queue, lock, given, sent, failed, at, receiving>>

(***************************************************************************)
(* cb_io: what was kept for the remote is taken out, what comes is put to  *)
(* its end, and the bundles it begins with are read: a piece has its place *)
(* in a bundle, and nothing in it says in which.  A rest that is the       *)
(* beginning of a bundle is kept, or given up where the decoder is not at  *)
(* the end of it; any other is given up.                                   *)
(***************************************************************************)
InPlace(s) == \A i \in DOMAIN s : s[i][3] = ((i - 1) % Pieces) + 1
Whole(s) ==     \* how many whole bundles it begins with
    CHOOSE k \in 0 .. Len(s) \div Pieces :
       /\ InPlace(SubSeq(s, 1, k * Pieces))
       /\ \A j \in 0 .. Len(s) \div Pieces : InPlace(SubSeq(s, 1, j * Pieces)) => j <= k
BundlesOf(s) == [i \in 1 .. Whole(s) |-> SubSeq(s, (i - 1) * Pieces + 1, i * Pieces)]
RestOf(s) == SubSeq(s, Whole(s) * Pieces + 1, Len(s))

PutBehindAny(r, dgram) ==
    LET q == CHOOSE q \in Remote : buffer[q] # <<>> \/ \A p \in Remote : buffer[p] = <<>>
    IN buffer[q] \o dgram
PutBehind(r, dgram) == buffer[r] \o dgram

Receive(r) ==
    \E n \in 1 .. Pieces + 1 :
       /\ n <= Len(stream[r])
       /\ stream' = [stream EXCEPT ![r] = SubSeq(@, n + 1, Len(@))]
       /\ LET out == PutBehind(r, SubSeq(stream[r], 1, n))
          IN \/ lost' = lost \cup {r} /\ UNCHANGED <<buffer, received>>
             \/ /\ received' = [received EXCEPT ![r] = @ \o BundlesOf(out)]
                /\ \E keep \in BOOLEAN :
                      /\ keep => InPlace(RestOf(out))
                      /\ ~keep => RestOf(out) # <<>>
                      /\ buffer' = [buffer EXCEPT ![r] = IF keep THEN RestOf(out) ELSE <<>>]
                      /\ lost' = IF keep THEN lost ELSE lost \cup {r}
       /\ UNCHANGED sending

Sending ==
    \/ \E t \in Thread : (t \in Sender /\ SendCall(t)) \/ Push(t) \/ Look(t) \/ TakeLock(t) \/ SendQueue(t)
    \/ CheckLink \/ LinkChanges

Receiving == \E r \in Remote : Receive(r)

Next == Sending \/ Receiving

Spec == Init /\ [][Next]_vars

(***************************************************************************)
(* Properties.                                                             *)
(***************************************************************************)
\* A datagram that was taken is sent once or waits, also where sendto refuses
\* it; if it never does, they are sent in the order they were taken in.
DatagramsKept ==
    LET all == sent \o queue
    IN /\ Len(all) = given /\ ToSet(all) = 1 .. given
       /\ ~failed => all = [i \in 1 .. given |-> i]

\* Nothing is left in the queue of a link that is known to be up when nobody is
\* about to send: whoever gives up at the lock leaves it to the one who has it.
QuietIsDrained ==
    link /\ (\A t \in Thread : at[t] \in {"idle", "push"}) => queue = <<>>

\* What comes from a remote is put together with what came from it alone, and
\* no piece is used twice.  Unless something was lost or given up, each bundle
\* is one that it sent.
BundlesAreOwn ==
    \A r \in Remote :
       LET all == received[r]
       IN /\ \A i, j \in DOMAIN all : \A p \in DOMAIN all[i], q \in DOMAIN all[j] :
                /\ all[i][p][1] = r
                /\ i < j \/ (i = j /\ p < q) => all[i][p] # all[j][q] /\ all[i][p][2] <= all[j][q][2]
          /\ r \notin lost => \A i \in DOMAIN all : all[i] = Bundle(r, i)
=============================================================================
