------------------------------ MODULE Delivery ------------------------------
(***************************************************************************)
(* What the dispatcher promises for the notifications in the outbox, with  *)
(* nothing of workers, leases and time.                                    *)
(*                                                                         *)
(* A notification is open until it is settled, once and for all: as sent,  *)
(* which takes a post, or as dead, which takes MaxRetries failed sends.    *)
(* It is posted at most once, and once more for every excuse there is: a   *)
(* takeover from a worker that was too late, or a post left unanswered.    *)
(*                                                                         *)
(* Dispatcher.tla implements this specification.                           *)
(***************************************************************************)
EXTENDS Integers

CONSTANTS
    Rows,           \* the notifications
    MaxRetries      \* how many sends may fail before one is given up

VARIABLES
    state,      \* state[r]: "open", "sent" or "dead"
    posted,     \* posted[r]: how often it was posted
    failures,   \* failures[r]: how often a send reported an error
    excused     \* excused[r]: how many excuses there are for another post

vars == <<state, posted, failures, excused>>

Init ==
    /\ state = [r \in Rows |-> "open"]
    /\ posted = [r \in Rows |-> 0]
    /\ failures = [r \in Rows |-> 0]
    /\ excused = [r \in Rows |-> 0]

MayPost(r) ==
    /\ posted[r] <= excused[r]
    /\ state[r] = "open" \/ excused[r] > 0

Post(r) ==
    /\ MayPost(r)
    /\ posted' = [posted EXCEPT ![r] = @ + 1]
    /\ UNCHANGED <<state, failures, excused>>

PostUnanswered(r) ==
    /\ MayPost(r)
    /\ posted' = [posted EXCEPT ![r] = @ + 1]
    /\ failures' = [failures EXCEPT ![r] = @ + 1]
    /\ excused' = [excused EXCEPT ![r] = @ + 1]
    /\ UNCHANGED state

Fail(r) ==
    /\ failures' = [failures EXCEPT ![r] = @ + 1]
    /\ UNCHANGED <<state, posted, excused>>

\* Several notifications may be taken over at once.
TakeOver ==
    /\ \A r \in Rows : \/ excused'[r] = excused[r]
                       \/ state[r] = "open" /\ excused'[r] = excused[r] + 1
    /\ excused' = [r \in Rows |-> excused'[r]]
    /\ UNCHANGED <<state, posted, failures>>

Settle(r) ==
    /\ state[r] = "open"
    /\ \/ posted[r] > 0 /\ state' = [state EXCEPT ![r] = "sent"]
       \/ failures[r] >= MaxRetries /\ state' = [state EXCEPT ![r] = "dead"]
    /\ UNCHANGED <<posted, failures, excused>>

Next ==
    \/ TakeOver
    \/ \E r \in Rows : Post(r) \/ PostUnanswered(r) \/ Fail(r) \/ Settle(r)

Spec == Init /\ [][Next]_vars
=============================================================================
