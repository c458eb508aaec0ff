----------------------------- MODULE EventLedger -----------------------------
(***************************************************************************)
(* What EventStore promises to those who call SaveEvents: a call records   *)
(* the events of its batch and the notifications they are to be given in   *)
(* one step or not at all, however often they were saved before, and it    *)
(* only reports success when it did.                                       *)
(*                                                                         *)
(* EventStore.tla implements this specification, and Scanner.tla takes it  *)
(* for granted: its SaveEvents is Save of this module.                     *)
(***************************************************************************)
EXTENDS Integers

CONSTANTS
    Batches,    \* the batches of events that may be saved
    Routes      \* the routes every event is notified on

VARIABLES
    recorded,   \* the keys of the recorded events
    notes,      \* the notifications, as <<key, name, route>>
    acked       \* the keys of the events whose call reported success

vars == <<recorded, notes, acked>>

Members(q) == {q[i] : i \in DOMAIN q}
KeysOf(b)  == {e.key : e \in Members(b)}

Init == recorded = {} /\ notes = {} /\ acked = {}

\* Of several events of a batch with one key the first one counts.
NotesOf(b) ==
    {<<b[i].key, b[i].name, r>> :
        i \in {j \in DOMAIN b : \A k \in DOMAIN b : k < j => b[k].key # b[j].key},
        r \in Members(Routes)}

Save(b) ==
    /\ recorded' = recorded \cup KeysOf(b)
    /\ notes' = notes \cup NotesOf(b)
    /\ \/ acked' = acked \cup KeysOf(b)
       \/ acked' = acked

Next == \E b \in Batches : Save(b)

Spec == Init /\ [][Next]_vars
=============================================================================
