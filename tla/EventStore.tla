----------------------------- MODULE EventStore -----------------------------
(***************************************************************************)
(* EventStore.SaveEvents (src/database/store_event.go): one transaction    *)
(* that inserts a batch of events into chain_events, reads them back and   *)
(* inserts their notifications into notification_outbox.                   *)
(*                                                                         *)
(* Fetch workers, scanners and processes save concurrently, and save again *)
(* what a failed round or another scanner has saved already.  The database *)
(* is PostgreSQL at READ COMMITTED: a statement sees what was committed    *)
(* when it began and what its own transaction wrote; an INSERT that meets  *)
(* the key of a row another transaction has not committed yet waits for    *)
(* that transaction; and when transactions wait for each other in a circle *)
(* one of them is aborted.                                                 *)
(*                                                                         *)
(* IDs come from the snowflake generators.  They are unique as long as     *)
(* those are configured and timed as IdGen.tla says; MayCollide is for     *)
(* when they are not.                                                      *)
(*                                                                         *)
(* Simplifications.  The two unique indexes of chain_events besides the    *)
(* primary key, on event_key and on what event_key is made of, are one.    *)
(* An envelope that eventEnvelopeToRow or the planner refuses makes the    *)
(* call fail, which is one of the faults.  The order of rows is kept, how  *)
(* CreateInBatches cuts them into statements is not: it makes no           *)
(* difference to what the rows meet.                                       *)
(***************************************************************************)
EXTENDS Integers, Sequences, Functions

CONSTANTS
    Savers,         \* the goroutines that call SaveEvents
    Keys,           \* event keys
    Names,          \* event names
    IDs,            \* snowflake IDs
    Batches,        \* the batches HandleLogs may pass to SaveEvents
    Planner,        \* whether there is a notification planner
    Routes,         \* the routes it gives an event, in order
    MayCollide,     \* whether a generated ID may be one that is in use
    MaxFaults       \* bound on failed calls and lost answers

Envelopes == [key: Keys, name: Names]

ASSUME EventStoreAssumption ==
    /\ Batches \subseteq Seq(Envelopes) \ {<<>>}
    /\ Planner \in BOOLEAN
    /\ Routes \in Seq(Range(Routes))
    /\ Planner => Routes # <<>>
    /\ MayCollide \in BOOLEAN
    /\ MaxFaults \in Nat

VARIABLES
    events,     \* the committed rows of chain_events
    outbox,     \* the committed rows of notification_outbox
    pc,         \* where saver s is in SaveEvents
    batch,      \* batch[s]: its events
    ids,        \* ids[s]: the IDs generated for the rows it inserts
    plan,       \* plan[s]: the rows for notification_outbox
    at,         \* at[s]: which row it inserts next
    newEvents,  \* newEvents[s], newOutbox[s]: what its transaction has
    newOutbox,  \* inserted and not committed
    acked,      \* the keys of the events whose call reported success
    faults      \* how many faults are left

dbVars    == <<events, outbox>>
saverVars == <<pc, batch, ids, plan, at, newEvents, newOutbox>>
vars      == <<dbVars, saverVars, acked, faults>>

EventRows  == [id: IDs, key: Keys, name: Names]
OutboxRows == [id: IDs, event: IDs, key: Keys, name: Names, route: Range(Routes)]

\* No key twice.
Deduped(b) == \A i, j \in DOMAIN b : b[i].key = b[j].key => i = j

TypeOK ==
    /\ events \subseteq EventRows
    /\ outbox \subseteq OutboxRows
    /\ pc \in [Savers -> {"idle", "events", "select", "outbox", "commit"}]
    /\ batch \in [Savers -> Seq(Envelopes)]
    /\ \A s \in Savers : Deduped(batch[s])
    /\ ids \in [Savers -> Seq(IDs)]
    /\ plan \in [Savers -> Seq(OutboxRows)]
    /\ at \in [Savers -> Nat]
    /\ \A s \in Savers : at[s] \in 1..(Len(ids[s]) + 1)
    /\ newEvents \in [Savers -> SUBSET EventRows]
    /\ newOutbox \in [Savers -> SUBSET OutboxRows]
    /\ acked \subseteq Keys
    /\ faults \in 0..MaxFaults

Init ==
    /\ events = {}
    /\ outbox = {}
    /\ pc = [s \in Savers |-> "idle"]
    /\ batch = [s \in Savers |-> <<>>]
    /\ ids = [s \in Savers |-> <<>>]
    /\ plan = [s \in Savers |-> <<>>]
    /\ at = [s \in Savers |-> 1]
    /\ newEvents = [s \in Savers |-> {}]
    /\ newOutbox = [s \in Savers |-> {}]
    /\ acked = {}
    /\ faults = MaxFaults

-----------------------------------------------------------------------------
\* Helpers.  A definition whose name ends in X is the one after it with a bug
\* that the checks are tried on.

Goto(s, where) == pc' = [pc EXCEPT ![s] = where]

Fault == faults > 0 /\ faults' = faults - 1

\* The IDs that a table holds or is about to be given.
EventIDs ==
    {r.id : r \in events \cup UNION Range(newEvents)}
        \cup UNION {Range(ids[s]) : s \in {t \in Savers : pc[t] = "events"}}
OutboxIDs ==
    {r.id : r \in outbox \cup UNION Range(newOutbox)}
        \cup UNION {Range(ids[s]) : s \in {t \in Savers : pc[t] = "outbox"}}

\* What n calls of NextID may return for the rows of a table.  Which fresh IDs
\* they are makes no difference; there are some as long as IDs is large enough.
NewIDs(n, inUse) ==
    LET fresh == {q \in [1..n -> IDs \ inUse] : IsInjective(q)}
    IN  IF MayCollide THEN [1..n -> IDs]
        ELSE IF fresh = {} THEN {} ELSE {CHOOSE q \in fresh : TRUE}

\* dedupeEvents: the first event of each key.
DedupeStep(out, e) ==
    IF \E i \in DOMAIN out : out[i].key = e.key THEN out ELSE Append(out, e)
DedupeX(b) == b
Dedupe(b) ==
    LET out[n \in 0..Len(b)] == IF n = 0 THEN <<>> ELSE DedupeStep(out[n - 1], b[n])
    IN  out[Len(b)]

\* The transaction is gone and its call returns.
Returns(s) ==
    /\ batch' = [batch EXCEPT ![s] = <<>>]
    /\ ids' = [ids EXCEPT ![s] = <<>>]
    /\ plan' = [plan EXCEPT ![s] = <<>>]
    /\ at' = [at EXCEPT ![s] = 1]
    /\ newEvents' = [newEvents EXCEPT ![s] = {}]
    /\ newOutbox' = [newOutbox EXCEPT ![s] = {}]
    /\ Goto(s, "idle")

RollbackX(s) ==
    /\ batch' = [batch EXCEPT ![s] = <<>>]
    /\ ids' = [ids EXCEPT ![s] = <<>>]
    /\ plan' = [plan EXCEPT ![s] = <<>>]
    /\ at' = [at EXCEPT ![s] = 1]
    /\ UNCHANGED <<dbVars, newEvents, newOutbox, acked>>
    /\ Goto(s, "idle")
RollbackX2(s) ==
    /\ acked' = acked \cup {e.key : e \in Range(batch[s])}
    /\ Returns(s)
    /\ UNCHANGED dbVars
\* Notifications are not written within the transaction.
RollbackX3(s) ==
    /\ outbox' = outbox \cup newOutbox[s]
    /\ Returns(s)
    /\ UNCHANGED <<events, acked>>
Rollback(s) ==
    /\ Returns(s)
    /\ UNCHANGED <<dbVars, acked>>

-----------------------------------------------------------------------------
\* Rows that meet.

\* What transactions other than that of s have not committed.
OthersEvents(s) == UNION {newEvents[t] : t \in Savers \ {s}}
OthersOutbox(s) == UNION {newOutbox[t] : t \in Savers \ {s}}

SameEvent(a, b)    == a.id = b.id \/ a.key = b.key
SameDelivery(a, b) == a.key = b.key /\ a.name = b.name /\ a.route = b.route
SameOutbox(a, b)   == a.id = b.id \/ SameDelivery(a, b)

\* The row that s inserts next.
EventRow(s) ==
    [id |-> ids[s][at[s]], key |-> batch[s][at[s]].key, name |-> batch[s][at[s]].name]
OutboxRow(s) == plan[s][at[s]]

Inserting(s) == at[s] <= Len(ids[s])

\* The savers it has to wait for.
WaitsFor(s) ==
    {t \in Savers \ {s} :
        /\ Inserting(s)
        /\ \/ pc[s] = "events" /\ \E r \in newEvents[t] : SameEvent(r, EventRow(s))
           \/ pc[s] = "outbox" /\ \E r \in newOutbox[t] : SameOutbox(r, OutboxRow(s))}

Deadlocked(s) ==
    \E S \in SUBSET Savers : s \in S /\ \A t \in S : WaitsFor(t) \cap S # {}

-----------------------------------------------------------------------------
\* SaveEvents.

\* The events are deduplicated and get their IDs, and the transaction begins.
SaveEvents(s) ==
    /\ pc[s] = "idle"
    /\ \E b \in Batches :
          /\ batch' = [batch EXCEPT ![s] = Dedupe(b)]
          /\ \E q \in NewIDs(Len(Dedupe(b)), EventIDs) : ids' = [ids EXCEPT ![s] = q]
    /\ Goto(s, "events")
    /\ UNCHANGED <<dbVars, plan, at, newEvents, newOutbox, acked, faults>>

\* ON CONFLICT DO NOTHING without a target: a row that meets another one, by its
\* key or by its ID, is passed over.
InsertEvent(s) ==
    /\ pc[s] = "events"
    /\ Inserting(s)
    /\ WaitsFor(s) = {}
    /\ newEvents' = [newEvents EXCEPT ![s] =
                        IF \E r \in events \cup @ : SameEvent(r, EventRow(s))
                        THEN @ ELSE @ \cup {EventRow(s)}]
    /\ at' = [at EXCEPT ![s] = @ + 1]
    /\ UNCHANGED <<dbVars, pc, batch, ids, plan, newOutbox, acked, faults>>

EventsInserted(s) ==
    /\ pc[s] = "events"
    /\ ~Inserting(s)
    /\ Goto(s, IF Planner THEN "select" ELSE "commit")
    /\ ids' = [ids EXCEPT ![s] = <<>>]
    /\ at' = [at EXCEPT ![s] = 1]
    /\ UNCHANGED <<dbVars, batch, plan, newEvents, newOutbox, acked, faults>>

\* The rows of the batch that are read back.
Persisted(s) == {r \in events \cup newEvents[s] : \E e \in Range(batch[s]) : e.key = r.key}

Found(s, e)  == \E r \in Persisted(s) : r.key = e.key

\* One row for every event and route.  It refers to the row that is in the
\* table, whoever inserted it.
EventIDX(s, i) == (CHOOSE r \in Persisted(s) : TRUE).id
EventID(s, i)  == (CHOOSE r \in Persisted(s) : r.key = batch[s][i].key).id

PlannedRow(s, q, j) ==
    LET n == Len(Routes)
        i == ((j - 1) \div n) + 1
        e == batch[s][i]
    IN  [id |-> q[j], event |-> EventID(s, i), key |-> e.key, name |-> e.name,
         route |-> Routes[((j - 1) % n) + 1]]

PlanOutbox(s) ==
    /\ pc[s] = "select"
    /\ \A e \in Range(batch[s]) : Found(s, e)
    /\ \E q \in NewIDs(Len(batch[s]) * Len(Routes), OutboxIDs) :
          /\ ids' = [ids EXCEPT ![s] = q]
          /\ plan' = [plan EXCEPT ![s] = [j \in DOMAIN q |-> PlannedRow(s, q, j)]]
    /\ Goto(s, "outbox")
    /\ UNCHANGED <<dbVars, batch, at, newEvents, newOutbox, acked, faults>>

\* An event is not in the table: its row was passed over for its ID.
EventMissing(s) ==
    /\ pc[s] = "select"
    /\ \E e \in Range(batch[s]) : ~Found(s, e)
    /\ Rollback(s)
    /\ UNCHANGED faults

\* Here the conflict has a target, the delivery: a row that meets another one by
\* its ID alone is an error.
InsertOutbox(s) ==
    /\ pc[s] = "outbox"
    /\ Inserting(s)
    /\ WaitsFor(s) = {}
    /\ LET row == OutboxRow(s)
           met == {r \in outbox \cup newOutbox[s] : SameOutbox(r, row)}
       IN  \/ /\ met = {}
              /\ newOutbox' = [newOutbox EXCEPT ![s] = @ \cup {row}]
           \/ /\ \E r \in met : SameDelivery(r, row)
              /\ UNCHANGED newOutbox
    /\ at' = [at EXCEPT ![s] = @ + 1]
    /\ UNCHANGED <<dbVars, pc, batch, ids, plan, newEvents, acked, faults>>

OutboxRefused(s) ==
    /\ pc[s] = "outbox"
    /\ Inserting(s)
    /\ WaitsFor(s) = {}
    /\ \E r \in outbox \cup newOutbox[s] : r.id = OutboxRow(s).id
    /\ \A r \in outbox \cup newOutbox[s] : ~SameDelivery(r, OutboxRow(s))
    /\ Rollback(s)
    /\ UNCHANGED faults

OutboxInserted(s) ==
    /\ pc[s] = "outbox"
    /\ ~Inserting(s)
    /\ Goto(s, "commit")
    /\ ids' = [ids EXCEPT ![s] = <<>>]
    /\ plan' = [plan EXCEPT ![s] = <<>>]
    /\ at' = [at EXCEPT ![s] = 1]
    /\ UNCHANGED <<dbVars, batch, newEvents, newOutbox, acked, faults>>

CommitRows(s) ==
    /\ pc[s] = "commit"
    /\ events' = events \cup newEvents[s]
    /\ outbox' = outbox \cup newOutbox[s]
    /\ Returns(s)

Commit(s) ==
    /\ CommitRows(s)
    /\ acked' = acked \cup {e.key : e \in Range(batch[s])}
    /\ UNCHANGED faults

\* The transaction commits, and the call reports an error.
CommitLost(s) ==
    /\ CommitRows(s)
    /\ Fault
    /\ UNCHANGED acked

\* A statement fails, the context is done, or the process dies.
Fails(s) ==
    /\ pc[s] # "idle"
    /\ Fault
    /\ Rollback(s)

\* The database aborts one of the transactions that wait in a circle.
DeadlockAbort(s) ==
    /\ Deadlocked(s)
    /\ Rollback(s)
    /\ UNCHANGED faults

Step(s) ==
    \/ InsertEvent(s) \/ EventsInserted(s) \/ PlanOutbox(s) \/ EventMissing(s)
    \/ InsertOutbox(s) \/ OutboxRefused(s) \/ OutboxInserted(s) \/ Commit(s)

Next ==
    \E s \in Savers : SaveEvents(s) \/ Step(s) \/ CommitLost(s) \/ Fails(s) \/ DeadlockAbort(s)

Spec == Init /\ [][Next]_vars

\* Statements return, and the database looks for deadlocks.  A saver that waits
\* is not passed over for ever: it has its place among those who wait for a row.
Fairness == \A s \in Savers : SF_vars(Step(s)) /\ WF_vars(DeadlockAbort(s))

FairSpec == Spec /\ Fairness

-----------------------------------------------------------------------------
\* Properties.

\* An event and its notifications are there together or not at all, and a
\* notification belongs to the row of its event, which another call may have
\* inserted under another ID.
OutboxMatchesEvents ==
    /\ \A o \in outbox : \E e \in events : e.id = o.event /\ e.key = o.key
    /\ Planner => \A e \in events : \A r \in Range(Routes) :
                      \E o \in outbox : o.event = e.id /\ o.key = e.key /\ o.route = r

\* A call that reports success has its events in chain_events, the ones that
\* others were inserting and that were passed over included.
Stored == \A k \in acked : \E e \in events : e.key = k

\* The transactions behave as if each took effect at once: its events and their
\* notifications, or nothing.
Ledger == INSTANCE EventLedger WITH
    Routes   <- IF Planner THEN Routes ELSE <<>>,
    recorded <- {e.key : e \in events},
    notes    <- {<<o.key, o.name, o.route>> : o \in outbox}
Implements == Ledger!Spec

\* Every call returns, whatever it has to wait for.
SaveEnds == \A s \in Savers : pc[s] # "idle" ~> pc[s] = "idle"

-----------------------------------------------------------------------------
\* Why they hold.

\* A call may report success: the events were read back, or their IDs cannot
\* have been in use.
Accounted == Planner \/ ~MayCollide

\* What the transaction of s finds in the tables.
InTable(s)  == events \cup newEvents[s]
InOutbox(s) == outbox \cup newOutbox[s]

AllEvents == events \cup UNION {newEvents[s] : s \in Savers}

HasEvent(s, e)        == \E r \in InTable(s) : r.key = e.key
BelongsTo(o, rows)    == \E e \in rows : e.id = o.event /\ e.key = o.key
Announces(o, e, r)    == o.key = e.key /\ o.name = e.name /\ o.route = r
NotificationOf(s, o)  ==
    /\ \E e \in Range(batch[s]) : Announces(o, e, o.route)
    /\ BelongsTo(o, InTable(s))

\* The batch is what is left of one that was passed in, and the transaction holds
\* nothing else.
CallInv(s) ==
    /\ pc[s] = "idle" => at[s] = 1 /\ newEvents[s] = {} /\ newOutbox[s] = {}
    /\ pc[s] # "idle" => \E b \in Batches : batch[s] = Dedupe(b)
    /\ pc[s] = "events" => Len(ids[s]) = Len(batch[s]) /\ newOutbox[s] = {}
    /\ pc[s] = "select" => at[s] = 1 /\ newOutbox[s] = {}
    /\ pc[s] = "outbox" => Len(ids[s]) = Len(plan[s])
    /\ pc[s] \in {"select", "outbox"} \/ newOutbox[s] # {} => Planner
    /\ \A r \in newEvents[s] : \E e \in Range(batch[s]) : e.key = r.key

\* No two rows of chain_events have a key in common, not even before they are
\* committed.
KeysInv == \A a, b \in AllEvents : a.key = b.key => a = b

\* With unique IDs, the IDs of the rows still to be inserted are in no row, and
\* no two calls have any in common.
FreshInv ==
    ~MayCollide =>
        \A s \in Savers : pc[s] = "events" =>
            /\ IsInjective(ids[s])
            /\ \A i \in at[s]..Len(ids[s]) : \A r \in AllEvents : r.id # ids[s][i]
            /\ \A t \in Savers \ {s} : pc[t] = "events" =>
                  Range(ids[s]) \cap Range(ids[t]) = {}

\* Which events of its batch a call has in the table: those it is past, and all
\* of them once they were found there.
SavedInv(s) ==
    /\ pc[s] = "events" /\ ~MayCollide =>
          \A i \in 1..(at[s] - 1) : HasEvent(s, batch[s][i])
    /\ pc[s] = "select" /\ ~MayCollide => \A e \in Range(batch[s]) : HasEvent(s, e)
    /\ pc[s] = "outbox" => \A e \in Range(batch[s]) : HasEvent(s, e)
    /\ pc[s] = "commit" /\ Accounted => \A e \in Range(batch[s]) : HasEvent(s, e)

\* The plan has a row for every event and route, and those it is past are in
\* the outbox, as all of them are before the transaction commits.
PlanInv(s) ==
    /\ \A o \in newOutbox[s] : NotificationOf(s, o)
    /\ pc[s] = "outbox" =>
          /\ \A j \in DOMAIN plan[s] : NotificationOf(s, plan[s][j])
          /\ \A e \in Range(batch[s]), r \in Range(Routes) :
                \E j \in DOMAIN plan[s] : Announces(plan[s][j], e, r)
          /\ \A j \in 1..(at[s] - 1) :
                \E o \in InOutbox(s) : SameDelivery(o, plan[s][j])
    /\ pc[s] = "commit" /\ Planner =>
          \A e \in Range(batch[s]), r \in Range(Routes) :
              \E o \in InOutbox(s) : Announces(o, e, r)

SaverInv(s) == CallInv(s) /\ SavedInv(s) /\ PlanInv(s)

IndInv ==
    /\ TypeOK
    /\ \A s \in Savers : SaverInv(s)
    /\ KeysInv
    /\ FreshInv
    /\ OutboxMatchesEvents
    /\ Accounted => Stored
=============================================================================
