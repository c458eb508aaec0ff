----------------------------- MODULE Dispatcher -----------------------------
(***************************************************************************)
(* The notification dispatcher (src/notifications/dispatcher.go) on the    *)
(* rows of notification_outbox (src/database/store_notification_outbox.go),*)
(* with the Telegram sender as what may happen to a message.               *)
(*                                                                         *)
(* Workers, in one process or in several, claim rows that are due under a  *)
(* lease, send each one and mark it sent or failed.  A row whose lease has *)
(* run out is claimed again by anyone.                                     *)
(*                                                                         *)
(* Time.  There is no clock: every point in time the code stores is kept   *)
(* as how far off it is, and Tick moves all of them by one unit.  Send is  *)
(* bounded by its context's deadline.  What else a worker does takes no    *)
(* time, but for a claim, whose "now" may be old when it commits, and for  *)
(* the times it stands still, which nothing bounds.                        *)
(*                                                                         *)
(* Simplifications.  A call on the database is one step.  The rows of a    *)
(* batch are sent in any order, and a claim takes any of the rows that are *)
(* due: SKIP LOCKED passes over rows another claim holds, so the order of  *)
(* next_retry_at is no guarantee.  Every row's channel has a sender, which *)
(* the filter on the channels ensures.  A worker that is shut down is one  *)
(* that crashes: with its context done, no call of it has an effect.  The  *)
(* program makes batches of one row; the library takes any size.           *)
(***************************************************************************)
EXTENDS Integers, FiniteSets

CONSTANTS
    Rows,           \* the rows of notification_outbox
    NoRow,          \* no row
    Workers,        \* the goroutines that run Dispatcher.Run
    IDs,            \* worker identifiers
    NoID,           \* the empty locked_by
    WorkerID,       \* WorkerID[w]: the identifier of worker w
    BatchSize,      \* DispatcherConfig.BatchSize
    LockDuration,   \* DispatcherConfig.LockDuration
    SendTimeout,    \* DispatcherConfig.SendTimeout
    RetryBaseDelay, \* DispatcherConfig.RetryBaseDelay
    RetryMaxDelay,  \* DispatcherConfig.RetryMaxDelay
    MaxRetries,     \* NotificationOutbox.MaxRetries, or its default
    MaxRetryAfter,  \* bound on the retry_after Telegram asks for
    MaxClaimDelay,  \* bound on the age of a claim's "now" when it commits
    MayPause,       \* whether a process may stand still before it sends
    MaxFaults       \* bound on crashes, pauses and lost or failed calls

ASSUME DispatcherAssumption ==
    /\ IsFiniteSet(Rows)
    /\ IsFiniteSet(Workers)
    /\ NoRow \notin Rows
    /\ NoID \notin IDs
    /\ WorkerID \in [Workers -> IDs]
    /\ BatchSize \in Nat \ {0}
    /\ LockDuration \in Nat \ {0}
    /\ SendTimeout \in Nat \ {0}
    /\ RetryBaseDelay \in Nat \ {0}
    /\ RetryMaxDelay \in Nat \ {0}
    /\ MaxRetries \in Nat \ {0}
    /\ MaxRetryAfter \in Nat
    /\ MaxClaimDelay \in Nat
    /\ MayPause \in BOOLEAN
    /\ MaxFaults \in Nat

VARIABLES
    row,        \* row[r]: row r of notification_outbox
    pc,         \* where worker w is in Run and sendOne
    todo,       \* todo[w]: the rows of worker w's batch it is not done with
    snap,       \* snap[w][r]: RetryCount in worker w's copy of row r
    cur,        \* cur[w]: the row worker w sends or marks
    result,     \* result[w]: what Send returned to worker w
    timer,      \* timer[w]: the time worker w may still send, or has to sleep
    paused,     \* paused[w]: worker w stands still
    faults      \* how many faults are left

\* What happened so far, for the properties to speak of.
VARIABLES
    delivered,  \* delivered[r]: how often Telegram posted the message of row r
    failed,     \* failed[r]: how often Send returned an error for row r
    excuses     \* excuses[r]: how often a lease ran out, or an answer was lost

workerVars  == <<pc, todo, snap, cur, result, timer, paused>>
historyVars == <<delivered, failed, excuses>>
vars        == <<row, workerVars, historyVars, faults>>

Least(a, b)    == IF a <= b THEN a ELSE b
Greatest(a, b) == IF a >= b THEN a ELSE b

Statuses == {"pending", "processing", "sent", "failed", "dead"}

\* nextRetry and lease are how far off next_retry_at and locked_until are.  Once
\* they are past by more than any claim's "now" can be old, it no longer matters
\* by how much.  An absent locked_until is one that is past.
MinRetry == -MaxClaimDelay
MinLease == -1 - MaxClaimDelay

\* A row is put off by no more than the longest delay, and is locked for no
\* longer than the lock duration.
MaxRetry == Greatest(Greatest(RetryBaseDelay, RetryMaxDelay), MaxRetryAfter + 1)

RowType == [status: Statuses, retries: Nat, lockedBy: IDs \cup {NoID},
            nextRetry: MinRetry..MaxRetry, lease: MinLease..LockDuration]

Results  == [ok: BOOLEAN, after: 0..MaxRetryAfter]
NoResult == [ok |-> FALSE, after |-> 0]

TypeOK ==
    /\ row \in [Rows -> RowType]
    /\ pc \in [Workers -> {"poll", "send", "sending", "mark", "cooldown", "down"}]
    /\ todo \in [Workers -> SUBSET Rows]
    /\ snap \in [Workers -> [Rows -> Nat]]
    /\ cur \in [Workers -> Rows \cup {NoRow}]
    /\ result \in [Workers -> Results]
    /\ timer \in [Workers -> Nat]
    /\ paused \in [Workers -> BOOLEAN]
    /\ faults \in 0..MaxFaults
    /\ delivered \in [Rows -> Nat]
    /\ failed \in [Rows -> Nat]
    /\ excuses \in [Rows -> Nat]

Init ==
    /\ row = [r \in Rows |-> [status |-> "pending", retries |-> 0, lockedBy |-> NoID,
                              nextRetry |-> 0, lease |-> MinLease]]
    /\ pc = [w \in Workers |-> "poll"]
    /\ todo = [w \in Workers |-> {}]
    /\ snap = [w \in Workers |-> [r \in Rows |-> 0]]
    /\ cur = [w \in Workers |-> NoRow]
    /\ result = [w \in Workers |-> NoResult]
    /\ timer = [w \in Workers |-> 0]
    /\ paused = [w \in Workers |-> FALSE]
    /\ delivered = [r \in Rows |-> 0]
    /\ failed = [r \in Rows |-> 0]
    /\ excuses = [r \in Rows |-> 0]
    /\ faults = MaxFaults

-----------------------------------------------------------------------------
\* Helpers.  A definition whose name ends in X is the one after it with a bug
\* that the checks are tried on.

Goto(w, where) == pc' = [pc EXCEPT ![w] = where]

\* One of the faults the bound leaves.
Fault == faults > 0 /\ faults' = faults - 1

Count(f, r) == f' = [f EXCEPT ![r] = @ + 1]

\* Worker w is done with a row: it goes on with the rest of its batch.
DoneWith(w, r) ==
    /\ todo' = [todo EXCEPT ![w] = @ \ {r}]
    /\ snap' = [snap EXCEPT ![w][r] = 0]
    /\ cur' = [cur EXCEPT ![w] = NoRow]
    /\ result' = [result EXCEPT ![w] = NoResult]
    /\ paused' = [paused EXCEPT ![w] = FALSE]

\* retryDelay: the base delay, doubled with every retry but for the first ten
\* times only, and no more than the maximum.
Doubled == <<1, 2, 4, 8, 16, 32, 64, 128, 256, 512, 1024>>

RetryDelay(n) ==
    IF n <= 1 THEN RetryBaseDelay
    ELSE Least(RetryBaseDelay * Doubled[Least(n - 1, 10) + 1], RetryMaxDelay)

-----------------------------------------------------------------------------
\* NotificationOutboxStore.ClaimDue.

Expired(r, age) == row[r].lease + age < 0

\* What the query selects, for a "now" taken age units ago.
DueX(r, age) ==
    /\ row[r].nextRetry + age <= 0
    /\ row[r].status \in {"pending", "failed", "processing"}
DueX2(r, age) ==
    /\ row[r].nextRetry + age <= 0
    /\ row[r].status \in {"pending", "failed"}
Due(r, age) ==
    /\ row[r].nextRetry + age <= 0
    /\ \/ row[r].status \in {"pending", "failed"}
       \/ row[r].status = "processing" /\ Expired(r, age)

\* The rows a claim may get: as many as it asks for of those that are due.
Claimable(age) ==
    {S \in SUBSET {r \in Rows : Due(r, age)} : S # {} /\ Cardinality(S) <= BatchSize}

\* The update of the rows, and what the claim says of them: that a lease ran out.
Lock(w, S, age) ==
    /\ row' = [r \in Rows |->
                 IF r \in S
                 THEN [row[r] EXCEPT !.status = "processing",
                                     !.lockedBy = WorkerID[w],
                                     !.lease = LockDuration - age]
                 ELSE row[r]]
    /\ excuses' = [r \in Rows |->
                     IF r \in S /\ row[r].status = "processing" /\ Expired(r, age)
                     THEN excuses[r] + 1 ELSE excuses[r]]

\* ClaimDue returns rows.  An error, or no row, leaves everything as it is.
Claim(w) ==
    /\ pc[w] = "poll"
    /\ \E age \in 0..MaxClaimDelay :
       \E S \in Claimable(age) :
          /\ Lock(w, S, age)
          /\ todo' = [todo EXCEPT ![w] = S]
          /\ snap' = [snap EXCEPT ![w] = [r \in Rows |-> IF r \in S THEN row[r].retries
                                                                  ELSE 0]]
    /\ Goto(w, "send")
    /\ UNCHANGED <<cur, result, timer, paused, delivered, failed, faults>>

\* The claim commits, but the worker is told that it failed.
ClaimLost(w) ==
    /\ pc[w] = "poll"
    /\ Fault
    /\ \E age \in 0..MaxClaimDelay :
       \E S \in Claimable(age) : Lock(w, S, age)
    /\ UNCHANGED <<workerVars, delivered, failed>>

-----------------------------------------------------------------------------
\* Sending a row: sendOne up to the result of Send.

StartSend(w) ==
    /\ pc[w] = "send"
    /\ \E r \in todo[w] : cur' = [cur EXCEPT ![w] = r]
    /\ timer' = [timer EXCEPT ![w] = SendTimeout]
    /\ paused' = [paused EXCEPT ![w] = FALSE]
    /\ Goto(w, "sending")
    /\ UNCHANGED <<row, todo, snap, result, historyVars, faults>>

\* Send returns, with an error or without, within its deadline.
SendReturns(w, ok, after) ==
    /\ pc[w] = "sending"
    /\ result' = [result EXCEPT ![w] = [ok |-> ok, after |-> after]]
    /\ timer' = [timer EXCEPT ![w] = 0]
    /\ Goto(w, "mark")
    /\ UNCHANGED <<row, todo, snap, cur, paused>>

SendOk(w) ==
    /\ SendReturns(w, TRUE, 0)
    /\ Count(delivered, cur[w])
    /\ UNCHANGED <<failed, excuses, faults>>

\* Nothing was posted: the local rate limiter has no room before the deadline,
\* or Telegram refuses, and may ask to be left alone for a while.
SendErr(w) ==
    /\ \E after \in 0..MaxRetryAfter : SendReturns(w, FALSE, after)
    /\ Count(failed, cur[w])
    /\ UNCHANGED <<delivered, excuses, faults>>

\* The message was posted and the answer did not come back in time.
SendLost(w) ==
    /\ SendReturns(w, FALSE, 0)
    /\ Fault
    /\ Count(delivered, cur[w])
    /\ Count(failed, cur[w])
    /\ Count(excuses, cur[w])

-----------------------------------------------------------------------------
\* Marking it: sendOne from the result of Send, MarkSent and MarkFailed.

\* The update only finds the row while it is locked under the worker's name.
\* That it found none is not looked at.
OwnsX(w, r) == TRUE
Owns(w, r)  == row[r].lockedBy = WorkerID[w]

Unlocked(status, retries, nextRetry) ==
    [status |-> status, retries |-> retries, lockedBy |-> NoID,
     nextRetry |-> nextRetry, lease |-> MinLease]

\* The bug: the row stays under the worker's name.
SetRowX(w, r, updated) ==
    row' = IF Owns(w, r) THEN [row EXCEPT ![r] = [updated EXCEPT !.lockedBy = WorkerID[w]]]
                         ELSE row
SetRow(w, r, updated) ==
    row' = IF Owns(w, r) THEN [row EXCEPT ![r] = updated] ELSE row

Next1(w) == IF todo[w] \ {cur[w]} = {} THEN "poll" ELSE "send"

MarkSent(w) ==
    LET r == cur[w]
    IN  /\ pc[w] = "mark"
        /\ result[w].ok
        /\ SetRow(w, r, Unlocked("sent", row[r].retries, row[r].nextRetry))
        /\ DoneWith(w, r)
        /\ Goto(w, Next1(w))
        /\ UNCHANGED <<timer, historyVars, faults>>

\* Whether n failed sends are enough to give a row up.
GivesUpX(n) == n + 1 >= MaxRetries
GivesUp(n)  == n >= MaxRetries

\* RetryCount is counted on from the worker's copy of the row.
MarkFailed(w) ==
    LET r == cur[w]
        retries == snap[w][r] + 1
        delay == Greatest(RetryDelay(retries), result[w].after + 1)
    IN  /\ pc[w] = "mark"
        /\ ~result[w].ok
        /\ SetRow(w, r, IF GivesUp(retries)
                        THEN Unlocked("dead", retries, 0)
                        ELSE Unlocked("failed", retries, delay))
        /\ IF result[w].after > 0
           THEN /\ timer' = [timer EXCEPT ![w] = result[w].after + 1]
                /\ Goto(w, "cooldown")
           ELSE UNCHANGED timer /\ Goto(w, Next1(w))
        /\ DoneWith(w, r)
        /\ UNCHANGED <<historyVars, faults>>

\* The update fails: the row stays locked until its lease runs out.
MarkErr(w) ==
    /\ pc[w] = "mark"
    /\ Fault
    /\ DoneWith(w, cur[w])
    /\ Goto(w, Next1(w))
    /\ UNCHANGED <<row, timer, historyVars>>

\* The sleep after a retry_after is over.
CooldownEnds(w) ==
    /\ pc[w] = "cooldown"
    /\ timer[w] = 0
    /\ Goto(w, IF todo[w] = {} THEN "poll" ELSE "send")
    /\ UNCHANGED <<row, todo, snap, cur, result, timer, paused, historyVars, faults>>

-----------------------------------------------------------------------------
\* The process a worker runs in, and time.

\* The context of the worker is done, or its process dies.
Crash(w) ==
    /\ pc[w] # "down"
    /\ Fault
    /\ Goto(w, "down")
    /\ todo' = [todo EXCEPT ![w] = {}]
    /\ snap' = [snap EXCEPT ![w] = [r \in Rows |-> 0]]
    /\ cur' = [cur EXCEPT ![w] = NoRow]
    /\ result' = [result EXCEPT ![w] = NoResult]
    /\ timer' = [timer EXCEPT ![w] = 0]
    /\ paused' = [paused EXCEPT ![w] = FALSE]
    /\ UNCHANGED <<row, historyVars>>

Restart(w) ==
    /\ pc[w] = "down"
    /\ Goto(w, "poll")
    /\ UNCHANGED <<row, todo, snap, cur, result, timer, paused, historyVars, faults>>

\* A worker stands still: the update of MarkSent or MarkFailed has no deadline
\* and may take long, and so may the way from ClaimDue to Send in a process that
\* is suspended.
Pause(w) ==
    /\ pc[w] = "mark" \/ (pc[w] = "send" /\ MayPause)
    /\ ~paused[w]
    /\ Fault
    /\ paused' = [paused EXCEPT ![w] = TRUE]
    /\ UNCHANGED <<row, pc, todo, snap, cur, result, timer, historyVars>>

\* A unit of time passes.  Send does not outlive its deadline, nor does a worker
\* that does not stand still take any time to send or to mark.
Tick ==
    /\ \A w \in Workers : /\ pc[w] = "sending" => timer[w] > 0
                          /\ pc[w] \in {"send", "mark"} => paused[w]
    /\ row' = [r \in Rows |->
                 [row[r] EXCEPT !.nextRetry = Greatest(@ - 1, MinRetry),
                                !.lease = Greatest(@ - 1, MinLease)]]
    /\ timer' = [w \in Workers |-> Greatest(timer[w] - 1, 0)]
    /\ UNCHANGED <<pc, todo, snap, cur, result, paused, historyVars, faults>>

-----------------------------------------------------------------------------

Step(w) ==
    \/ Claim(w) \/ StartSend(w) \/ SendOk(w) \/ SendErr(w)
    \/ MarkSent(w) \/ MarkFailed(w) \/ CooldownEnds(w)

Trouble(w) ==
    \/ ClaimLost(w) \/ SendLost(w) \/ MarkErr(w)
    \/ Crash(w) \/ Restart(w) \/ Pause(w)

Next == Tick \/ \E w \in Workers : Step(w) \/ Trouble(w)

Spec == Init /\ [][Next]_vars

\* Time passes, workers that run are scheduled and their calls return.  Nothing
\* is assumed of restarts or of what Telegram answers.
Fairness == WF_vars(Tick) /\ \A w \in Workers : WF_vars(Step(w))

FairSpec == Spec /\ Fairness

-----------------------------------------------------------------------------
\* Properties.

Sending(r) == {w \in Workers : pc[w] = "sending" /\ cur[w] = r}

\* No two workers send the same row at the same time: the lease outlasts the
\* send it was taken for.  Holds of batches of one row, the only ones the
\* program uses with Telegram, while no process stands still.
SendExclusive == \A r \in Rows : \A v, w \in Sending(r) : v = w

\* Telegram posts the message of a row once, and once more only for a lease that
\* ran out before the row was marked or an answer that was lost.
DuplicatesExplained == \A r \in Rows : delivered[r] <= 1 + excuses[r]

\* A row is marked sent only when its message was posted, and given up only after
\* as many sends of it failed as it has retries.
SettledForCause ==
    \A r \in Rows : /\ row[r].status = "sent" => delivered[r] > 0
                    /\ row[r].status = "dead" => failed[r] >= MaxRetries

\* What is sent or given up stays so, whatever a worker that comes late does, one
\* with the same identifier included.
SettledForGood ==
    [][\A r \in Rows : row[r].status \in {"sent", "dead"}
                          => row'[r].status = row[r].status]_vars

\* The workers deliver as the outbox promises.
Promise == INSTANCE Delivery WITH
    state    <- [r \in Rows |-> IF row[r].status \in {"sent", "dead"}
                               THEN row[r].status ELSE "open"],
    posted   <- delivered,
    failures <- failed,
    excused  <- excuses
Implements == Promise!Spec

Up(w) == pc[w] # "down"

\* Every notification is sent or given up in the end, provided some worker stays
\* up: no row is left locked by a worker that died or lost its answer.
EventuallySettled ==
    (\E w \in Workers : <>[]Up(w)) =>
        \A r \in Rows : <>(row[r].status \in {"sent", "dead"})

-----------------------------------------------------------------------------
\* The invariants the proofs go by induction on.

\* Where a worker is and what it holds.
WorkerInv(w) ==
    /\ pc[w] \in {"sending", "mark"} => cur[w] \in todo[w]
    /\ pc[w] \notin {"sending", "mark"} => cur[w] = NoRow
    /\ pc[w] # "mark" => ~result[w].ok
    /\ pc[w] \in {"poll", "down"} => todo[w] = {}

\* The failed sends a worker's copy of a row stands for are failed sends of it.
\* With the send that failed last they are one more; a send that did not fail
\* was a post.
CopyInv(w) ==
    /\ \A r \in todo[w] : snap[w][r] <= failed[r]
    /\ pc[w] = "mark" =>
          IF result[w].ok THEN delivered[cur[w]] > 0
                          ELSE snap[w][cur[w]] < failed[cur[w]]

\* The workers that may still post the message of a row, or take the post back
\* by marking the row failed.
Live(r) == {w \in Workers : r \in todo[w] /\ ~(cur[w] = r /\ result[w].ok)}

RowInv(r) ==
    /\ row[r].lockedBy # NoID => row[r].status = "processing"
    /\ row[r].retries <= failed[r]
    /\ row[r].status = "sent" => delivered[r] > 0
    /\ row[r].status = "dead" => row[r].retries >= MaxRetries
    /\ delivered[r] + Cardinality(Live(r))
          <= excuses[r] + (IF row[r].status \in {"processing", "sent"} THEN 1 ELSE 0)

DeliveryInv ==
    /\ TypeOK
    /\ \A w \in Workers : WorkerInv(w) /\ CopyInv(w)
    /\ \A r \in Rows : RowInv(r)

\* What the program provides for leases to work: batches of one row, identifiers
\* that are not shared, a lease as long as a send and the age of the claim.
LeasesFit ==
    /\ BatchSize = 1
    /\ ~MayPause
    /\ \A v, w \in Workers : WorkerID[v] = WorkerID[w] => v = w
    /\ MaxClaimDelay + SendTimeout <= LockDuration

\* A worker has one row at a time, and as long as it sends it, the row is locked
\* for as long as that may take.
Leased(w) ==
    /\ paused[w] => pc[w] = "mark"
    /\ pc[w] \in {"send", "sending", "mark"} => \E r \in Rows : todo[w] = {r}
    /\ pc[w] \notin {"send", "sending", "mark"} => todo[w] = {}
    /\ pc[w] \in {"send", "sending"} =>
          \A r \in todo[w] :
              /\ row[r].lockedBy = WorkerID[w]
              /\ row[r].lease >= (IF pc[w] = "send" THEN SendTimeout ELSE timer[w])

LeaseInv == \A w \in Workers : Leased(w)
=============================================================================
