-------------------------------- MODULE IdGen --------------------------------
(***************************************************************************)
(* The snowflake generator (src/common/idgen/snowFlake.go) that makes the  *)
(* primary keys of chain_events and notification_outbox.                   *)
(*                                                                         *)
(* Each process has one generator, shared by the goroutines that save      *)
(* events: NextID runs under the generator's mutex and keeps it while it   *)
(* waits for the clock.  Each process runs on a machine with a clock of    *)
(* its own, which advances, and may be set back.  A process that restarts  *)
(* has forgotten the last millisecond it used.                             *)
(*                                                                         *)
(* Simplifications.  The layout is 10 bits of worker and 12 of sequence in *)
(* the code, WorkerSpan and SeqSpan here; the fields are put together with *)
(* a sum where the code has a bitwise or, which is the same as long as     *)
(* they are in range.  41 bits of milliseconds do not run out before 2093. *)
(***************************************************************************)
EXTENDS Integers

CONSTANTS
    Processes,          \* the processes that write to one database
    Callers,            \* the goroutines that call NextID
    None,               \* no caller
    ProcessOf,          \* ProcessOf[c]: the process caller c runs in
    WorkerID,           \* WorkerID[p]: Config.WorkerID in process p
    WorkerSpan,         \* maxWorkerID + 1
    SeqSpan,            \* sequenceMax + 1
    Epoch,              \* Config.EpochMillis
    MaxBackward,        \* Config.MaxClockBackward, in milliseconds
    MayRestartBehind,   \* whether a process may restart with its clock behind
    MaxMillis,          \* bound on the clocks
    MaxFaults           \* bound on cancelled calls, restarts and set clocks

ASSUME IdGenAssumption ==
    /\ None \notin Callers
    /\ ProcessOf \in [Callers -> Processes]
    /\ WorkerSpan \in Nat \ {0}
    /\ SeqSpan \in Nat \ {0}
    /\ WorkerID \in [Processes -> 0..(WorkerSpan - 1)]
    /\ Epoch \in Nat
    /\ MaxBackward \in Nat
    /\ MayRestartBehind \in BOOLEAN
    /\ MaxMillis \in Nat
    /\ MaxFaults \in Nat

VARIABLES
    clock,      \* clock[p]: what time.Now says in process p
    last,       \* last[p]: lastMillis of the generator of process p
    seq,        \* seq[p]: its sequence
    mu,         \* mu[p]: the caller that has its mutex
    pc,         \* where caller c is in NextID
    faults      \* how many faults are left

\* What was returned so far, for the properties to speak of.
VARIABLES
    issued,     \* issued[p]: the IDs process p was given
    repeated    \* the IDs that were given out again

genVars     == <<last, seq, mu>>
historyVars == <<issued, repeated>>
vars        == <<clock, genVars, pc, historyVars, faults>>

SequenceMax == SeqSpan - 1
Millis      == 0..MaxMillis

TypeOK ==
    /\ clock \in [Processes -> Millis]
    /\ last \in [Processes -> Millis \cup {-1}]
    /\ seq \in [Processes -> Nat]
    /\ mu \in [Processes -> Callers \cup {None}]
    /\ pc \in [Callers -> {"idle", "lock", "recovery", "overflow"}]
    /\ issued \in [Processes -> SUBSET Int]
    /\ repeated \subseteq Int
    /\ faults \in 0..MaxFaults

-----------------------------------------------------------------------------
\* The layout of an ID.

Pack(m, w, s) == ((m - Epoch) * WorkerSpan + w) * SeqSpan + s

\* Parse takes an ID apart again.
ParseX(id) == [millis |-> id \div SeqSpan + Epoch,
               worker |-> (id \div SeqSpan) % WorkerSpan,
               seq    |-> id % SeqSpan]
Parse(id) == [millis |-> id \div (WorkerSpan * SeqSpan) + Epoch,
              worker |-> (id \div SeqSpan) % WorkerSpan,
              seq    |-> id % SeqSpan]

AllIssued == UNION {issued[p] : p \in Processes}

\* Whether a process that has just started may see its clock at t: after every
\* millisecond that it used before, unless restarts may be behind.
FreshAt(p, t) ==
    MayRestartBehind \/ \A id \in issued[p] : id < Pack(t, WorkerID[p], 0)

-----------------------------------------------------------------------------
\* NextID.  A definition whose name ends in X is the one after it with a bug
\* that the checks are tried on.

Init ==
    /\ clock \in [Processes -> Millis]
    /\ last = [p \in Processes |-> -1]
    /\ seq = [p \in Processes |-> 0]
    /\ mu = [p \in Processes |-> None]
    /\ pc = [c \in Callers |-> "idle"]
    /\ issued = [p \in Processes |-> {}]
    /\ repeated = {}
    /\ faults = MaxFaults

Fault == faults > 0 /\ faults' = faults - 1

Goto(c, where) == pc' = [pc EXCEPT ![c] = where]

Call(c) ==
    /\ pc[c] = "idle"
    /\ Goto(c, "lock")
    /\ UNCHANGED <<clock, genVars, historyVars, faults>>

\* The generator moves to millisecond m and sequence s, and returns their ID.
Return(c, p, m, s) ==
    LET id == Pack(m, WorkerID[p], s)
    IN  /\ last' = [last EXCEPT ![p] = m]
        /\ seq' = [seq EXCEPT ![p] = s]
        /\ mu' = [mu EXCEPT ![p] = None]
        /\ issued' = [issued EXCEPT ![p] = @ \cup {id}]
        /\ repeated' = repeated \cup ({id} \cap AllIssued)
        /\ Goto(c, "idle")
        /\ UNCHANGED <<clock, faults>>

\* Caller c takes the mutex and reads the clock.
Enters(c, p) ==
    /\ p = ProcessOf[c]
    /\ pc[c] = "lock"
    /\ mu[p] = None

\* The clock has moved on: the sequence starts again.
NextMillisX(c, p) ==
    /\ Enters(c, p)
    /\ clock[p] # last[p]
    /\ Return(c, p, clock[p], 0)
NextMillis(c, p) ==
    /\ Enters(c, p)
    /\ clock[p] > last[p]
    /\ Return(c, p, clock[p], 0)

\* Whether the sequence can still be counted up in its millisecond.
HasRoomX(p) == seq[p] < SequenceMax + 1
HasRoom(p)  == seq[p] < SequenceMax

SameMillis(c, p) ==
    /\ Enters(c, p)
    /\ clock[p] = last[p]
    /\ HasRoom(p)
    /\ Return(c, p, last[p], seq[p] + 1)

\* The caller keeps the mutex and waits.
Waits(c, p, why) ==
    /\ mu' = [mu EXCEPT ![p] = c]
    /\ Goto(c, why)
    /\ UNCHANGED <<clock, last, historyVars, faults>>

\* The sequence is past its maximum already when the wait begins.
Overflows(c, p) ==
    /\ Enters(c, p)
    /\ clock[p] = last[p]
    /\ ~HasRoom(p)
    /\ seq' = [seq EXCEPT ![p] = @ + 1]
    /\ Waits(c, p, "overflow")

\* The clock was set back, by no more than the generator waits for.
Recovers(c, p) ==
    /\ Enters(c, p)
    /\ clock[p] < last[p]
    /\ last[p] - clock[p] <= MaxBackward
    /\ Waits(c, p, "recovery")
    /\ UNCHANGED seq

\* It was set back by more: the call fails.
Refuses(c, p) ==
    /\ Enters(c, p)
    /\ last[p] - clock[p] > MaxBackward
    /\ Goto(c, "idle")
    /\ UNCHANGED <<clock, genVars, historyVars, faults>>

Waiting(c) == pc[c] \in {"recovery", "overflow"}

\* waitNextMillis returns: either way the sequence starts again.
WaitEnds(c, p) ==
    /\ p = ProcessOf[c]
    /\ Waiting(c)
    /\ clock[p] > last[p]
    /\ Return(c, p, clock[p], 0)

\* The context of the call is done first: the sequence stays as it is.
WaitCancelledX(c, p) ==
    /\ p = ProcessOf[c]
    /\ Waiting(c)
    /\ Fault
    /\ Goto(c, "idle")
    /\ UNCHANGED <<clock, genVars, historyVars>>
WaitCancelled(c, p) ==
    /\ p = ProcessOf[c]
    /\ Waiting(c)
    /\ Fault
    /\ mu' = [mu EXCEPT ![p] = None]
    /\ Goto(c, "idle")
    /\ UNCHANGED <<clock, last, seq, historyVars>>

Step(c, p) ==
    \/ NextMillis(c, p) \/ SameMillis(c, p) \/ Overflows(c, p)
    \/ Recovers(c, p) \/ Refuses(c, p) \/ WaitEnds(c, p)

-----------------------------------------------------------------------------
\* The clocks and the processes.

Tick(p) ==
    /\ clock[p] < MaxMillis
    /\ clock' = [clock EXCEPT ![p] = @ + 1]
    /\ UNCHANGED <<genVars, pc, historyVars, faults>>

SetBack(p) ==
    /\ Fault
    /\ \E t \in Millis :
          /\ t < clock[p]
          /\ last[p] = -1 => FreshAt(p, t)
          /\ clock' = [clock EXCEPT ![p] = t]
    /\ UNCHANGED <<genVars, pc, historyVars>>

\* New makes another generator.
Restart(p) ==
    /\ Fault
    /\ FreshAt(p, clock[p])
    /\ last' = [last EXCEPT ![p] = -1]
    /\ seq' = [seq EXCEPT ![p] = 0]
    /\ mu' = [mu EXCEPT ![p] = None]
    /\ pc' = [c \in Callers |-> IF ProcessOf[c] = p THEN "idle" ELSE pc[c]]
    /\ UNCHANGED <<clock, historyVars>>

\* Where the bound on the clocks stops the model; the program would go on.
EndOfTime == (\A p \in Processes : clock[p] = MaxMillis) /\ UNCHANGED vars

Next ==
    \/ EndOfTime
    \/ \E p \in Processes : Tick(p) \/ SetBack(p) \/ Restart(p)
    \/ \E c \in Callers : Call(c) \/ \E p \in Processes : Step(c, p) \/ WaitCancelled(c, p)

Spec == Init /\ [][Next]_vars

\* The clocks advance, and who has the mutex is scheduled.  A caller that wants
\* the mutex gets it in the end although others take it again and again: a
\* sync.Mutex hands itself over to one that has waited for a millisecond.
Fairness ==
    /\ \A p \in Processes : WF_vars(Tick(p))
    /\ \A c \in Callers : SF_vars(Step(c, ProcessOf[c]))

FairSpec == Spec /\ Fairness

-----------------------------------------------------------------------------
\* Properties.

\* No ID is ever given out twice, wherever the clocks of running generators are
\* set back to, however many callers compete and wherever a call is cancelled.
\* That holds of restarts only while no process starts with its clock behind an
\* ID it was given (MayRestartBehind is FALSE): nothing in New looks for one.  A
\* repeated ID would be a repeated primary key, and SaveEvents inserts with ON
\* CONFLICT DO NOTHING.
Unique == repeated = {}

\* Each ID is greater than all that its process was given before, though clocks
\* are set back and processes restart, which again must not be behind the clock
\* they had (MayRestartBehind is FALSE): ClaimDue orders by ID as by age.
Increasing ==
    [][\A p \in Processes : \A new \in issued'[p] \ issued[p] :
          \A old \in issued[p] : old < new]_vars

\* Parse finds the process of an ID, and a time its clock may have shown,
\* however far the sequence was counted up.
Traceable ==
    \A p \in Processes : \A id \in issued[p] :
        /\ Parse(id).worker = WorkerID[p]
        /\ Parse(id).millis \in Millis

\* Nobody but a caller that waits keeps the mutex, and nobody waits without it:
\* a call that was cancelled leaves no lock behind.
MutexHeld ==
    \A p \in Processes : \A c \in Callers :
        mu[p] = c <=> Waiting(c) /\ ProcessOf[c] = p

\* Every call returns, cancelled or not, and whatever becomes of those before it:
\* unless the bound on the clocks is what a caller of its process waits for.
OutOfTime(p) ==
    /\ clock[p] = MaxMillis
    /\ \E c \in Callers : ProcessOf[c] = p /\ Waiting(c) /\ clock[p] <= last[p]
Returns == \A c \in Callers : pc[c] # "idle" ~> pc[c] = "idle" \/ OutOfTime(ProcessOf[c])

-----------------------------------------------------------------------------
\* The invariant the proofs go by induction on.  What the configuration has to
\* see to: that no two processes are given the same worker ID, and that no
\* process restarts with its clock behind.

DistinctWorkers == \A p, q \in Processes : WorkerID[p] = WorkerID[q] => p = q

CanGenerate == DistinctWorkers /\ ~MayRestartBehind

IDsOf(p) == {Pack(m, WorkerID[p], s) : m \in Millis, s \in 0..SequenceMax}

\* The last sequence number that was used in millisecond last[p]: counting it up
\* may have failed since.
LastSeq(p) == IF seq[p] > SequenceMax THEN SequenceMax ELSE seq[p]

\* A generator that has just started has its clock past all IDs, and any other
\* has given out none past its millisecond and sequence.
Ahead(p) ==
    \A id \in issued[p] :
        IF last[p] = -1 THEN id < Pack(clock[p], WorkerID[p], 0)
                        ELSE id <= Pack(last[p], WorkerID[p], LastSeq(p))

IndInv ==
    /\ TypeOK
    /\ Unique
    /\ \A p \in Processes : issued[p] \subseteq IDsOf(p) /\ Ahead(p)
=============================================================================
