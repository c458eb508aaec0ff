------------------------------- MODULE Scanner -------------------------------
(***************************************************************************)
(* The EVM scanner (src/chains/evm/scanner.go) with the two tables it      *)
(* writes: the cursor (src/database/store_cursor.go) and, through the      *)
(* pipeline handler, the events (src/chains/evm/handler.go,                *)
(* src/database/store_event.go).                                           *)
(*                                                                         *)
(* Several scanners may run with the same cursor key: instances of the     *)
(* program on one database, nothing elects a leader among them.  A round   *)
(* of a scanner (scanOnce) asks for the head, reads the cursor, splits the *)
(* confirmed blocks it has not done into chunks, lets its fetch workers    *)
(* process the chunks concurrently, and moves the cursor over the          *)
(* contiguous prefix of chunks that succeeded.                             *)
(*                                                                         *)
(* Simplifications.  A call on the RPC client or on the database is one    *)
(* step, atomic where the server makes it atomic; it may fail, or take     *)
(* effect and still report an error.  Logs no accepted event comes from    *)
(* are left out.  All endpoints agree on the canonical fork; what one that *)
(* lags lacks is the last MaxLag blocks.  BuildQueries and loadTxSenders   *)
(* only matter by failing, which is one of the failures of a chunk.        *)
(***************************************************************************)
EXTENDS Chain, FiniteSets

CONSTANTS
    Scanners,           \* the scanners that share the cursor key
    StartBlock,         \* ScannerConfig.StartBlock
    Confirmations,      \* ScannerConfig.Confirmations
    ChunkSize,          \* ScannerConfig.ChunkSize
    FetchWorkers,       \* ScannerConfig.FetchWorkers
    MaxInflightChunks,  \* ScannerConfig.MaxInflightChunks
    IgnoreDecodeError,  \* PipelineHandlerConfig.IgnoreDecodeError
    NumQueries,         \* how many queries BuildQueries makes for a chunk
    Logs,               \* the logs an accepted event comes from
    MaxLag,             \* how many blocks an endpoint may be behind the head
    MaxFaults           \* bound on failed calls, crashes and shutdowns

ASSUME ScannerAssumption ==
    /\ StartBlock \in Nat
    /\ Confirmations \in Nat \ {0}
    /\ ChunkSize \in Nat \ {0}
    /\ FetchWorkers \in Nat \ {0}
    /\ MaxInflightChunks \in Nat \ {0}
    /\ IgnoreDecodeError \in BOOLEAN
    /\ NumQueries \in Nat \ {0}
    /\ Logs \subseteq Blocks \X Forks \X (1..NumQueries)
    /\ MaxLag \in Nat
    /\ MaxFaults \in Nat

ChunkIndex == 0..(MaxInflightChunks - 1)

VARIABLES
    cursor,     \* the row of indexer_cursors under the shared key
    events,     \* the rows of chain_events, each the log it was made from
    pc,         \* where scanner s is in scanOnce, "down" when it is not running
    stop,       \* whether the context of scanner s is done
    latest,     \* latestBlock, safeBlock, nextBlock and advancedNextBlock
    safe,       \* of scanner s's round
    next,
    adv,
    job,        \* job[s][i]: the i-th chunk of scanner s's round
    faults      \* how many faults are left

dbVars    == <<cursor, events>>
roundVars == <<latest, safe, next, adv, job>>
procVars  == <<pc, stop>>
vars      == <<chainVars, dbVars, roundVars, procVars, faults>>

-----------------------------------------------------------------------------
\* The chunks of a round and the logs in them.

Least(a, b)    == IF a <= b THEN a ELSE b
Greatest(a, b) == IF a >= b THEN a ELSE b

\* planChunks cuts nextBlock..safeBlock into at most MaxInflightChunks chunks
\* of ChunkSize blocks, the last one shorter when safeBlock ends it.
ChunkFrom(s, i) == next[s] + i * ChunkSize
ChunkTo(s, i)   == Least(ChunkFrom(s, i) + ChunkSize - 1, safe[s])
Planned(s)      == {i \in ChunkIndex : ChunkFrom(s, i) <= safe[s]}

InChunk(s, i, b) == ChunkFrom(s, i) <= b /\ b <= ChunkTo(s, i)

\* What the q-th query of a chunk returns at an endpoint that has h blocks: it
\* answers for the blocks it has and leaves the others out without an error.
LogsOf(s, i, q, h) ==
    {l \in Logs : /\ InChunk(s, i, l[1])
                  /\ l[1] <= h
                  /\ Canonical(l)
                  /\ l[3] = q}

\* The heads an endpoint may be at.
EndpointHeads == {h \in Blocks : head - MaxLag <= h /\ h <= head}

JobStates == {"queued",     \* not received by a fetch worker
              "fetch",      \* its queries are being made, q of them are done
              "handle",     \* all its logs are fetched
              "ok", "err"}  \* its result is in the result map

Jobs == [st: JobStates, q: 0..NumQueries, logs: SUBSET Logs]

NoJob == [st |-> "queued", q |-> 0, logs |-> {}]

Is(s, i, st)  == job[s][i].st = st
InProgress(s) == {i \in Planned(s) : Is(s, i, "fetch") \/ Is(s, i, "handle")}

NoCursor == [exists |-> FALSE, next |-> 0, safe |-> 0, latest |-> 0]

TypeOK ==
    /\ ChainTypeOK
    /\ cursor \in [exists: BOOLEAN, next: Nat, safe: Nat, latest: Nat]
    /\ events \subseteq Logs
    /\ pc \in [Scanners -> {"poll", "cursor", "run", "save", "down"}]
    /\ stop \in [Scanners -> BOOLEAN]
    /\ latest \in [Scanners -> Nat]
    /\ safe \in [Scanners -> Nat]
    /\ next \in [Scanners -> Nat]
    /\ adv \in [Scanners -> Nat]
    /\ job \in [Scanners -> [ChunkIndex -> Jobs]]
    /\ faults \in 0..MaxFaults

Init ==
    /\ ChainInit
    /\ cursor = NoCursor
    /\ events = {}
    /\ pc = [s \in Scanners |-> "poll"]
    /\ stop = [s \in Scanners |-> FALSE]
    /\ latest = [s \in Scanners |-> 0]
    /\ safe = [s \in Scanners |-> 0]
    /\ next = [s \in Scanners |-> 0]
    /\ adv = [s \in Scanners |-> 0]
    /\ job = [s \in Scanners |-> [i \in ChunkIndex |-> NoJob]]
    /\ faults = MaxFaults

-----------------------------------------------------------------------------
\* Helpers of the actions.

Goto(s, where) == pc' = [pc EXCEPT ![s] = where]

\* One of the faults the bound leaves.
Fault == faults > 0 /\ faults' = faults - 1

\* scanOnce returns: its locals are gone.
EndRound(s) ==
    /\ latest' = [latest EXCEPT ![s] = 0]
    /\ safe' = [safe EXCEPT ![s] = 0]
    /\ next' = [next EXCEPT ![s] = 0]
    /\ adv' = [adv EXCEPT ![s] = 0]
    /\ job' = [job EXCEPT ![s] = [i \in ChunkIndex |-> NoJob]]

SetJob(s, i, r) == job' = [job EXCEPT ![s][i] = r]

Finish(s, i, st) == SetJob(s, i, [st |-> st, q |-> 0, logs |-> {}])

-----------------------------------------------------------------------------
\* A round of scanner s, outside of its chunks.  A definition whose name ends in
\* X is the one after it with a bug that the checks are tried on.

\* safeBlock, and whether a head h has one: the code refuses to subtract
\* otherwise, its heights are unsigned.
HasSafeBlock(h)  == h > Confirmations

SafeBlockX(h) == h
SafeBlock(h)  == h - Confirmations

\* BlockNumber and safeBlock.  A head without enough confirmations ends the
\* round where it began, and so does an error: neither changes anything.
BlockNumber(s) ==
    /\ pc[s] = "poll"
    /\ ~stop[s]
    /\ \E h \in EndpointHeads :
          /\ HasSafeBlock(h)
          /\ latest' = [latest EXCEPT ![s] = h]
          /\ safe' = [safe EXCEPT ![s] = SafeBlock(h)]
    /\ Goto(s, "cursor")
    /\ UNCHANGED <<chainVars, dbVars, next, adv, job, stop, faults>>

\* The block the next round starts from.
Frontier == IF cursor.exists THEN cursor.next ELSE StartBlock

\* Whether the safe blocks are all done.
NothingNewX(s) == Frontier >= safe[s]
NothingNew(s)  == Frontier > safe[s]

\* GetCursor, then runChunks starts on the chunks that are planned.
GetCursor(s) ==
    /\ pc[s] = "cursor"
    /\ ~stop[s]
    /\ ~NothingNew(s)
    /\ next' = [next EXCEPT ![s] = Frontier]
    /\ Goto(s, "run")
    /\ UNCHANGED <<chainVars, dbVars, latest, safe, adv, job, stop, faults>>

\* GetCursor finds that there is nothing to do.
CaughtUp(s) ==
    /\ pc[s] = "cursor"
    /\ ~stop[s]
    /\ NothingNew(s)
    /\ Goto(s, "poll")
    /\ EndRound(s)
    /\ UNCHANGED <<chainVars, dbVars, stop, faults>>

GetCursorErr(s) ==
    /\ pc[s] = "cursor"
    /\ ~stop[s]
    /\ Fault
    /\ Goto(s, "poll")
    /\ EndRound(s)
    /\ UNCHANGED <<chainVars, dbVars, stop>>

\* runChunks has all the results it will get: every chunk was fed and finished,
\* or the feeder saw the context done and left some chunks without a result.
RunDone(s) ==
    /\ InProgress(s) = {}
    /\ stop[s] \/ \A i \in Planned(s) : ~Is(s, i, "queued")

\* computeCommitPoint: the k chunks before the first that has no result or an
\* error are committed.
CommitPointX(s, k) ==
    /\ k > 0 => k - 1 \in Planned(s) /\ Is(s, k - 1, "ok")
    /\ \A i \in Planned(s) : i >= k => ~Is(s, i, "ok")
CommitPoint(s, k) ==
    /\ \A i \in 0..(k - 1) : i \in Planned(s) /\ Is(s, i, "ok")
    /\ ~(k \in Planned(s) /\ Is(s, k, "ok"))

ComputeCommitPoint(s) ==
    /\ pc[s] = "run"
    /\ RunDone(s)
    /\ \E k \in 0..MaxInflightChunks :
          /\ CommitPoint(s, k)
          /\ IF k > 0
             THEN /\ adv' = [adv EXCEPT ![s] = ChunkTo(s, k - 1) + 1]
                  /\ job' = [job EXCEPT ![s] = [i \in ChunkIndex |-> NoJob]]
                  /\ Goto(s, "save")
                  /\ UNCHANGED <<latest, safe, next>>
             ELSE Goto(s, "poll") /\ EndRound(s)
    /\ UNCHANGED <<chainVars, dbVars, stop, faults>>

\* The upsert of SaveCursor: no column of an existing row ever decreases.
UpsertCursorX(s) ==
    cursor' = [exists |-> TRUE,
               next   |-> adv[s],
               safe   |-> safe[s],
               latest |-> latest[s]]
UpsertCursorX2(s) ==
    cursor' = [exists |-> TRUE,
               next   |-> Greatest(cursor.next, adv[s]),
               safe   |-> safe[s],
               latest |-> latest[s]]
UpsertCursor(s) ==
    cursor' = [exists |-> TRUE,
               next   |-> Greatest(cursor.next, adv[s]),
               safe   |-> Greatest(cursor.safe, safe[s]),
               latest |-> Greatest(cursor.latest, latest[s])]

SaveCursor(s) ==
    /\ pc[s] = "save"
    /\ ~stop[s]
    /\ UpsertCursor(s)
    /\ Goto(s, "poll")
    /\ EndRound(s)
    /\ UNCHANGED <<chainVars, events, stop, faults>>

SaveCursorErr(s) ==
    /\ pc[s] = "save"
    /\ ~stop[s]
    /\ Fault
    /\ Goto(s, "poll")
    /\ EndRound(s)
    /\ UNCHANGED <<chainVars, dbVars, stop>>

\* The row is written, and the call reports an error all the same.
SaveCursorLost(s) ==
    /\ pc[s] = "save"
    /\ ~stop[s]
    /\ Fault
    /\ UpsertCursor(s)
    /\ Goto(s, "poll")
    /\ EndRound(s)
    /\ UNCHANGED <<chainVars, events, stop>>

Round(s) ==
    \/ BlockNumber(s) \/ GetCursor(s) \/ CaughtUp(s)
    \/ ComputeCommitPoint(s) \/ SaveCursor(s)

RoundFault(s) == GetCursorErr(s) \/ SaveCursorErr(s) \/ SaveCursorLost(s)

-----------------------------------------------------------------------------
\* A chunk, from the feeder to its result.

\* The feeder hands out the chunks in order, on an unbuffered channel, to
\* whichever of the workers is free.  Its select has both cases ready when the
\* context is done, so it may still go on feeding then.
FeedJob(s, i) ==
    /\ pc[s] = "run"
    /\ i \in Planned(s)
    /\ Is(s, i, "queued")
    /\ \A j \in Planned(s) : j < i => ~Is(s, j, "queued")
    /\ Cardinality(InProgress(s)) < FetchWorkers
    /\ SetJob(s, i, [st |-> "fetch", q |-> 0, logs |-> {}])
    /\ UNCHANGED <<chainVars, dbVars, latest, safe, next, adv, procVars, faults>>

\* The logs a chunk has after its q-th query.
CollectedX(s, i, q, h) == LogsOf(s, i, q, h)
Collected(s, i, q, h)  == job[s][i].logs \cup LogsOf(s, i, q, h)

\* One query after the other, each to whichever endpoint is next.
FilterLogs(s, i) ==
    /\ pc[s] = "run"
    /\ i \in Planned(s)
    /\ Is(s, i, "fetch")
    /\ job[s][i].q < NumQueries
    /\ ~stop[s]
    /\ \E h \in EndpointHeads :
          LET q == job[s][i].q + 1
          IN  SetJob(s, i, [st   |-> IF q = NumQueries THEN "handle" ELSE "fetch",
                            q    |-> q,
                            logs |-> Collected(s, i, q, h)])
    /\ UNCHANGED <<chainVars, dbVars, latest, safe, next, adv, procVars, faults>>

\* BuildQueries, FilterLogs, loadTxSenders or HandleLogs fails.
ChunkErr(s, i) ==
    /\ pc[s] = "run"
    /\ i \in InProgress(s)
    /\ ~stop[s]
    /\ Fault
    /\ Finish(s, i, "err")
    /\ UNCHANGED <<chainVars, dbVars, latest, safe, next, adv, procVars>>

\* The same with the context done: every call fails, and HandleLogs looks.
ChunkAbortedX(s, i) ==
    /\ pc[s] = "run"
    /\ i \in InProgress(s)
    /\ stop[s]
    /\ Is(s, i, "handle")
    /\ Finish(s, i, "err")
    /\ UNCHANGED <<chainVars, dbVars, latest, safe, next, adv, procVars, faults>>
ChunkAborted(s, i) ==
    /\ pc[s] = "run"
    /\ i \in InProgress(s)
    /\ stop[s]
    /\ Finish(s, i, "err")
    /\ UNCHANGED <<chainVars, dbVars, latest, safe, next, adv, procVars, faults>>

\* SaveEvents: one transaction that inserts the events that are not there yet.
SaveEvents(L) == events' = events \cup L

\* HandleLogs: nothing to save, or the events are saved.
HandleLogs(s, i) ==
    /\ pc[s] = "run"
    /\ i \in Planned(s)
    /\ Is(s, i, "handle")
    /\ job[s][i].logs = {} \/ ~stop[s]
    /\ SaveEvents(job[s][i].logs)
    /\ Finish(s, i, "ok")
    /\ UNCHANGED <<chainVars, cursor, latest, safe, next, adv, procVars, faults>>

\* The transaction commits, but the worker is told that it failed.
HandleLogsLost(s, i) ==
    /\ pc[s] = "run"
    /\ i \in Planned(s)
    /\ Is(s, i, "handle")
    /\ ~stop[s]
    /\ Fault
    /\ SaveEvents(job[s][i].logs)
    /\ Finish(s, i, "err")
    /\ UNCHANGED <<chainVars, cursor, latest, safe, next, adv, procVars>>

\* The context is done between HandleLogs' look at it and Decode's: with
\* IgnoreDecodeError, Decode's error is ignored, and when no other log gave an
\* event HandleLogs returns nil with nothing saved.
HandleLogsCut(s, i) ==
    /\ pc[s] = "run"
    /\ i \in Planned(s)
    /\ Is(s, i, "handle")
    /\ stop[s]
    /\ IgnoreDecodeError
    /\ \E l \in Logs : job[s][i].logs = {l}
    /\ Finish(s, i, "ok")
    /\ UNCHANGED <<chainVars, dbVars, latest, safe, next, adv, procVars, faults>>

Chunk(s, i) ==
    \/ FeedJob(s, i) \/ FilterLogs(s, i) \/ HandleLogs(s, i)
    \/ ChunkAborted(s, i) \/ HandleLogsCut(s, i)

ChunkFault(s, i) == ChunkErr(s, i) \/ HandleLogsLost(s, i)

-----------------------------------------------------------------------------
\* The process a scanner runs in.

\* A signal, or another goroutine's failure, ends the context of the scanner.
Cancel(s) ==
    /\ pc[s] # "down"
    /\ ~stop[s]
    /\ Fault
    /\ stop' = [stop EXCEPT ![s] = TRUE]
    /\ UNCHANGED <<chainVars, dbVars, roundVars, pc>>

\* With the context done every call fails, and Run returns.
RunReturns(s) ==
    /\ pc[s] \in {"poll", "cursor", "save"}
    /\ stop[s]
    /\ Goto(s, "down")
    /\ EndRound(s)
    /\ UNCHANGED <<chainVars, dbVars, stop, faults>>

Crash(s) ==
    /\ pc[s] # "down"
    /\ Fault
    /\ Goto(s, "down")
    /\ EndRound(s)
    /\ UNCHANGED <<chainVars, dbVars, stop>>

Restart(s) ==
    /\ pc[s] = "down"
    /\ Goto(s, "poll")
    /\ stop' = [stop EXCEPT ![s] = FALSE]
    /\ UNCHANGED <<chainVars, dbVars, roundVars, faults>>

Process(s) == Cancel(s) \/ Crash(s) \/ Restart(s)

-----------------------------------------------------------------------------

ChainStep == (Extend \/ Reorg) /\ UNCHANGED <<dbVars, roundVars, procVars, faults>>

Step(s) ==
    \/ Round(s)
    \/ RunReturns(s)
    \/ \E i \in ChunkIndex : Chunk(s, i)

Next ==
    \/ ChainStep
    \/ \E s \in Scanners :
          \/ Step(s) \/ RoundFault(s) \/ Process(s)
          \/ \E i \in ChunkIndex : ChunkFault(s, i)

Spec == Init /\ [][Next]_vars

\* The goroutines of a scanner that runs are scheduled and its calls return.
\* Nothing is assumed of the chain, of the faults or of restarts.
Fairness == \A s \in Scanners : WF_vars(Step(s))

FairSpec == Spec /\ Fairness

-----------------------------------------------------------------------------
\* Properties.

\* No log is missed: whatever the persisted cursor has passed is in
\* chain_events, in the version of the canonical chain, whichever scanner
\* moved it and whatever failed, crashed or was reorganised.  The scanner only
\* ever goes on from the cursor, so a log passed over is lost for good.
NoGap ==
    \A l \in Logs :
        StartBlock <= l[1] /\ l[1] < Frontier /\ Canonical(l) => l \in events

\* No log of a block that was reorganised away is ever recorded: chain_events
\* has no way to take one back.
NoOrphan == \A l \in events : Canonical(l)

\* The persisted row makes sense as a whole although two scanners may have
\* written its three columns: every block it has passed had its confirmations
\* under the head it names.
CursorConfirmed ==
    cursor.exists => /\ cursor.next <= cursor.safe + 1
                     /\ cursor.safe + Confirmations <= cursor.latest
                     /\ cursor.latest <= head

\* The scanners record what the index promises to hold and move its frontier
\* as it promises.
Index == INSTANCE ChainIndex WITH recorded <- events, frontier <- Frontier
Implements == Index!Spec

Up(s) == pc[s] # "down" /\ ~stop[s]

\* A block with its confirmations at every endpoint is passed, provided some
\* scanner stays up: no failure of a call leaves it stuck.
Progress ==
    (\E s \in Scanners : <>[]Up(s)) =>
        \A b \in Blocks :
            StartBlock <= b /\ 0 < b /\ b + Confirmations + MaxLag <= head ~> b < Frontier

\* A scanner whose context is done returns, whatever its workers were doing.
Stops == \A s \in Scanners : stop[s] ~> (pc[s] = "down" \/ ~stop[s])

\* What the comment on EventEnvelope.BlockHash says the hash is kept for: when
\* it changes the chain was reorganised, and the scan starts over from that
\* block, so that the logs of the new block are found.
RescannedAfterReorg ==
    \A l \in Logs :
        Canonical(l) /\ StartBlock <= l[1] /\ l[1] < Frontier
            ~> (l \in events \/ ~Canonical(l))

-----------------------------------------------------------------------------
\* The invariant the proofs go by induction on.  Confirmations must cover what
\* an endpoint may lack and what a reorganisation may replace: the code takes
\* it on trust, the proofs and the runs but the last have it as an assumption.

SafeDepth == ReorgDepth <= Confirmations /\ MaxLag <= Confirmations

Deep(b) == b + Confirmations <= head

CursorInv ==
    /\ CursorConfirmed
    /\ IF cursor.exists THEN StartBlock <= cursor.next ELSE cursor = NoCursor

EventsInv == \A l \in events : Canonical(l) /\ Deep(l[1])

\* A round works on confirmed blocks, from a block the cursor has reached.
RoundInv(s) ==
    /\ pc[s] \in {"cursor", "run", "save"} =>
          safe[s] + Confirmations = latest[s] /\ latest[s] <= head
    /\ pc[s] \in {"run", "save"} =>
          StartBlock <= next[s] /\ next[s] <= Frontier /\ next[s] <= safe[s]
    /\ pc[s] # "run" => job[s] = [i \in ChunkIndex |-> NoJob]

\* A chunk holds canonical logs of its blocks only, all those of the queries
\* that are done, and when it is "ok" they are recorded or the context is done.
ChunkInv(s, i) ==
    LET Expected(q) == {l \in Logs : InChunk(s, i, l[1]) /\ Canonical(l) /\ l[3] <= q}
    IN  /\ job[s][i].logs \subseteq Expected(NumQueries)
        /\ Is(s, i, "fetch") => Expected(job[s][i].q) \subseteq job[s][i].logs
        /\ Is(s, i, "handle") => Expected(NumQueries) \subseteq job[s][i].logs
        /\ Is(s, i, "ok") /\ ~stop[s] => Expected(NumQueries) \subseteq events

\* What a scanner is about to commit is recorded, or its context is done and
\* SaveCursor will be refused.
SaveInv(s) ==
    pc[s] = "save" =>
        /\ next[s] < adv[s] /\ adv[s] <= safe[s] + 1
        /\ ~stop[s] =>
              \A l \in Logs :
                  next[s] <= l[1] /\ l[1] < adv[s] /\ Canonical(l) => l \in events

ScannerInv(s) ==
    /\ RoundInv(s)
    /\ pc[s] = "run" => \A i \in ChunkIndex : ChunkInv(s, i)
    /\ SaveInv(s)

ScanInv ==
    /\ TypeOK
    /\ CursorInv
    /\ EventsInv
    /\ NoGap
    /\ \A s \in Scanners : ScannerInv(s)
=============================================================================
