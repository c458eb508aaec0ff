# B20 monitor: models and proofs

TLA+ models of the B20 monitor (`src/`, module `token-discover-demo`), with the
TLC configurations that check them and the proofs that TLAPS checks.  The
program follows EVM chains, records the "B20 created" logs it decodes in
PostgreSQL, and posts notifications about them to Telegram.

Run everything from this directory:

    tlc -config ScannerShared.cfg MCScanner      # one of the runs below
    tlapm ScannerProofs.tla                      # one of the proof modules

`PROJECT.json` lists the runs, the source lines every definition stands for,
the hazards of the code with the properties aimed at them, and, for every
property, a bug in a definition that makes its run fail.

## 1. The system

One process (`cmd/token-discover`) runs, under one `graceful.Manager`, a scanner
per enabled chain and a number of notification workers.  They do not call each
other: they meet in the database.  Several processes may run on one database;
nothing elects a leader.

    chain endpoints                                    Telegram
         |  eth_blockNumber, eth_getLogs                   ^
         v                                                 | sendMessage
    RPCClient <- Scanner -> PipelineHandler          TelegramSender
                   |              |                        ^
       CursorStore |              | EventStore             | Dispatcher
                   v              v                        |
             indexer_cursors  chain_events, notification_outbox
                                  ^
                             ids  | idgen (snowflake)

### Inventory

**Scanner** (`chains/evm/scanner.go`).  State: none of its own between rounds;
a round holds latest, safe and next block, the chunks and their results.
Operations: `Run`, `scanOnce`, `runChunks` (a pool of fetch workers),
`processChunk`, `computeCommitPoint`.  Calls the RPC client, the handler and the
cursor store.  Hard: chunks end out of order and fail one by one; a context that
ends anywhere; crashes between saving events and saving the cursor; other
scanners on the same cursor; endpoints that disagree; reorganisations.  Correct
when no log is passed over, none is recorded that the chain took back, and the
cursor gets past every confirmed block.

**QuerySource** (`chains/evm/source.go`).  Stateless: block range to filter
queries.  Hard: cutting long address lists, what an empty filter is.  Correct
when the queries of a range ask for every log that is wanted and no other.

**PipelineHandler, ComponentRegistry** (`chains/evm/handler.go`,
`handler_registry.go`).  State: an index of decoders, built once.  Operation:
`HandleLogs` (decode, filter, key, save).  Hard: decode errors that are ignored,
lookups that fail because the context ended, a log that can never be handled.
Correct when it reports success only when every accepted event was saved.

**RPCClient** (`chains/evm/rpc_client.go`).  State: a rate limiter, a semaphore,
a round-robin counter.  Operation: `do` with retries.  Hard: waiting with
cancellation, answers of different endpoints.  Correct when slots are neither
lost nor made up, and every call ends.

**EventStore** (`database/store_event.go`).  State: `chain_events` and
`notification_outbox`.  Operation: `SaveEvents`, one transaction.  Hard:
concurrent transactions with common keys, replays, ID collisions, deadlocks,
commits whose answer is lost.  Correct when an event and its notifications are
there together or not at all, and success means they are.

**CursorStore** (`database/store_cursor.go`).  State: `indexer_cursors`.
Operations: `GetCursor`, `SaveCursor` (an upsert that takes the greatest of each
column).  Hard: two writers.  Correct when the row never goes back and stays
consistent.

**NotificationOutboxStore** (`database/store_notification_outbox.go`).  State:
status, retries, lease and next retry of each row.  Operations: `ClaimDue`,
`MarkSent`, `MarkFailed`.  Hard: leases that run out, claims that commit late,
marks of workers that come late.  **Dispatcher** (`notifications/dispatcher.go`):
workers that claim, send and mark.  Hard: all of that with lost answers,
retry_after and shutdown.  Correct when every notification is sent or given up,
what is settled stays so, and a second post has a reason.

**TelegramSender, telegram client** (`notifications/telegram_sender.go`,
`telegram/client.go`).  State: rate limiters per chat.  Operation: `Send`.

**Snowflake generator** (`common/idgen/snowFlake.go`).  State: last millisecond,
sequence, a mutex.  Operations: `NextID`, `Parse`.  Hard: clocks set back,
sequence overflow, waiting with the mutex held, restarts.  Correct when no ID is
given out twice.

**graceful.Manager** (`common/graceful/graceful.go`) **and the wiring**
(`cmd/app`, `cmd/token-discover`).  State: the context, `running`, the wait
group, the cleanups.  Operations: `Go`, `RegisterCleanup`, `Stop`, `Wait`,
`Shutdown`.  Hard: panics, signals and failures at any point of startup or
shutdown.  Correct when nothing is used after it was closed, and the process
ends once it is to.

**BlacklistStore and creator filter** (`database/store_blacklist.go`,
`features/b20/filter_creator_blacklist.go`).  State: `blacklist_addresses`,
which only operators write.  Hard: it changes while a chunk is handled and
between two attempts at it.  **B20 decoder** (`features/b20/decoder_created.go`),
**configuration** (`configs`), **database open, migration, models**
(`database/db.go`, `migrate.go`, `models.go`): pure functions and construction.

**Redis lock** (`redis/lock.go`).  State: one key with a token and a time to
live.  Operations: `TryLock`, `Lock`, `Unlock`, `Renew`.  Hard: late, repeated
and lost commands, expiry under a holder that works.  Correct when no two rely
on it at once and one that nobody holds runs out.  The program does not use it
yet, nor **Elasticsearch** (`elasticsearch`).  **Placeholders**: `chains/*.go`, `api`,
`telegram/PushToTG.go`.

## 2. The modules

| module | models | its abstract specification | proofs |
|---|---|---|---|
| `Chain` | the chain as endpoints show it (external) | | |
| `Scanner` | scanner, handler outcomes, cursor and event tables | `ChainIndex` | `ScannerProofs` |
| `Dispatcher` | workers, outbox rows, Telegram's outcomes | `Delivery` | `DispatcherProofs` |
| `IdGen` | the generators of all processes, their clocks | | `IdGenProofs` |
| `EventStore` | `SaveEvents` in concurrent transactions | `EventLedger` | `EventStoreProofs` |
| `App` | startup, services, shutdown of a process | | `AppProofs` |
| `RpcClient` | calls, endpoints, limiter, slots, retries | | `RpcClientProofs` |
| `Planner`, `QuerySource`, `Handler` | arithmetic of heights, queries, decoders and filters, as operators | | |
| `Round` | one scanner with all three, its configuration and the blacklist | | `RoundProofs` |
| `RedisLock` | the lock, its clients and the commands between them | | `RedisLockProofs` |

`MC*` are the instances for TLC.  In every module, a definition whose name ends
in `X` is the one after it with a bug in it; no specification uses them.

**Scanner.**  `pc[s]` is where `scanOnce` is: `poll` (before `BlockNumber`),
`cursor`, `run` (in `runChunks`), `save`, `down` (not running).  `latest`,
`safe`, `next`, `adv` are the locals of the round, `job[s][i]` the i-th chunk:
waiting, being fetched query by query, being handled, and how it ended.
`BlockNumber`, `GetCursor`, `FeedJob`, `FilterLogs`, `HandleLogs`,
`ComputeCommitPoint` and `SaveCursor` are the steps, `...Err`, `...Lost` and
`ChunkAborted` their failures, `Cancel`, `RunReturns`, `Crash`, `Restart` the
process.  Logs are `<<block, fork, query>>`.

**Dispatcher.**  `row[r]` is the row, `snap`, `todo`, `cur` a worker's copy of
its batch.  Times are kept as distances from now, and `Tick` moves all of them.
`delivered`, `failed`, `excuses` are history.

**IdGen.**  `last`, `seq`, `mu` are the generator of a process, `clock` the
machine's.  `issued` and `repeated` are history.

**EventStore.**  Each saver is in one transaction: `events`, `select`, `outbox`,
`commit` are the statements it is at.  Rows are inserted one by one and wait for
conflicting rows of transactions that are not committed; a circle of waits is
broken by the database.  `acked` is history: what was reported as saved.

**App.**  `main` is where the main goroutine is, `svc` the state of each service
goroutine as the wait group sees it, `using` what it is in a call to.

**RpcClient.**  `pc[c]` is where a call is in `do`: waiting for the `limiter`, to
`acquire` a slot, in the `call`, in the delay before the next attempt
(`backoff`).  `endpoints` are those that could be dialled, `nextEndpoint` the
round robin.  `failed`, `tried` and `alone` are history.

**Planner, QuerySource, Handler, Round.**  The first three are the pure parts:
`PlanChunks`, `NextToBlock` and `CommitPoint` with sums that wrap round at
`Word`; `SourceAccepted`, `SplitAddresses` and `BuildQueries`; `HandlerAccepted`,
`FindDecoder`, `Decodes` and `ApplyFilters`.  `Round` is a scanner that goes
through them: `Plan` a round, then for each chunk `StartChunk`, `FilterLogs` per
query, `LoadTxSenders`, `Unmatched`, `Undecodable` or `Filter` per log,
`SaveEvents`, and at last `Commit`.  `cfg` is the configuration, chosen in `Init`
with the defaults applied; one that is refused leaves `pc` at `refused`.
`seenFree` and `seenListed` are history: the logs whose creator was free, or
listed, at some time since their block was confirmed.

**RedisLock.**  `key` and `ttl` are the server's, `cmd` the command a client has
out, which may still be executed after the client gave it up or once more than
it knows.  `lease` is what a client's own clock leaves of the lock it thinks it
has.

**How they fit together.**  `Scanner` and `Round` are two views of the same
rounds.  `Scanner` has them side by side: several instances, workers, contexts
that end, reorganisations; of a chunk it knows that its logs are fetched query by
query, and of heights that they are integers.  `Round` has one of them from the
configuration to the last log, with heights of the machine's width.  `Scanner` takes `SaveEvents` as one atomic step and
`EventStore` shows that it behaves as one (`Implements`, against `EventLedger`).
`EventStore` takes unique IDs (`MayCollide = FALSE`, where that matters) from
`IdGen`.  `Dispatcher` starts from rows that `EventStore` committed.  The
crashes of `Scanner` and `Dispatcher` are the killed and failed processes of
`App`, and its services end the way `Stops` shows the scanner does.

### Simplifications

They are stated at the head of each module.  The ones to know:

- A call to the database or an endpoint is one step that takes effect, fails, or
  takes effect and reports an error.  (`EventStore` looks inside one.)
- All endpoints agree on the canonical fork; one that lags lacks the last
  `MaxLag` blocks.
- The local rate limiter of the sender is one of the ways a send fails.
- The shutdown of a worker is a crash of it: with its context done none of its
  calls has an effect.  A message posted just before is `SendOk` and then
  `Crash`.
- A failed update of a mark (`MarkErr`) is not followed by the sleep after a
  retry_after, as in the code.
- Snowflake fields are added where the code or-s them: the same while they are
  in range, which `Traceable` and `TypeOK` are about.
- `App` has no time: the drain may time out whenever it waits.  A resource that
  is closed is closed even if Close reports an error, and Close returns.

## 3. What is checked

Every run checks for deadlock as well.  Bounds on faults (`MaxFaults`) count
failed calls, lost answers, crashes, pauses and the like together.

**ScannerShared** - two scanners, one cursor, chunks of one block, one
reorganisation within the confirmation depth, two faults.  `NoGap`: what the
cursor passed is recorded.  `NoOrphan`: nothing recorded was taken back.
`CursorConfirmed`: the three columns of the row stay consistent.  `Implements`:
the scanners are a `ChainIndex`.  Two scanners, four blocks and two rounds are
what it takes for one to commit with what it read before the other did.

**ScannerChunks** - two scanners, two chunks of two blocks, two queries each,
two workers, one fault: holes between chunks, chunks half fetched, results
out of order, a last chunk that is shorter.  `ScanInv`: the inductive invariant,
`NoGap` and the types among its parts.  `Progress`: every confirmed block is
passed if some scanner stays up; `Stops`: a scanner whose context is done
returns.

**ScannerDeepReorg** - expected to fail.  `RescannedAfterReorg` is what the
comment at `src/chains/evm/handler.go:78` says the block hash is kept for:
保存一下block hash，如果发生了变化那说明链重组了，从这块重新扫 (keep the block
hash; if it changed the chain was reorganised, scan again from this block).
Nothing in the code compares the hash: a reorganisation deeper than
`Confirmations` leaves the new block's logs unseen.

**DispatcherLease** - three workers, one row, batches of one (what the program
uses with Telegram), claims that commit late, two faults.  `SendExclusive`: no
two workers send the row at once.  `LeaseInv`: why; a late mark, above all, leaves
the claim of another worker alone.  `EventuallySettled`: every
row is sent or given up if some worker stays up.

**DispatcherBatch** - two workers under one identifier (host name and index, so
that processes on hosts of one name share them), two rows in one batch, processes
that stand still, a lease that does not cover the batch, two faults.  A late mark
of one worker may end a claim of the other here.  Batches of two are what the
dispatcher as a library allows: the program itself makes batches of one row with
Telegram, its only sender.  `DuplicatesExplained`: a message is posted once, and
once more only per lease that ran out or answer that was lost.
`SettledForCause`: sent means posted, dead means `MaxRetries` failures, the
refusals of the local limiter among them.  `SettledForGood`: a late worker takes
nothing back, since the mark that settles a row takes the worker's name off it.
`Implements`: the workers deliver as `Delivery` says.  The theorems have all of
these for any identifiers and batches; in `DispatcherLease` each worker has an
identifier of its own.

**IdGenUnique** - two processes with neighbouring worker IDs (an ID that ran
over its field would be the other's), three callers, a sequence of two,
`Unique`, `Increasing`, `Traceable` (Parse gives back the worker and a time the
clock showed), `MutexHeld` (a cancelled wait leaves no lock), and their inductive
invariant.  `Returns`: every call returns, also after one that was cancelled in
its wait.  Clocks are set back under running generators; `MayRestartBehind` is
FALSE, so no process starts again with its clock behind an ID it gave out.  Were
that to happen IDs would repeat: `New` has no guard against it, and `Unique` and
`Increasing` say nothing of the case.
Where the clocks stop for the bound, the model stutters (`EndOfTime`), and only
a process with a caller that waits for the time after it is excused
(`OutOfTime`).

**EventStoreSave** - two savers, batches that overlap in opposite orders and
with a key twice, a planner, IDs that may collide, failures at any statement.
`OutboxMatchesEvents`: events and notifications are there together and refer to
each other, replays included.  `Implements`: the calls behave as if each
happened at once, ID collisions included.  IDs are interchangeable, and symmetric in TLC.
**EventStorePlain** - without a planner nothing reads the events back, and with
unique IDs none was passed over in vain (`Stored`); `SaveEnds`: every call
returns, deadlocks included.

**AppShutdown** - two workers, two chains, two signals (the second may kill).
`UsesOnlyOpen`: nothing closed is used unless the drain timed out.
`DatabaseLast`: the database outlives the endpoints.  `CleanExit`: a process
that shut down left nothing open and no service behind.  `ShutsDown`: once the
context has ended the process does.  `PanicEndsProcess`: one service that
panicked takes the process down.

**RpcCalls** - two callers, one slot, one token a second, three attempts each,
over any of two URLs that could be dialled; contexts end anywhere.  `SlotsHeld`:
the slots in use are those of the requests that are out.  `FailsOver`: a call
that no other came between fails only after it asked every endpoint (with others
between its attempts, the shared round robin may lead it to the same one each
time).  `CallsEnd`: every call returns.

**RoundConfigs** - sixteen configurations, eight that run and eight that are
refused: address lists that need two queries, specs that overlap, no filter at
all, defaults, strict and lenient handlers, disabled components, an event name of
its own, and a chunk size so large that sums wrap round.  Five blocks with a log
of every kind, two changes of the blacklist, one fault.  `NothingSkipped` and
`OnlyWanted` compare what was recorded with what the configuration says, not with
what was built of it: no event is lost, and nothing else is recorded.
`CatchesUp`: every block is passed that no log the handler can never handle comes
before, or within a chunk after.  Where sums wrap round the run shows the cursor
stuck, never ahead, and logs recorded that are below the start block: hence
`MayWrap` in the last two.  An inclusion the other way round is not promised: a
creator that is listed after its event was recorded does not take it back.

**LockLease** - two clients, one key, a ttl of two, a timeout of two, one fault
(an answer lost and the command sent again, a call given up, a crash).
`Exclusive`: no two clients may rely on the lock at once.  `OrphansExpire`: a key
whose holder is gone runs out.  `CallsReturn`: every call returns.  All renewals
have the lock's own ttl.  With renewals of different lengths `Exclusive` does not
hold: a copy of a shorter one, executed late, cuts a longer one short.

### Fairness

- Scanner: `WF(Step(s))` - its goroutines are scheduled and its calls return
  (they have deadlines).  Nothing is assumed of the chain, of failures or
  restarts; `Progress` asks for one scanner that stays up.
- Dispatcher: `WF(Tick)` and `WF(Step(w))`, the same with time.
- IdGen: `WF(Tick(p))`, clocks advance, and `SF(Step(c, p))`, since a
  `sync.Mutex` hands itself to a goroutine that has waited for a millisecond.
- EventStore: `SF(Step(s))`, PostgreSQL queues those who wait for a row, and
  `WF(DeadlockAbort(s))`, its deadlock detector runs.
- RpcClient: `WF(Tick)` and `SF(Step(c))`: the limiter reserves its tokens and a
  channel its slots in the order of asking, and requests have a deadline.
- Round: `WF(Step)`, as in Scanner; its faults are bounded.
- RedisLock: `WF(Tick)`, `WF` of executing or losing what is on its way, and
  `WF(Return(c))`.  Nothing is assumed of those who hold a lock.
- App: `WF(Main)` and `WF(StopCancels(s))`.  Nothing is assumed of services
  that do their work: the drain's timeout sees to those that hang.

### Constants of the code against constants of the runs

The runs use small spans for what is large in the code: a chunk of 1 or 2
blocks, 1 or 2 confirmations, `SeqSpan = 2` for 4096, one unit of time for a
send timeout.  What the properties tell apart is kept: a lease three times the
send timeout, a reorganisation as deep as `Confirmations`, a sequence that
overflows, a batch larger than one, more addresses than one query takes, a word
more than twice as large as any height but not as a chunk size.

## 4. What is proved

For all values of the constants, with TLAPS:

| theorem | of | under |
|---|---|---|
| `TypeCorrect` | `Scanner`, `Dispatcher`, `IdGen`, `EventStore`, `App`, `RpcClient`, `RedisLock`, `Round` | |
| `NoGapHolds`, `NoOrphanHolds`, `CursorConfirmedHolds`, `Refinement` (of `ChainIndex`) | `Scanner` | `SafeDepth` |
| `DuplicatesExplainedHolds`, `SettledForCauseHolds`, `SettledForGoodHolds`, `Refinement` (of `Delivery`) | `Dispatcher` | |
| `SendExclusiveHolds` | `Dispatcher` | `LeasesFit` |
| `UniqueHolds`, `IncreasingHolds`, `TraceableHolds` | `IdGen` | `CanGenerate` |
| `MutexHeldHolds` | `IdGen` | |
| `OutboxMatchesEventsHolds` | `EventStore` | |
| `StoredHolds`, `Refinement` (of `EventLedger`) | `EventStore` | `Accounted` |
| `UsesOnlyOpenHolds`, `DatabaseLastHolds`, `CleanExitHolds` | `App` | |
| `SlotsHeldHolds`, `FailsOverHolds` | `RpcClient` | |
| `ExclusiveHolds` | `RedisLock` | `SameTTL` |
| `NothingSkippedHolds`, `OnlyWantedHolds` | `Round` | |

The assumptions are what the deployment has to see to and the code takes on
trust: `SafeDepth`, that `Confirmations` covers reorganisations and what an
endpoint may lag; `LeasesFit`, batches of one row, worker identifiers that are
not shared, a lease that covers a late claim and a send, and no process that
stands still; `CanGenerate`, distinct worker IDs and no restart with the clock
behind; `Accounted`, events that an `EventPlanner` accounts for or IDs that are
not given twice, which is what `CanGenerate` buys; `SameTTL`, renewals with the
lock's own ttl, or no command that is executed late.  The constants' own
assumptions are only their types, but for two of `Round`'s: the chain stays below
half of the heights a word can hold, and no transaction has the zero address for
its sender.

**Scanner.**  `NoGap` is not inductive: that a cursor may be moved rests on what
its scanner remembers.  `ScanInv` says what each round knows: that its range is
confirmed and starts at a block some cursor has reached (`RoundInv`); that a
chunk holds all canonical logs of the queries it has done, and that they are
recorded when it is "ok", unless the context is done (`ChunkInv`); that all of
`next..adv-1` is recorded before `SaveCursor` (`SaveInv`).  A reorganisation
changes nothing below `head - Confirmations`, where all of this lives.  The
"unless the context is done" is the case of a handler that ignored decode errors
that a cancelled lookup caused: the cursor is saved under that same context.

**Dispatcher.**  `DuplicatesExplained` is a count.  Each worker that holds a row
and has not posted it yet may post it, so the invariant adds them up:
`delivered[r] + |Live(r)| <= excuses[r] + 1` while the row is processing or sent,
and without the 1 otherwise (`RowInv`).  Claiming an expired row adds a worker
and an excuse.  `SettledForCause` rests on `CopyInv`: the retry count of a
worker's copy stands for as many failed sends.  `LeaseInv` says that a worker
with a row owns it for as long as its send may take.

**IdGen.**  `IndInv` says that every ID a process was given is at or below its
`last` millisecond and sequence, or below the clock when the generator is new
(`Ahead`), and that IDs have the layout of their process (`IDsOf`).  Uniqueness
across processes is the uniqueness of digits (`DigitsUnique`, `WorkersDiffer`),
within a process the order of IDs (`PackOrder`); `Parse` inverts `Pack`
(`ParsePack`).  `MutexHeld` needs only types: one caller lets go of the mutex for
each that takes it.

**EventStore.**  `OutboxMatchesEvents` is about tables that several transactions
are writing.  `IndInv` says what each of them knows of what it will commit: that
no two rows in sight share a key, committed or not (`KeysInv`), nor unique IDs
(`FreshInv`); which events of its batch a call has in the table by now
(`SavedInv`); that the plan of an `EventPlanner` has a row for every event and
route, with the ID the event really got, and that those it is past are in the
outbox (`PlanInv`).  A commit shows rows that had their partners before.
`Implements` follows step by step: only `CommitRows` changes what the ledger
shows, and what it adds is the batch less its duplicates.  That `dedupeEvents`
leaves one event of every key (`DedupeKeeps`) is an induction over the batch, by
its shortest prefix for which it would fail.

**App.**  The wait group counts the goroutines that have not ended (`Counted`),
so that an empty one means none is left (`DrainedFirst`); everything a service
uses was opened before it started (`OpenFirst`); what is open has a cleanup
(`StillToClose`), the database's the first (`DatabaseFirst`).

**RpcClient.**  The invariant is `SlotsHeld` with the places a call can be in.
A step moves one caller, so the set of those whose request is out gains it,
loses it or stays (`OutMoves`), and the semaphore with it (`MovesInd`,
`ReleasesInd`).  `FailsOver` counts the endpoints a call has tried.  While no one
else calls, `CallInv` says which they are: those the round robin picked last
(`LastPicked`), as many as there were attempts and none twice before all had
their turn (`PickedCount`).  What can be dialled is a sequence with no endpoint
twice (`EndpointsType`), and `retryDelay` stays below its limit however often it
doubles (`PowerOfTwo`, `RetryDelayType`).

**RedisLock.**  Who relies on the lock holds the key: `LeaseInv` says that while a
lease runs the server has that client's token, and for at least as long.  What
could break it is a command that is executed late.  A copy of `unlockScript` or
`renewScript` carries the token it was sent with, and a token is the mark of one
attempt (`TokensInv`; a token left behind took a fault, `StraysInv`, so the
bounded set of them never runs out).  So it meets another's key and does nothing,
or its own: then it is an unlock of a client that relies on nothing any more, or
sets the ttl that all others set (`OneTTL`).

**Round.**  First what the operators return.  The functions that `PlanChunks`,
`FlattenSeq` and the loop over returned logs define by recursion exist, and are
what their steps say (`Recursion`, an induction by the least number for which
something fails; `StartsExist`, `Flattened`, `Fetched`).  A plan is a sequence of
chunks, each beginning after the one before and ending at the safe block or below
(`PlanIsPlan`); no two begin at the same block, so results that are kept by first
block do not overwrite each other (`StartsDiffer`); together they leave no block
out (`ChunksCover`), sums that wrap round included, since a chunk that ends
before it begins is refused and so never done.  `CommitPoint` gets to the end of
a chunk that has only done ones before it (`CommitsDone`).  The pieces of an
address list have all of it (`Pieces`), so the queries ask for what the specs ask
for (`Asked`); the index finds the one decoder that is configured (`OneDecoder`).

`NothingSkipped` is not inductive: that `Commit` may move the cursor rests on the
results, these on what the handler did, and that on what the queries returned.
`IndInv` is that chain.  `RoundInv`: the chunks are the plan from the cursor on,
confirmed, and one with the result "ok" has each of its logs recorded or passed
over.  `ChunkInv`: what a chunk lacks, a query that is left will return.
`HandleInv`: a log that was handled is in the batch or may be left out.
`WatchInv`: of every confirmed log the history says whether its creator is listed
now, which is what a lookup finds, at whatever time it is made.  Everything these
speak of only grows (`AllGrow`), whatever the chain and the operators do between
two steps.

Only model-checked: every liveness property, since TLAPS does not reach fairness
and ENABLED.

## 5. What is not modelled

- The bytes: decoding of a log's data, JSON, texts of addresses and topics,
  message text.  Whether they decode is a property of a log or a configuration.
- Which notification routes match an event; the migration's advisory lock, which
  one transaction takes and holds; opening the Redis client.
- The configuration's other sections: defaults of pools and timeouts, which are
  constants here.
- Elasticsearch, which the program does not use and whose outbox it never writes.
- A counter of requests past 2^63, whose conversion to a signed index
  `pickEndpoint` would not survive (`chains/evm/rpc_client.go:302`).

Hazards that no property covers, or none in full, say why in `PROJECT.json`.
Among them: a send that the local limiter refuses uses up a retry
(`notifications/telegram_sender.go:42`); the creator filter goes by an event name
that the decoder's configuration can change
(`features/b20/filter_creator_blacklist.go:32`); other calls between the attempts
of one may lead it to the same failing endpoint each time
(`chains/evm/rpc_client.go:226`); startup
that fails after services have started ends the process without any cleanup
(`cmd/app/run.go:50`); a panic in a fetch goroutine is not recovered
(`chains/evm/scanner.go:358`); two chain entries may share a cursor and differ in
their filters (`chains/evm/scanner.go:586`); a topic matrix of empty rows is a
filter that lets everything through and needs no `allow_empty_filter`
(`chains/evm/source.go:106`).

## 6. Plan

Done, in this order: `Scanner` with `ChainIndex`, `Dispatcher` with `Delivery`,
`IdGen`, `EventStore` with `EventLedger`, `App`; `RpcClient`; `RedisLock`;
`Planner`, `QuerySource`, `Handler` and `Round`; proofs as section 4 has them.

Next, by weight:

1. `Pipeline`: `EventStore`, `Scanner` and `Dispatcher` composed at the level of
   their abstract specifications: every canonical confirmed log is notified.
2. The choice of routes and the bulk indexer of Elasticsearch.

Liveness is checked on the instances of the safety runs wherever those are small
enough, as in `ScannerChunks`, `DispatcherLease`, `IdGenUnique` and
`AppShutdown`.
