-------------------------------- MODULE Round --------------------------------
(***************************************************************************)
(* One scanner with everything that is in a round of it: the configuration *)
(* it was started with (src/configs), the arithmetic of its heights        *)
(* (Planner), the queries of its chunks (QuerySource), and, one log after  *)
(* the other, the handler with its decoders and the filter that looks up   *)
(* creators in a table operators change meanwhile (Handler,                *)
(* src/database/store_blacklist.go).                                       *)
(*                                                                         *)
(* Scanner.tla has the rounds of several scanners with their workers side  *)
(* by side, on a chain that reorganises, and leaves all of this out; here  *)
(* one worker takes the chunks in turn, the chain only grows, and every    *)
(* endpoint has all of it.  What the configuration is, the scanner does    *)
(* not know: it is chosen at the start and the same after a restart.       *)
(***************************************************************************)
EXTENDS Planner, QuerySource, Handler

CONSTANTS
    Configs,                \* the configurations the program may find
    Logs,                   \* the logs of the chain, in its order
    Sender,                 \* the sender of each transaction
    MaxHead,                \* bound on the height of the chain
    DefaultConfirmations,   \* 3 in the code
    DefaultChunkSize,       \* 500 in the code
    MaxInflightChunks,      \* twice 10 workers in the program
    MaxChanges,             \* bound on the changes of the blacklist
    MaxFaults               \* bound on failed calls and crashes

Heights == 0..(Word - 1)

QuerySpecs == [addresses : Seq(STRING), topics : Seq(SUBSET STRING)]
Components == [type : STRING, enabled : BOOLEAN]
Decoding   == [type : STRING, enabled : BOOLEAN, factory : STRING, topic0 : STRING,
               eventName : STRING]

ConfigTypes ==
    [name : STRING, startBlock : Heights, confirmations : Heights, chunkSize : Heights,
     specs : Seq(QuerySpecs), max : Int, allowEmpty : BOOLEAN,
     decoders : Seq(Decoding), filters : Seq(Components),
     failOnUnmatched : BOOLEAN, ignoreDecodeError : BOOLEAN]

LogTypes ==
    [block : 1..MaxHead, tx : DOMAIN Sender, address : STRING, topics : Seq(STRING),
     decodable : BOOLEAN]

\* No transaction has the zero address for its sender.
ASSUME RoundAssumption ==
    /\ MaxHead \in Nat /\ 2 * MaxHead < Word
    /\ Configs \subseteq ConfigTypes
    /\ Logs \in Seq(LogTypes)
    /\ \A t \in DOMAIN Sender : Sender[t] # Zero
    /\ DefaultConfirmations \in Heights \ {0}
    /\ DefaultChunkSize \in Heights \ {0}
    /\ MaxInflightChunks \in Nat \ {0}
    /\ MaxChanges \in Nat
    /\ MaxFaults \in Nat

VARIABLES
    cfg,        \* the configuration of the chain, defaults applied
    head,       \* height of the chain
    blacklist,  \* the creators enabled rows of blacklist_addresses list
    frontier,   \* next_block of the cursor, StartBlock while there is no row
    events,     \* the rows of chain_events, each the log it was made from
    pc,         \* where scanOnce is
    safe,       \* safeBlock, nextBlock, the chunks and their results:
    next,       \* the locals of the round
    chunks,
    results,
    queries,    \* the queries left to a chunk, its logs, how many of them
    logs,       \* are handled, and those accepted
    handled,
    batch,
    seenFree,   \* history: the confirmed logs whose creator was at some time
    seenListed, \* free, and those whose creator was listed
    changes,    \* how many changes of the blacklist and faults are left
    faults

chainVars == <<cfg, head, blacklist, seenFree, seenListed, changes>>
dbVars    == <<frontier, events>>
roundVars == <<safe, next, chunks, results>>
chunkVars == <<queries, logs, handled, batch>>
vars      == <<chainVars, dbVars, pc, roundVars, chunkVars, faults>>

-----------------------------------------------------------------------------
\* The configuration.

\* applyDefault, and the defaults of the scanner, which are the same.
WithDefaults(c) ==
    [c EXCEPT !.confirmations = IF @ = 0 THEN DefaultConfirmations ELSE @,
              !.chunkSize     = IF @ = 0 THEN DefaultChunkSize ELSE @]

\* Validate, of a chain that is enabled and whose type is evm.
Validated(c) ==
    /\ c.name # ""
    /\ c.specs # <<>> \/ c.allowEmpty
    /\ c.decoders # <<>>
    /\ \A x \in ToSet(c.decoders \o c.filters) : x.type # ""

\* The scanner of the chain is built.
Accepted(c) == Validated(c) /\ SourceAccepted(c) /\ HandlerAccepted(c)

\* The block b is safe.
Confirmed(b) ==
    /\ HasSafeBlock(head, cfg.confirmations)
    /\ b <= SafeBlock(head, cfg.confirmations)

Creator(l) == Sender[l.tx]

-----------------------------------------------------------------------------

Init ==
    /\ cfg \in {WithDefaults(c) : c \in Configs}
    /\ head = 0
    /\ blacklist = {}
    /\ frontier = cfg.startBlock
    /\ events = {}
    /\ pc = IF Accepted(cfg) THEN "poll" ELSE "refused"
    /\ safe = 0 /\ next = 0 /\ chunks = <<>> /\ results = <<>>
    /\ queries = <<>> /\ logs = <<>> /\ handled = 0 /\ batch = {}
    /\ seenFree = {}
    /\ seenListed = {}
    /\ changes = MaxChanges
    /\ faults = MaxFaults

\* One of the faults the bound leaves.
Fault == faults > 0 /\ faults' = faults - 1

\* scanOnce returns: its locals are gone.
EndRound ==
    /\ pc' = "poll"
    /\ safe' = 0 /\ next' = 0 /\ chunks' = <<>> /\ results' = <<>>
    /\ queries' = <<>> /\ logs' = <<>> /\ handled' = 0 /\ batch' = {}

-----------------------------------------------------------------------------
\* The world: what the history keeps of it, the chain and the operators.

Watch ==
    LET confirmed == {l \in ToSet(Logs) : Confirmed(l.block)'}
    IN  /\ seenFree' = seenFree \cup {l \in confirmed : Creator(l) \notin blacklist'}
        /\ seenListed' = seenListed \cup {l \in confirmed : Creator(l) \in blacklist'}

Extend ==
    /\ pc # "refused"
    /\ head < MaxHead
    /\ head' = head + 1
    /\ UNCHANGED <<cfg, blacklist, changes, dbVars, pc, roundVars, chunkVars, faults>>
    /\ Watch

\* An operator lists a creator, or takes it off the list.
ChangeBlacklist ==
    /\ pc # "refused"
    /\ changes > 0
    /\ changes' = changes - 1
    /\ \E c \in {Creator(l) : l \in ToSet(Logs)} :
          blacklist' = IF c \in blacklist THEN blacklist \ {c} ELSE blacklist \cup {c}
    /\ UNCHANGED <<cfg, head, dbVars, pc, roundVars, chunkVars, faults>>
    /\ Watch

World == Extend \/ ChangeBlacklist

-----------------------------------------------------------------------------
\* A round, outside of its chunks.

\* BlockNumber, GetCursor and planChunks: nothing that changes meanwhile is
\* read twice.
Plan ==
    /\ pc = "poll"
    /\ Confirmed(frontier)
    /\ safe' = SafeBlock(head, cfg.confirmations)
    /\ next' = frontier
    /\ chunks' = PlanChunks(next', safe', cfg.chunkSize, MaxInflightChunks)
    /\ pc' = "chunk"
    /\ UNCHANGED <<chainVars, dbVars, results, chunkVars, faults>>

\* No block is safe that the cursor has not passed.
CaughtUp ==
    /\ pc = "poll"
    /\ ~Confirmed(frontier)
    /\ UNCHANGED vars

\* The worker takes the chunks in turn.  No two begin at the same block, also
\* where sums wrap round: after the one that does they begin below it.
Turn  == Cardinality(DOMAIN results) + 1
Chunk == chunks[Turn]

\* A chunk ends with a result, and the locals of processChunk are gone.
Finish(r) ==
    /\ results' = [f \in DOMAIN results \cup {Chunk.from} |->
                      IF f = Chunk.from THEN r ELSE results[f]]
    /\ queries' = <<>> /\ logs' = <<>> /\ handled' = 0 /\ batch' = {}
    /\ pc' = "chunk"
    /\ UNCHANGED <<safe, next, chunks>>

\* computeCommitPoint, and SaveCursor if the round got anywhere.
Commit ==
    /\ pc = "chunk"
    /\ Turn > Len(chunks)
    /\ LET adv == CommitPoint(next, chunks, results)
       IN  frontier' = IF adv > next THEN adv ELSE frontier
    /\ EndRound
    /\ UNCHANGED <<chainVars, events, faults>>

SaveCursorErr ==
    /\ pc = "chunk"
    /\ Turn > Len(chunks)
    /\ Fault
    /\ EndRound
    /\ UNCHANGED <<chainVars, dbVars>>

\* The process dies and is started again.
Restart ==
    /\ pc \notin {"poll", "refused"}
    /\ Fault
    /\ EndRound
    /\ UNCHANGED <<chainVars, dbVars>>

-----------------------------------------------------------------------------
\* A chunk: its queries.

\* BuildQueries refuses a range that ends before it begins.
RangeRefused ==
    /\ pc = "chunk"
    /\ Turn <= Len(chunks)
    /\ Chunk.from > Chunk.to
    /\ Finish("err")
    /\ UNCHANGED <<chainVars, dbVars, faults>>

StartChunk ==
    /\ pc = "chunk"
    /\ Turn <= Len(chunks)
    /\ Chunk.from <= Chunk.to
    /\ queries' = BuildQueries(cfg)
    /\ pc' = "fetch"
    /\ UNCHANGED <<chainVars, dbVars, roundVars, logs, handled, batch, faults>>

InChunk(l, c) == l.block \in c.from..c.to

\* The logs with those that the query returns; what several queries return is
\* there once.
AddLog(found, query, l) ==
    IF InChunk(l, Chunk) /\ Matches(query, l) /\ l \notin ToSet(found)
    THEN Append(found, l)
    ELSE found
AddLogs(query) ==
    LET found[n \in 0..Len(Logs)] ==
            IF n = 0 THEN logs ELSE AddLog(found[n - 1], query, Logs[n])
    IN  found[Len(Logs)]

\* One query after the other.
FilterLogs ==
    /\ pc = "fetch"
    /\ queries # <<>>
    /\ logs' = AddLogs(Head(queries))
    /\ queries' = Tail(queries)
    /\ UNCHANGED <<chainVars, dbVars, pc, roundVars, handled, batch, faults>>

\* loadTxSenders has the sender of every transaction of the chunk.
TxSenders == [t \in {l.tx : l \in ToSet(logs)} |-> Sender[t]]

LoadTxSenders ==
    /\ pc = "fetch"
    /\ queries = <<>>
    /\ pc' = "handle"
    /\ UNCHANGED <<chainVars, dbVars, roundVars, chunkVars, faults>>

-----------------------------------------------------------------------------
\* A chunk: HandleLogs, one log after the other.

Handling(l) == pc = "handle" /\ handled < Len(logs) /\ l = logs[handled + 1]

Skip(l) ==
    /\ handled' = handled + 1
    /\ UNCHANGED <<pc, roundVars, queries, logs, batch>>

Accept(l) ==
    /\ handled' = handled + 1
    /\ batch' = batch \cup {l}
    /\ UNCHANGED <<pc, roundVars, queries, logs>>

\* A log without a decoder is passed over, or fails the chunk.
Unmatched(l) ==
    /\ Handling(l)
    /\ FindDecoder(cfg, l) = {}
    /\ IF cfg.failOnUnmatched THEN Finish("err") ELSE Skip(l)
    /\ UNCHANGED <<chainVars, dbVars, faults>>

\* So is one that its decoder cannot decode.
Undecodable(l) ==
    /\ Handling(l)
    /\ FindDecoder(cfg, l) # {}
    /\ ~Decodes(l, TxSenders)
    /\ IF cfg.ignoreDecodeError THEN Skip(l) ELSE Finish("err")
    /\ UNCHANGED <<chainVars, dbVars, faults>>

\* The filter looks up the creator of an event as the blacklist is then.
Filter(l) ==
    /\ Handling(l)
    /\ Decodes(l, TxSenders)
    /\ \E d \in FindDecoder(cfg, l) :
          IF ApplyFilters(cfg, d, Creator(l), blacklist) THEN Accept(l) ELSE Skip(l)
    /\ UNCHANGED <<chainVars, dbVars, faults>>

\* Nothing was accepted, or the events are saved in one transaction.
SaveEvents ==
    /\ pc = "handle"
    /\ handled = Len(logs)
    /\ events' = events \cup batch
    /\ Finish("ok")
    /\ UNCHANGED <<chainVars, frontier, faults>>

\* The transaction commits, and the handler is told that it failed.
SaveEventsLost ==
    /\ pc = "handle"
    /\ handled = Len(logs)
    /\ batch # {}
    /\ Fault
    /\ events' = events \cup batch
    /\ Finish("err")
    /\ UNCHANGED <<chainVars, frontier>>

\* A query, the request for a sender, a lookup or the transaction fails.
ChunkErr ==
    /\ pc \in {"fetch", "handle"}
    /\ Fault
    /\ Finish("err")
    /\ UNCHANGED <<chainVars, dbVars>>

HandleLogs == (\E l \in ToSet(logs) : Unmatched(l) \/ Undecodable(l) \/ Filter(l)) \/ SaveEvents

-----------------------------------------------------------------------------

Step ==
    \/ Plan \/ RangeRefused \/ StartChunk \/ FilterLogs \/ LoadTxSenders
    \/ HandleLogs \/ Commit

Failure == SaveCursorErr \/ Restart \/ ChunkErr \/ SaveEventsLost

\* The process ended when it found its configuration.
Refused == pc = "refused" /\ UNCHANGED vars

Next == World \/ Step \/ CaughtUp \/ Failure \/ Refused

\* The scanner's goroutines are scheduled and its calls return.
Spec == Init /\ [][Next]_vars /\ WF_vars(Step)

-----------------------------------------------------------------------------
\* Properties.  They go by what the configuration says, not by the queries, the
\* index and the chunks that are made of it.

\* The logs the configuration asks for.
AskedFor(l) ==
    \/ cfg.specs = <<>>
    \/ \E spec \in ToSet(cfg.specs) : Matches(spec, l)

\* The enabled decoders that are configured for a log.
Decoders(l) ==
    {d \in ToSet(cfg.decoders) :
        d.enabled /\ l.topics # <<>> /\ d.factory = l.address /\ d.topic0 = l.topics[1]}

WellFormed(l) == Len(l.topics) >= 3 /\ l.decodable

Screened(l) ==
    /\ \E f \in ToSet(cfg.filters) : f.enabled
    /\ \E d \in Decoders(l) : d.eventName \in {"", "b20_created"}

\* No event is lost: a log that the configuration asks for and whose block the
\* cursor has passed is recorded, unless it is a log the configuration says to
\* pass over, or its creator was listed at some time since its block was
\* confirmed.  The scanner never comes back to it.
PassedOver(l) ==
    \/ Decoders(l) = {} /\ ~cfg.failOnUnmatched
    \/ ~WellFormed(l) /\ cfg.ignoreDecodeError
    \/ Screened(l) /\ l \in seenListed
NothingSkipped ==
    \A l \in ToSet(Logs) :
        cfg.startBlock <= l.block /\ l.block < frontier /\ AskedFor(l) =>
            l \in events \/ PassedOver(l)

\* Some of the chunks of a round may begin below the one before.
MayWrap == cfg.chunkSize + MaxHead > Word

\* Nothing else is recorded: an event is of a confirmed log that was asked for
\* and that an enabled decoder is configured for, from the start block on, and
\* its creator was free at some time since, if there is a filter of creators
\* and the event has the name that filter goes by.
Wanted(l) ==
    /\ Confirmed(l.block) /\ (cfg.startBlock <= l.block \/ MayWrap)
    /\ AskedFor(l) /\ Decoders(l) # {} /\ WellFormed(l)
    /\ Screened(l) => l \in seenFree
OnlyWanted == \A l \in events : Wanted(l)

\* The logs that a handler with this configuration can never handle.
Poison(l) ==
    /\ \/ Decoders(l) = {} /\ cfg.failOnUnmatched
       \/ Decoders(l) # {} /\ ~WellFormed(l) /\ ~cfg.ignoreDecodeError
    /\ AskedFor(l)

HeldUp(b) ==
    \E l \in ToSet(Logs) :
        cfg.startBlock <= l.block /\ l.block < b + cfg.chunkSize /\ Poison(l)

\* The scanner gets past every confirmed block that no such log comes before,
\* nor within a chunk after: one it cannot handle holds up its own chunk and
\* those behind it, and no block before them.  Only a chunk size so large that
\* sums of heights wrap round may stop it.
CatchesUp ==
    \A b \in 1..MaxHead :
        Confirmed(b) /\ pc # "refused" /\ ~MayWrap /\ ~HeldUp(b) ~> b < frontier

-----------------------------------------------------------------------------
\* Why they hold.

InRound == {"chunk", "fetch", "handle"}

TypeOK ==
    /\ cfg \in {WithDefaults(c) : c \in Configs}
    /\ head \in 0..MaxHead
    /\ frontier \in Heights /\ safe \in Heights
    /\ events \subseteq ToSet(Logs)
    /\ pc \in InRound \cup {"poll", "refused"}
    /\ queries \in Seq(QuerySpecs)
    /\ logs \in Seq(ToSet(Logs))
    /\ handled \in 0..Len(logs)
    /\ batch \subseteq ToSet(logs)
    /\ changes \in 0..MaxChanges
    /\ faults \in 0..MaxFaults

\* What the history keeps of the logs that are confirmed now.
WatchInv ==
    \A l \in ToSet(Logs) : Confirmed(l.block) =>
        IF Creator(l) \in blacklist THEN l \in seenListed ELSE l \in seenFree

\* The logs that c would have recorded are recorded.
Done(c) ==
    /\ c.from <= c.to
    /\ \A l \in ToSet(Logs) :
          InChunk(l, c) /\ AskedFor(l) => l \in events \/ PassedOver(l)

\* A round works on what planChunks made of the cursor and of blocks that are
\* safe, and has the results of the chunks before its turn.
RoundInv ==
    /\ pc # "refused" => Accepted(cfg)
    /\ cfg.startBlock <= frontier
    /\ pc \notin InRound => results = <<>>
    /\ pc \in InRound =>
          /\ next = frontier /\ next <= safe /\ Confirmed(safe)
          /\ chunks = PlanChunks(next, safe, cfg.chunkSize, MaxInflightChunks)
          /\ Turn - 1 \in 0..Len(chunks)
          /\ DOMAIN results = {chunks[i].from : i \in 1..(Turn - 1)}
          /\ \A i \in 1..(Turn - 1) : results[chunks[i].from] = "ok" => Done(chunks[i])

\* A chunk has the logs that its queries returned; what it lacks, one that is
\* left will return.
ChunkInv ==
    /\ pc \in {"fetch", "handle"} =>
          /\ Turn <= Len(chunks) /\ Chunk.from <= Chunk.to
          /\ \A q \in ToSet(queries), l \in ToSet(Logs) : Matches(q, l) => AskedFor(l)
          /\ \A l \in ToSet(logs) : InChunk(l, Chunk) /\ AskedFor(l)
          /\ \A l \in ToSet(Logs) : InChunk(l, Chunk) /\ AskedFor(l) =>
                l \in ToSet(logs) \/ \E q \in ToSet(queries) : Matches(q, l)
    /\ pc \notin {"fetch", "handle"} => logs = <<>>
    /\ pc = "handle" => queries = <<>>
    /\ pc # "handle" => handled = 0

\* The logs it has handled are accepted, or may be left out.
HandleInv ==
    /\ \A i \in 1..handled : logs[i] \in batch \/ PassedOver(logs[i])
    /\ \A l \in batch : Wanted(l)

IndInv ==
    /\ TypeOK /\ WatchInv
    /\ RoundInv /\ ChunkInv /\ HandleInv
    /\ NothingSkipped
    /\ OnlyWanted
=============================================================================
