------------------------------ MODULE RpcClient ------------------------------
(***************************************************************************)
(* The client of a chain's endpoints (src/chains/evm/rpc_client.go).  The  *)
(* goroutines that fetch chunks share it: each request waits for a token   *)
(* of a rate limiter, goes to the next endpoint in turn, and holds one of  *)
(* a few slots while it is out.  One that fails is repeated after a delay. *)
(*                                                                         *)
(* Simplifications.  Each call has a context of its own, which may end at  *)
(* any time.  A request is answered or fails, its deadline included, after *)
(* any time.  rate.Limiter gives a token to whoever asks while there are   *)
(* any, where the library reserves one in advance: a call that gives up    *)
(* has taken none.  The round robin's counter is kept modulo the number of *)
(* endpoints, all that pickEndpoint looks at; 2^63 requests, which make    *)
(* its index negative, are not reached.                                    *)
(***************************************************************************)
EXTENDS Integers, FiniteSets, Sequences

CONSTANTS
    Callers,            \* goroutines that use the client
    NumURLs,            \* len(RPCConfig.URLs)
    MaxConcurrent,      \* RPCConfig.MaxConcurrentRequests
    RequestsPerSecond,  \* RPCConfig.RequestsPerSecond, rate and burst, per Tick
    RetryMax,           \* RPCConfig.RetryMax
    RetryBaseDelay,     \* RPCConfig.RetryBaseDelay, in Ticks
    RetryMaxDelay       \* RPCConfig.RetryMaxDelay, in Ticks

\* applyRPCDefault replaces zero and less by a default.
ASSUME RpcAssumption ==
    /\ IsFiniteSet(Callers)
    /\ {NumURLs, MaxConcurrent, RequestsPerSecond} \subseteq Nat \ {0}
    /\ {RetryMax, RetryBaseDelay, RetryMaxDelay} \subseteq Nat \ {0}

VARIABLES
    endpoints,      \* those that could be dialled, in the order of the URLs
    nextEndpoint,   \* the round robin's counter
    tokens,         \* tokens left in the limiter
    sem,            \* slots taken: len(sem)
    pc,             \* where call c is in do
    attempt,        \* its attempt, from 0
    ep,             \* the endpoint it picked
    timer,          \* time left of its delay before the next attempt
    done            \* whether its context has ended

\* For the properties to speak of.
VARIABLES
    failed,         \* the callers whose last call ran out of attempts
    tried,          \* the endpoints the last call of c sent requests to
    alone           \* whether nobody else picked an endpoint during it

clientVars  == <<nextEndpoint, tokens, sem>>
callVars    == <<pc, attempt, ep, timer, done>>
historyVars == <<failed, tried, alone>>
vars        == <<endpoints, clientVars, callVars, historyVars>>

URLs == 1..NumURLs

\* URLs that cannot be dialled are left out; without any the program ends.
Dialled ==
    {q \in UNION {[1..n -> URLs] : n \in 1..NumURLs} :
        \A i, j \in DOMAIN q : i < j => q[i] < q[j]}

TypeOK ==
    /\ endpoints \in Dialled
    /\ nextEndpoint \in 0..(Len(endpoints) - 1)
    /\ tokens \in 0..RequestsPerSecond
    /\ sem \in 0..MaxConcurrent
    /\ pc \in [Callers -> {"idle", "limiter", "acquire", "call", "backoff"}]
    /\ attempt \in [Callers -> 0..RetryMax]
    /\ ep \in [Callers -> URLs]
    /\ timer \in [Callers -> Nat]
    /\ done \in [Callers -> BOOLEAN]
    /\ failed \subseteq Callers
    /\ tried \in [Callers -> SUBSET URLs]
    /\ alone \in [Callers -> BOOLEAN]

Least(a, b) == IF a < b THEN a ELSE b

-----------------------------------------------------------------------------
\* OpenRPCClient.  A definition whose name ends in X is the one after it with a
\* bug that the checks are tried on.

Init ==
    /\ endpoints \in Dialled
    /\ nextEndpoint = 0
    /\ tokens = RequestsPerSecond
    /\ sem = 0
    /\ pc = [c \in Callers |-> "idle"]
    /\ attempt = [c \in Callers |-> 0]
    /\ ep = [c \in Callers |-> endpoints[1]]
    /\ timer = [c \in Callers |-> 0]
    /\ done = [c \in Callers |-> FALSE]
    /\ failed = {}
    /\ tried = [c \in Callers |-> {}]
    /\ alone = [c \in Callers |-> TRUE]

-----------------------------------------------------------------------------
\* do.

At(c, where)   == pc[c] = where
Goto(c, where) == pc' = [pc EXCEPT ![c] = where]

Call(c) ==
    /\ At(c, "idle")
    /\ Goto(c, "limiter")
    /\ attempt' = [attempt EXCEPT ![c] = 0]
    /\ done' = [done EXCEPT ![c] = FALSE]
    /\ failed' = failed \ {c}
    /\ tried' = [tried EXCEPT ![c] = {}]
    /\ alone' = [alone EXCEPT ![c] = TRUE]
    /\ UNCHANGED <<endpoints, clientVars, ep, timer>>

\* The call ends with the error of its context.
Returns(c) ==
    /\ Goto(c, "idle")
    /\ UNCHANGED <<attempt, ep, timer, done, historyVars>>

\* pickEndpoint: an atomic counter, modulo the number of endpoints.
PickEndpointX(c) ==
    /\ IF attempt[c] = 0
       THEN /\ ep' = [ep EXCEPT ![c] = endpoints[nextEndpoint + 1]]
            /\ nextEndpoint' = (nextEndpoint + 1) % Len(endpoints)
       ELSE UNCHANGED <<ep, nextEndpoint>>
    /\ alone' = [d \in Callers |-> alone[d] /\ d = c]
PickEndpoint(c) ==
    /\ ep' = [ep EXCEPT ![c] = endpoints[nextEndpoint + 1]]
    /\ nextEndpoint' = (nextEndpoint + 1) % Len(endpoints)
    /\ alone' = [d \in Callers |-> alone[d] /\ d = c]

\* limiter.Wait looks at the context first.
TakeToken(c) ==
    /\ At(c, "limiter")
    /\ ~done[c]
    /\ tokens > 0
    /\ tokens' = tokens - 1
    /\ PickEndpoint(c)
    /\ Goto(c, "acquire")
    /\ UNCHANGED <<endpoints, sem, attempt, timer, done, failed, tried>>

LimiterCancelled(c) ==
    /\ At(c, "limiter")
    /\ done[c]
    /\ Returns(c)
    /\ UNCHANGED <<endpoints, clientVars>>

RetryDelay(n) == Least(RetryBaseDelay * 2^n, RetryMaxDelay)

\* An attempt failed: it was the last, or the next is after a delay.
AttemptFails(c) ==
    /\ IF attempt[c] = RetryMax
       THEN /\ Goto(c, "idle")
            /\ failed' = failed \cup {c}
            /\ UNCHANGED timer
       ELSE /\ Goto(c, "backoff")
            /\ timer' = [timer EXCEPT ![c] = RetryDelay(attempt[c])]
            /\ UNCHANGED failed
    /\ UNCHANGED <<endpoints, nextEndpoint, tokens, attempt, ep, done, alone>>

\* The slot may be taken by a call whose context has ended: select takes either.
Acquire(c) ==
    /\ At(c, "acquire")
    /\ sem < MaxConcurrent
    /\ sem' = sem + 1
    /\ tried' = [tried EXCEPT ![c] = @ \cup {ep[c]}]
    /\ Goto(c, "call")
    /\ UNCHANGED <<endpoints, nextEndpoint, tokens, attempt, ep, timer, done, failed, alone>>

AcquireCancelledX(c) ==
    /\ At(c, "acquire")
    /\ done[c]
    /\ sem > 0
    /\ sem' = sem - 1
    /\ AttemptFails(c)
    /\ UNCHANGED tried
AcquireCancelled(c) ==
    /\ At(c, "acquire")
    /\ done[c]
    /\ AttemptFails(c)
    /\ UNCHANGED <<sem, tried>>

CallOk(c) ==
    /\ At(c, "call")
    /\ sem' = sem - 1
    /\ Goto(c, "idle")
    /\ UNCHANGED <<endpoints, nextEndpoint, tokens, attempt, ep, timer, done, historyVars>>

CallErrX(c) ==
    /\ At(c, "call")
    /\ AttemptFails(c)
    /\ UNCHANGED <<sem, tried>>
CallErr(c) ==
    /\ At(c, "call")
    /\ sem' = sem - 1
    /\ AttemptFails(c)
    /\ UNCHANGED tried

DelayEnds(c) ==
    /\ At(c, "backoff")
    /\ timer[c] = 0
    /\ attempt' = [attempt EXCEPT ![c] = @ + 1]
    /\ Goto(c, "limiter")
    /\ UNCHANGED <<endpoints, clientVars, ep, timer, done, historyVars>>

DelayCancelled(c) ==
    /\ At(c, "backoff")
    /\ done[c]
    /\ Returns(c)
    /\ UNCHANGED <<endpoints, clientVars>>

Step(c) ==
    \/ TakeToken(c) \/ LimiterCancelled(c)
    \/ Acquire(c) \/ AcquireCancelled(c)
    \/ CallOk(c) \/ CallErr(c)
    \/ DelayEnds(c) \/ DelayCancelled(c)

-----------------------------------------------------------------------------

\* The context of a call ends.
Cancel(c) ==
    /\ ~At(c, "idle")
    /\ ~done[c]
    /\ done' = [done EXCEPT ![c] = TRUE]
    /\ UNCHANGED <<endpoints, clientVars, pc, attempt, ep, timer, historyVars>>

\* Time passes: delays run off and the limiter gets its tokens.
Tick ==
    /\ tokens < RequestsPerSecond \/ \E c \in Callers : timer[c] > 0
    /\ tokens' = RequestsPerSecond
    /\ timer' = [c \in Callers |-> IF timer[c] > 0 THEN timer[c] - 1 ELSE 0]
    /\ UNCHANGED <<endpoints, nextEndpoint, sem, pc, attempt, ep, done, historyVars>>

Next == Tick \/ \E c \in Callers : Call(c) \/ Step(c) \/ Cancel(c)

Spec == Init /\ [][Next]_vars

\* Time passes, and a call goes on whenever it can: the limiter reserves its
\* tokens in the order of asking and a channel queues those who wait to send, so
\* that nobody waits while others are served again and again; requests have a
\* deadline.
Fairness == WF_vars(Tick) /\ \A c \in Callers : SF_vars(Step(c))

FairSpec == Spec /\ Fairness

-----------------------------------------------------------------------------
\* Properties.

\* The slots in use are those of the requests that are out, wherever calls fail
\* or are cancelled: none is lost, which would stop the scanner for good after a
\* few, and none is released by a call that never had it, which would let more
\* requests out than MaxConcurrentRequests.
SlotsHeld == sem = Cardinality({c \in Callers : pc[c] = "call"})

\* A call that nobody else's picks came between fails only after it asked every
\* endpoint, or as many as it had attempts: one endpoint that is down is no
\* reason to fail.  (With other calls between its attempts it may meet the same
\* endpoint each time.)
FailsOver ==
    \A c \in failed :
        alone[c] /\ ~done[c] =>
            Cardinality(tried[c]) = Least(RetryMax + 1, Len(endpoints))

\* Every call returns, whatever the endpoints do and wherever others are
\* cancelled.
CallsEnd == \A c \in Callers : pc[c] # "idle" ~> pc[c] = "idle"

-----------------------------------------------------------------------------
\* Why a call fails over: as long as nobody else picks, its last k picks are the k
\* endpoints before the one whose turn it is.

PickedAgo(k) ==
    endpoints[IF k <= nextEndpoint THEN nextEndpoint - k + 1
                                   ELSE nextEndpoint - k + 1 + Len(endpoints)]
LastPicked(n) == {PickedAgo(k) : k \in 1..Least(n, Len(endpoints))}

CallInv(c) ==
    /\ pc[c] = "backoff" => attempt[c] < RetryMax
    /\ c \in failed => pc[c] = "idle" /\ attempt[c] = RetryMax
    /\ alone[c] /\ ~done[c] =>
          /\ pc[c] = "limiter" => tried[c] = LastPicked(attempt[c])
          /\ pc[c] = "acquire" => tried[c] \cup {ep[c]} = LastPicked(attempt[c] + 1)
          /\ pc[c] \in {"call", "backoff"} \/ c \in failed =>
                tried[c] = LastPicked(attempt[c] + 1)

IndInv ==
    /\ TypeOK
    /\ SlotsHeld
    /\ \A c \in Callers : CallInv(c)
=============================================================================
