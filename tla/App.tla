--------------------------------- MODULE App ---------------------------------
(***************************************************************************)
(* The life of the process: what Run (src/cmd/app) starts, and how the     *)
(* manager of src/common/graceful brings it down.                          *)
(*                                                                         *)
(* The main goroutine opens the database, starts the notification workers, *)
(* then opens the endpoints of one chain after the other and starts its    *)
(* scanner; then it waits for the context to end and shuts down.  Workers  *)
(* and scanners are the services: they run beside it, use what was opened, *)
(* and may panic.  A signal may come at any time.                          *)
(*                                                                         *)
(* Simplifications.  Closing a resource returns, and leaves it closed      *)
(* whether or not it reports an error.  Time is not modelled: the drain    *)
(* may time out whenever it waits.  The runtime's signal handling is       *)
(* modelled from what NotifyContext is used for: until the manager cancels *)
(* it a signal ends the context, afterwards one kills the process.         *)
(***************************************************************************)
EXTENDS Integers, Sequences, FiniteSets

CONSTANTS
    NumWorkers,     \* how many notification workers; 0 without senders
    NumChains,      \* how many enabled EVM chains
    None,           \* no resource
    MaxSignals      \* bound on the signals that come

ASSUME AppAssumption ==
    /\ NumWorkers \in Nat
    /\ NumChains \in Nat
    /\ MaxSignals \in Nat

Worker(k)  == <<"notification-outbox", k>>
Scanner(k) == <<"evm-scanner", k>>

Services == {Worker(k) : k \in 1..NumWorkers} \cup {Scanner(k) : k \in 1..NumChains}

DB     == <<"database", 0>>
Rpc(k) == <<"rpc", k>>

Resources == {DB} \cup {Rpc(k) : k \in 1..NumChains}

ASSUME NoneAssumption == None \notin Resources

Uses(s) == {DB} \cup {Rpc(k) : k \in {i \in 1..NumChains : s = Scanner(i)}}

VARIABLES
    main,       \* where the main goroutine is
    turn,       \* the worker or chain that it starts next
    ctxDone,    \* whether the manager's context has ended
    running,    \* Manager.running
    hooked,     \* whether signals still end the context and nothing else
    cleanups,   \* the cleanups registered and not yet run
    wg,         \* Manager.wg
    svc,        \* the state of each service
    using,      \* what each service is in the middle of using
    open,       \* the resources that are open
    timedOut,   \* whether waitGoroutine gave up
    proc,       \* whether the process is up, and how it ended
    signals     \* how many more signals may come

managerVars == <<ctxDone, running, hooked, cleanups, wg, timedOut>>
serviceVars == <<svc, using>>
vars == <<main, turn, managerVars, serviceVars, open, proc, signals>>

Startup == {"open", "migrate", "prepare", "workers", "dial", "build", "launch"}
Stages  == Startup \cup {"wait", "shutdown", "cancel", "drain", "cleanup", "done"}

\* The states of a goroutine that the wait group counts.
Live == {"run", "stopping", "leaving"}

Alive == {s \in Services : svc[s] \in Live}

TypeOK ==
    /\ main \in Stages
    /\ turn \in Nat \ {0}
    /\ ctxDone \in BOOLEAN /\ running \in BOOLEAN /\ hooked \in BOOLEAN
    /\ cleanups \in Seq(Resources)
    /\ wg \in Nat
    /\ svc \in [Services -> Live \cup {"none", "ended"}]
    /\ using \in [Services -> Resources \cup {None}]
    /\ open \subseteq Resources
    /\ timedOut \in BOOLEAN
    /\ proc \in {"up", "exited", "failed", "killed"}
    /\ signals \in 0..MaxSignals

Init ==
    /\ main = "open" /\ turn = 1
    /\ ctxDone = FALSE /\ running = TRUE /\ hooked = TRUE
    /\ cleanups = <<>> /\ wg = 0 /\ timedOut = FALSE
    /\ svc = [s \in Services |-> "none"]
    /\ using = [s \in Services |-> None]
    /\ open = {} /\ proc = "up" /\ signals = MaxSignals

-----------------------------------------------------------------------------
\* The main goroutine starts the parts.  A definition whose name ends in X is
\* the one after it with a bug in it, which the checks are tried on.

At(stage) == proc = "up" /\ main = stage

\* No cleanup is registered.
OpensX(r) ==
    /\ open' = open \cup {r}
    /\ UNCHANGED managerVars

Opens(r) ==
    /\ open' = open \cup {r}
    /\ cleanups' = Append(cleanups, r)
    /\ UNCHANGED <<ctxDone, running, hooked, wg, timedOut>>

\* The goroutine is not counted before it starts.
GoX(s) ==
    /\ svc' = IF running THEN [svc EXCEPT ![s] = "run"] ELSE svc
    /\ UNCHANGED <<managerVars, using>>

\* Manager.Go: nothing is started once the manager is stopping.
Go(s) ==
    /\ wg' = IF running THEN wg + 1 ELSE wg
    /\ svc' = IF running THEN [svc EXCEPT ![s] = "run"] ELSE svc
    /\ UNCHANGED <<ctxDone, running, hooked, cleanups, timedOut, using>>

\* Open and Migrate talk to the database under the manager's context.
OpenDatabase ==
    /\ At("open") /\ ~ctxDone
    /\ Opens(DB)
    /\ main' = "migrate"
    /\ UNCHANGED <<turn, serviceVars, proc, signals>>

Migrate ==
    /\ At("migrate") /\ ~ctxDone
    /\ main' = "prepare"
    /\ UNCHANGED <<turn, managerVars, serviceVars, open, proc, signals>>

\* The ID generator, the senders and the dispatcher are made.
Prepare ==
    /\ At("prepare")
    /\ main' = "workers"
    /\ UNCHANGED <<turn, managerVars, serviceVars, open, proc, signals>>

StartWorker ==
    /\ At("workers") /\ turn <= NumWorkers
    /\ Go(Worker(turn))
    /\ turn' = turn + 1
    /\ UNCHANGED <<main, open, proc, signals>>

WorkersStarted ==
    /\ At("workers") /\ turn > NumWorkers
    /\ main' = "dial"
    /\ turn' = 1
    /\ UNCHANGED <<managerVars, serviceVars, open, proc, signals>>

OpenRPCClient ==
    /\ At("dial") /\ turn <= NumChains
    /\ Opens(Rpc(turn))
    /\ main' = "build"
    /\ UNCHANGED <<turn, serviceVars, proc, signals>>

BuildScanner ==
    /\ At("build")
    /\ main' = "launch"
    /\ UNCHANGED <<turn, managerVars, serviceVars, open, proc, signals>>

StartScanner ==
    /\ At("launch")
    /\ Go(Scanner(turn))
    /\ turn' = turn + 1
    /\ main' = "dial"
    /\ UNCHANGED <<open, proc, signals>>

ChainsStarted ==
    /\ At("dial") /\ turn > NumChains
    /\ main' = "wait"
    /\ UNCHANGED <<turn, managerVars, serviceVars, open, proc, signals>>

\* Run returns the error, and log.Fatal ends the process as it is.
StartupFails ==
    /\ proc = "up"
    /\ \/ main \in {"open", "migrate", "prepare", "build"}
       \/ main = "dial" /\ turn <= NumChains
    /\ proc' = "failed"
    /\ UNCHANGED <<main, turn, managerVars, serviceVars, open, signals>>

-----------------------------------------------------------------------------
\* The main goroutine waits and shuts down.

Wait ==
    /\ At("wait") /\ ctxDone
    /\ main' = "shutdown"
    /\ UNCHANGED <<turn, managerVars, serviceVars, open, proc, signals>>

\* Stop changes running first; only the caller that did cancels the context.
ShutdownStop ==
    /\ At("shutdown")
    /\ main' = IF running THEN "cancel" ELSE "drain"
    /\ running' = FALSE
    /\ UNCHANGED <<turn, ctxDone, hooked, cleanups, wg, timedOut,
                   serviceVars, open, proc, signals>>

CancelContext ==
    /\ ctxDone' = TRUE
    /\ hooked' = FALSE

ShutdownCancel ==
    /\ At("cancel")
    /\ CancelContext
    /\ main' = "drain"
    /\ UNCHANGED <<turn, running, cleanups, wg, timedOut,
                   serviceVars, open, proc, signals>>

\* The wait group is not waited for.
DrainedX ==
    /\ At("drain")
    /\ main' = "cleanup"
    /\ UNCHANGED <<turn, managerVars, serviceVars, open, proc, signals>>

\* waitGoroutine: the wait group is empty, or the time is up.
Drained ==
    /\ At("drain") /\ wg = 0
    /\ main' = "cleanup"
    /\ UNCHANGED <<turn, managerVars, serviceVars, open, proc, signals>>

\* There is no timeout.
DrainTimesOutX == Drained

DrainTimesOut ==
    /\ At("drain")
    /\ main' = "cleanup"
    /\ timedOut' = TRUE
    /\ UNCHANGED <<turn, ctxDone, running, hooked, cleanups, wg,
                   serviceVars, open, proc, signals>>

\* From the first to the last.
RunCleanupX ==
    /\ At("cleanup") /\ cleanups # <<>>
    /\ open' = open \ {cleanups[1]}
    /\ cleanups' = Tail(cleanups)
    /\ UNCHANGED <<main, turn, ctxDone, running, hooked, wg, timedOut,
                   serviceVars, proc, signals>>

\* runCleanups: the last one registered is the first to run.
RunCleanup ==
    /\ At("cleanup") /\ cleanups # <<>>
    /\ open' = open \ {cleanups[Len(cleanups)]}
    /\ cleanups' = SubSeq(cleanups, 1, Len(cleanups) - 1)
    /\ UNCHANGED <<main, turn, ctxDone, running, hooked, wg, timedOut,
                   serviceVars, proc, signals>>

Exit ==
    /\ At("cleanup") /\ cleanups = <<>>
    /\ main' = "done"
    /\ proc' = "exited"
    /\ UNCHANGED <<turn, managerVars, serviceVars, open, signals>>

Main ==
    \/ OpenDatabase \/ Migrate \/ Prepare
    \/ StartWorker \/ WorkersStarted
    \/ OpenRPCClient \/ BuildScanner \/ StartScanner \/ ChainsStarted
    \/ StartupFails
    \/ Wait \/ ShutdownStop \/ ShutdownCancel
    \/ Drained \/ DrainTimesOut \/ RunCleanup \/ Exit

-----------------------------------------------------------------------------
\* A service.

In(s, state) == proc = "up" /\ svc[s] = state

\* A call to the database or to the chain, which it makes as long as it runs.
BeginUse(s) ==
    /\ In(s, "run") /\ using[s] = None
    /\ \E r \in Uses(s) : using' = [using EXCEPT ![s] = r]
    /\ UNCHANGED <<main, turn, managerVars, svc, open, proc, signals>>

EndUse(s) ==
    /\ In(s, "run") /\ using[s] # None
    /\ using' = [using EXCEPT ![s] = None]
    /\ UNCHANGED <<main, turn, managerVars, svc, open, proc, signals>>

\* Run returns the context's error, and returns for no other reason.
Return(s) ==
    /\ In(s, "run") /\ using[s] = None /\ ctxDone
    /\ svc' = [svc EXCEPT ![s] = "leaving"]
    /\ UNCHANGED <<main, turn, managerVars, using, open, proc, signals>>

\* The panic is recovered, and that is all.
PanicX(s) ==
    /\ In(s, "run")
    /\ svc' = [svc EXCEPT ![s] = "leaving"]
    /\ using' = [using EXCEPT ![s] = None]
    /\ UNCHANGED <<main, turn, managerVars, open, proc, signals>>

\* A panic is recovered and stops the manager, as an error that Run returned
\* would; one that comes when it is stopping already changes nothing.
Panic(s) ==
    /\ In(s, "run")
    /\ svc' = [svc EXCEPT ![s] = IF running THEN "stopping" ELSE "leaving"]
    /\ using' = [using EXCEPT ![s] = None]
    /\ running' = FALSE
    /\ UNCHANGED <<main, turn, ctxDone, hooked, cleanups, wg, timedOut,
                   open, proc, signals>>

StopCancels(s) ==
    /\ In(s, "stopping")
    /\ CancelContext
    /\ svc' = [svc EXCEPT ![s] = "leaving"]
    /\ UNCHANGED <<main, turn, running, cleanups, wg, timedOut,
                   using, open, proc, signals>>

\* The deferred wg.Done.
Leave(s) ==
    /\ In(s, "leaving")
    /\ svc' = [svc EXCEPT ![s] = "ended"]
    /\ wg' = wg - 1
    /\ UNCHANGED <<main, turn, ctxDone, running, hooked, cleanups, timedOut,
                   using, open, proc, signals>>

\* The goroutines in which a scanner fetches its chunks recover nothing.
FetchPanics(s) ==
    /\ In(s, "run") /\ using[s] # None
    /\ s \in {Scanner(k) : k \in 1..NumChains}
    /\ proc' = "killed"
    /\ UNCHANGED <<main, turn, managerVars, serviceVars, open, signals>>

Service(s) ==
    \/ BeginUse(s) \/ EndUse(s) \/ Return(s)
    \/ Panic(s) \/ StopCancels(s) \/ Leave(s) \/ FetchPanics(s)

-----------------------------------------------------------------------------
\* SIGINT or SIGTERM.

Signal ==
    /\ proc = "up" /\ signals > 0
    /\ signals' = signals - 1
    /\ ctxDone' = (ctxDone \/ hooked)
    /\ proc' = IF hooked THEN proc ELSE "killed"
    /\ UNCHANGED <<main, turn, running, hooked, cleanups, wg, timedOut,
                   serviceVars, open>>

Terminated == proc # "up" /\ UNCHANGED vars

Next == Main \/ (\E s \in Services : Service(s)) \/ Signal \/ Terminated

Spec == Init /\ [][Next]_vars

\* The main goroutine and one that is stopping the manager go on; nothing is
\* asked of a service that does its work.
FairSpec ==
    /\ Spec
    /\ WF_vars(Main)
    /\ \A s \in Services : WF_vars(StopCancels(s))

-----------------------------------------------------------------------------
\* Properties.

\* Unless the drain timed out, no service ever uses a database or an endpoint
\* that is not open: everything is open before the service starts, and what
\* the cleanups close, the wait group has seen the last user of
\* (Manager.Go, waitGoroutine, runCleanups).
UsesOnlyOpen ==
    proc = "up" /\ ~timedOut => \A s \in Services : using[s] \in open \cup {None}

\* The database is the last to be closed: as long as a chain's endpoints are
\* open, so is the database its scanner writes to (run.go registers it first,
\* and runCleanups goes from the last to the first).
DatabaseLast == open # {} => DB \in open

\* A process that shut down left nothing open and, unless the drain timed out,
\* no service behind, whatever stopped it (Shutdown, Wait).
CleanExit ==
    proc = "exited" => open = {} /\ (timedOut \/ Alive = {})

\* Once the context has ended the process does, even when startup was not over
\* or services hang (Wait, waitGoroutine's timeout).
ShutsDown == ctxDone ~> proc # "up"

\* A service that panics takes the whole process down: none is left running
\* with one of its parts gone (Manager.Go, Stop).
PanicEndsProcess ==
    (\E s \in Services : svc[s] \in {"stopping", "leaving", "ended"}) ~> proc # "up"

\* The invariant the proofs go by induction on.

\* The wait group counts the goroutines that have not ended.
Counted == wg = Cardinality(Alive)

NotYetStarted ==
    /\ main \in {"open", "migrate", "prepare"} => turn = 1
    /\ main \in {"open", "migrate", "prepare"} => \A s \in Services : svc[s] = "none"
    /\ main = "workers" => \A k \in 1..NumWorkers : k >= turn => svc[Worker(k)] = "none"
    /\ main = "workers" => \A k \in 1..NumChains : svc[Scanner(k)] = "none"
    /\ main \in {"dial", "build", "launch"} =>
           \A k \in 1..NumChains : k >= turn => svc[Scanner(k)] = "none"
    /\ main \in {"build", "launch"} => turn <= NumChains

OpenFirst ==
    main \notin {"cleanup", "done"} =>
        /\ main # "open" => DB \in open
        /\ main = "build" \/ main = "launch" => Rpc(turn) \in open
        /\ \A s \in Alive : Uses(s) \subseteq open

UsersAlive == \A s \in Services : svc[s] # "run" => using[s] = None

UsesItsOwn == \A s \in Services : using[s] \in Uses(s) \cup {None}

DrainedFirst == main \in {"cleanup", "done"} /\ ~timedOut => Alive = {}

DatabaseFirst ==
    /\ main = "open" => cleanups = <<>>
    /\ \A i \in 1..Len(cleanups) : cleanups[i] = DB <=> i = 1

StillToClose == open \subseteq {cleanups[i] : i \in 1..Len(cleanups)}

ExitsDone == proc = "exited" <=> main = "done"

DoneEmpty == main = "done" => cleanups = <<>>

IndInv ==
    /\ TypeOK
    /\ Counted
    /\ NotYetStarted /\ OpenFirst /\ DrainedFirst
    /\ UsersAlive /\ UsesItsOwn
    /\ DatabaseFirst /\ DatabaseLast /\ StillToClose
    /\ ExitsDone /\ DoneEmpty
=============================================================================
