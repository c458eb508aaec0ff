------------------------------ MODULE RedisLock ------------------------------
(***************************************************************************)
(* The lock on a Redis key (src/redis/lock.go).  The program does not use  *)
(* the package yet; it is meant to keep several instances apart.           *)
(*                                                                         *)
(* Each client calls TryLock, Lock, Renew and Unlock for one key.  Its     *)
(* commands reach the server after any time.  go-redis sends a command     *)
(* again when no answer came, and a call may end with an error while its   *)
(* command is still on the way: such a copy is executed later, or never.   *)
(* The end of a context keeps a command from being sent, but one that is   *)
(* out is not interrupted by it (go-redis, unless it is told to).          *)
(*                                                                         *)
(* Simplifications.  All clocks run equally fast, in Ticks.  Tokens are    *)
(* taken anew from a small set where the code draws 16 random bytes.  The  *)
(* server does not lose keys.  A lock whose TryLock, Lock or Unlock        *)
(* reported an error is nobody's: it is left to run out.                   *)
(***************************************************************************)
EXTENDS Integers, FiniteSets

CONSTANTS
    Clients,
    Tokens,
    None,           \* no token
    TTL,            \* LockOptions.TTL, the ttl of TryLock
    RenewTTLs,      \* what Renew is called with; 0 is the lock's own TTL
    RetryInterval,  \* LockOptions.RetryInterval
    Timeout,        \* LockOptions.Timeout; 0 is none
    MaxFaults       \* bound on lost answers, calls given up and crashes

ASSUME RedisLockAssumption ==
    /\ None \notin Tokens
    /\ IsFiniteSet(Clients) /\ IsFiniteSet(Tokens)
    /\ Cardinality(Tokens) > Cardinality(Clients) + MaxFaults
    /\ {TTL, RetryInterval} \subseteq Nat \ {0}
    /\ RenewTTLs \subseteq Nat
    /\ {Timeout, MaxFaults} \subseteq Nat

\* The server.
VARIABLES
    key,        \* the token in the key, or None
    ttl,        \* how long it stays there; 0 is for good, as in Redis
    late        \* copies of commands whose caller does not wait for them

\* The clients.
VARIABLES
    pc,         \* what client c is at: "set", "del" and "expire" are commands out
    cmd,        \* its command
    answer,     \* the answer to it: "none" until it was executed
    lockTTL,    \* Lock.TTL
    looping,    \* whether it is in Lock, not in TryLock
    timer,      \* time left before Lock tries again
    deadline,   \* time left before its context ends
    faults      \* how many faults are left

\* How long client c may rely on its lock, counted from before it asked for it,
\* and how long it may if the command that is out succeeds.
VARIABLES lease, promised

serverVars == <<key, ttl, late>>
leaseVars  == <<lease, promised>>
clientVars == <<pc, cmd, answer, lockTTL, looping, timer, deadline>>
vars       == <<serverVars, clientVars, leaseVars, faults>>

Commands == [op: {"set", "del", "expire"}, token: Tokens, ttl: Nat]
NoCmd    == [op |-> "none", token |-> None, ttl |-> 0]

TypeOK ==
    /\ key \in Tokens \cup {None}
    /\ ttl \in Nat /\ (key = None <=> ttl = 0)
    /\ late \subseteq Commands
    /\ pc \in [Clients -> {"idle", "set", "retry", "held", "del", "expire"}]
    /\ cmd \in [Clients -> Commands \cup {NoCmd}]
    /\ answer \in [Clients -> {"none", "yes", "no"}]
    /\ looping \in [Clients -> BOOLEAN]
    /\ \A f \in {lockTTL, timer, deadline, lease, promised} : f \in [Clients -> Nat]
    /\ faults \in 0..MaxFaults

Least(a, b) == IF a < b THEN a ELSE b

Waits(c)      == pc[c] \in {"set", "del", "expire"}
Goto(c, where) == pc' = [pc EXCEPT ![c] = where]
Fault == faults > 0 /\ faults' = faults - 1

\* A token is that of a lock or of a command, here or on the way.
InUse == {key} \cup {cmd[c].token : c \in Clients} \cup {m.token : m \in late}

\* newToken.
NewToken == CHOOSE t \in Tokens : t \notin InUse

Init ==
    /\ key = None /\ ttl = 0 /\ late = {}
    /\ pc = [c \in Clients |-> "idle"]
    /\ cmd = [c \in Clients |-> NoCmd]
    /\ answer = [c \in Clients |-> "none"]
    /\ lockTTL = [c \in Clients |-> 0]
    /\ looping = [c \in Clients |-> FALSE]
    /\ timer = [c \in Clients |-> 0]
    /\ deadline = [c \in Clients |-> 0]
    /\ lease = [c \in Clients |-> 0]
    /\ promised = [c \in Clients |-> 0]
    /\ faults = MaxFaults

-----------------------------------------------------------------------------
\* The server.  A definition whose name ends in X is the one after it with a bug
\* that the checks are tried on.

\* SETNX with a ttl, and the two scripts: they compare and act in one.
SetNXX(m) ==
    /\ m.op = "set"
    /\ key = None
    /\ key' = m.token
    /\ ttl' = 0
SetNX(m) ==
    /\ m.op = "set"
    /\ key = None
    /\ key' = m.token
    /\ ttl' = m.ttl

UnlockScriptX(m) ==
    /\ m.op = "del"
    /\ key # None
    /\ key' = None
    /\ ttl' = 0
UnlockScript(m) ==
    /\ m.op = "del"
    /\ key = m.token
    /\ key' = None
    /\ ttl' = 0

RenewScript(m) ==
    /\ m.op = "expire"
    /\ key = m.token
    /\ ttl' = m.ttl
    /\ UNCHANGED key

Refused(m) == IF m.op = "set" THEN key # None ELSE key # m.token

\* The server executes command m and answers a.
Execute(m, a) ==
    \/ a = "yes" /\ (SetNX(m) \/ UnlockScript(m) \/ RenewScript(m))
    \/ a = "no" /\ Refused(m) /\ UNCHANGED <<key, ttl>>

ExecuteFor(c) ==
    /\ Waits(c)
    /\ answer[c] = "none"
    /\ \E a \in {"yes", "no"} :
          /\ Execute(cmd[c], a)
          /\ answer' = [answer EXCEPT ![c] = a]
    /\ UNCHANGED <<late, pc, cmd, lockTTL, looping, timer, deadline, leaseVars, faults>>

ExecuteLate(m) ==
    /\ \E a \in {"yes", "no"} : Execute(m, a)
    /\ late' = late \ {m}
    /\ UNCHANGED <<clientVars, leaseVars, faults>>

-----------------------------------------------------------------------------
\* The clients.

Send(c, op, t, n) ==
    /\ Goto(c, op)
    /\ cmd' = [cmd EXCEPT ![c] = [op |-> op, token |-> t, ttl |-> n]]
    /\ answer' = [answer EXCEPT ![c] = "none"]
    /\ promised' = [promised EXCEPT ![c] = n]

\* Nothing is left of the lock, or of the attempt to get it.
Forget(c) ==
    /\ Goto(c, "idle")
    /\ cmd' = [cmd EXCEPT ![c] = NoCmd]
    /\ answer' = [answer EXCEPT ![c] = "none"]
    /\ lockTTL' = [lockTTL EXCEPT ![c] = 0]
    /\ looping' = [looping EXCEPT ![c] = FALSE]
    /\ timer' = [timer EXCEPT ![c] = 0]
    /\ deadline' = [deadline EXCEPT ![c] = 0]
    /\ lease' = [lease EXCEPT ![c] = 0]
    /\ promised' = [promised EXCEPT ![c] = 0]

\* TryLock is one attempt; Lock goes on until its context ends.
TryLock(c) ==
    /\ pc[c] = "idle"
    /\ \E loop \in BOOLEAN :
          /\ looping' = [looping EXCEPT ![c] = loop]
          /\ deadline' = [deadline EXCEPT ![c] = IF loop THEN Timeout ELSE 0]
    /\ Send(c, "set", NewToken, TTL)
    /\ UNCHANGED <<serverVars, lockTTL, timer, lease, faults>>

Answered(c, op, a) == pc[c] = op /\ answer[c] = a

\* The client has the lock: the token of its command stays that of the lock.
Keeps(c) ==
    /\ Goto(c, "held")
    /\ lockTTL' = [lockTTL EXCEPT ![c] = cmd[c].ttl]
    /\ lease' = [lease EXCEPT ![c] = promised[c]]
    /\ promised' = [promised EXCEPT ![c] = 0]
    /\ answer' = [answer EXCEPT ![c] = "none"]
    /\ looping' = [looping EXCEPT ![c] = FALSE]
    /\ deadline' = [deadline EXCEPT ![c] = 0]
    /\ UNCHANGED <<serverVars, cmd, timer, faults>>

Locked(c)  == Answered(c, "set", "yes") /\ Keeps(c)
Renewed(c) == Answered(c, "expire", "yes") /\ Keeps(c)

\* Someone else has it: Lock waits, TryLock returns.
TryAgainLater(c) ==
    /\ Answered(c, "set", "no")
    /\ looping[c]
    /\ Goto(c, "retry")
    /\ cmd' = [cmd EXCEPT ![c] = NoCmd]
    /\ answer' = [answer EXCEPT ![c] = "none"]
    /\ timer' = [timer EXCEPT ![c] = RetryInterval]
    /\ promised' = [promised EXCEPT ![c] = 0]
    /\ UNCHANGED <<serverVars, lockTTL, looping, deadline, lease, faults>>

NotLocked(c) ==
    /\ Answered(c, "set", "no")
    /\ ~looping[c]
    /\ Forget(c)
    /\ UNCHANGED <<serverVars, faults>>

\* The context of Lock has ended: a command is not sent under it any more.
Expired(c) == looping[c] /\ Timeout > 0 /\ deadline[c] = 0

RetryX(c) ==
    /\ pc[c] = "retry"
    /\ timer[c] = 0
    /\ Send(c, "set", NewToken, TTL)
    /\ deadline' = [deadline EXCEPT ![c] = Timeout]
    /\ UNCHANGED <<serverVars, lockTTL, looping, timer, lease, faults>>
Retry(c) ==
    /\ pc[c] = "retry"
    /\ timer[c] = 0
    /\ ~Expired(c)
    /\ Send(c, "set", NewToken, TTL)
    /\ UNCHANGED <<serverVars, lockTTL, looping, timer, deadline, lease, faults>>

TimedOut(c) ==
    /\ pc[c] = "retry"
    /\ Expired(c)
    /\ Forget(c)
    /\ UNCHANGED <<serverVars, faults>>

\* Whoever unlocks relies on the lock no longer.
Unlock(c) ==
    /\ pc[c] = "held"
    /\ Send(c, "del", cmd[c].token, 0)
    /\ lease' = [lease EXCEPT ![c] = 0]
    /\ UNCHANGED <<serverVars, lockTTL, looping, timer, deadline, faults>>

\* It is gone, or was not there any more (ErrLockNotOwned).
Unlocked(c) ==
    /\ pc[c] = "del"
    /\ answer[c] # "none"
    /\ Forget(c)
    /\ UNCHANGED <<serverVars, faults>>

\* The new ttl may apply from now on, be it longer or shorter.
Renew(c) ==
    /\ pc[c] = "held"
    /\ \E n \in RenewTTLs :
          LET effective == IF n = 0 THEN lockTTL[c] ELSE n
          IN  /\ Send(c, "expire", cmd[c].token, effective)
              /\ lease' = [lease EXCEPT ![c] = Least(@, effective)]
    /\ UNCHANGED <<serverVars, lockTTL, looping, timer, deadline, faults>>

\* Still a lock to the caller, but one it cannot rely on.
Stays(c) ==
    /\ Goto(c, "held")
    /\ answer' = [answer EXCEPT ![c] = "none"]
    /\ promised' = [promised EXCEPT ![c] = 0]
    /\ UNCHANGED <<key, ttl, cmd, lockTTL, looping, timer, deadline>>

RenewNotOwned(c) ==
    /\ Answered(c, "expire", "no")
    /\ Stays(c)
    /\ lease' = [lease EXCEPT ![c] = 0]
    /\ UNCHANGED <<late, faults>>

-----------------------------------------------------------------------------
\* Faults.

\* The copy of a command that is not waited for any more.
LeftBehind(c) == late' = IF answer[c] = "none" THEN late \cup {cmd[c]} ELSE late

\* No answer came: the command is sent again, wherever the first copy is.
SendAgain(c) ==
    /\ Waits(c)
    /\ Fault
    /\ LeftBehind(c)
    /\ answer' = [answer EXCEPT ![c] = "none"]
    /\ UNCHANGED <<key, ttl, pc, cmd, lockTTL, looping, timer, deadline, leaseVars>>

\* The call returns an error, and the caller does not know what became of it.
GivesUp(c) ==
    /\ Waits(c)
    /\ Fault
    /\ LeftBehind(c)
    /\ IF pc[c] = "expire" THEN Stays(c) /\ UNCHANGED lease
                           ELSE Forget(c) /\ UNCHANGED <<key, ttl>>

Crash(c) ==
    /\ pc[c] # "idle"
    /\ Fault
    /\ IF Waits(c) THEN LeftBehind(c) ELSE UNCHANGED late
    /\ Forget(c)
    /\ UNCHANGED <<key, ttl>>

\* A copy of a command is lost on the way.
Lose(m) ==
    /\ late' = late \ {m}
    /\ UNCHANGED <<key, ttl, clientVars, leaseVars, faults>>

-----------------------------------------------------------------------------

Elapse(f) == [c \in Clients |-> IF f[c] > 0 THEN f[c] - 1 ELSE 0]

Tick ==
    /\ ttl > 0 \/ \E c \in Clients : timer[c] + deadline[c] > 0
    /\ ttl' = IF ttl > 0 THEN ttl - 1 ELSE 0
    /\ key' = IF ttl = 1 THEN None ELSE key
    /\ timer' = Elapse(timer)
    /\ deadline' = Elapse(deadline)
    /\ lease' = Elapse(lease)
    /\ promised' = Elapse(promised)
    /\ UNCHANGED <<late, pc, cmd, answer, lockTTL, looping, faults>>

\* What a call does until it returns, once its command was executed.
Return(c) ==
    \/ Locked(c) \/ TryAgainLater(c) \/ NotLocked(c) \/ Retry(c) \/ TimedOut(c)
    \/ Unlocked(c) \/ Renewed(c) \/ RenewNotOwned(c)

Next ==
    \/ Tick
    \/ \E c \in Clients :
          \/ TryLock(c) \/ Renew(c) \/ Unlock(c) \/ ExecuteFor(c) \/ Return(c)
          \/ SendAgain(c) \/ GivesUp(c) \/ Crash(c)
    \/ \E m \in late : ExecuteLate(m) \/ Lose(m)

Spec == Init /\ [][Next]_vars

\* Time passes, the server executes and answers what it is sent, and calls go on;
\* a copy nobody waits for is executed or lost in the end.  Nothing is assumed of
\* those who hold a lock.
Fairness ==
    /\ WF_vars(Tick)
    /\ WF_vars(\E m \in late : ExecuteLate(m) \/ Lose(m))
    /\ \A c \in Clients : WF_vars(ExecuteFor(c)) /\ WF_vars(Return(c))

FairSpec == Spec /\ Fairness

-----------------------------------------------------------------------------
\* Properties.

\* No two clients may rely on the lock at once, each counting its ttl from before
\* the call that gave it, however late locks are taken, renewed and released and
\* whatever was executed twice.  This takes SameTTL.
Exclusive == \A c, d \in Clients : lease[c] > 0 /\ lease[d] > 0 => c = d

\* A lock that no client has, after a crash, an error or a SETNX that was
\* executed twice, does not keep the key for good.
Orphaned == key # None /\ \A c \in Clients : cmd[c].token # key
OrphansExpire == Orphaned ~> ~Orphaned

\* Every call returns; Lock does if it has a timeout, whoever has the lock.
CallsReturn == \A c \in Clients : pc[c] \notin {"idle", "held"} ~> pc[c] \in {"idle", "held"}

-----------------------------------------------------------------------------
\* Why they hold.

\* Renewals all have the ttl of the lock, or nothing is executed late: a copy of
\* one with a shorter ttl would cut a longer one short.
SameTTL == MaxFaults = 0 \/ RenewTTLs \subseteq {0, TTL}

\* A command that gives a lock does so for some time.
Lasts(m) == m.op \in {"set", "expire"} => m.ttl > 0

CallInv(c) ==
    /\ pc[c] \in {"idle", "retry"} => cmd[c] = NoCmd
    /\ Waits(c) => cmd[c].op = pc[c]
    /\ pc[c] = "held" => cmd[c].op \in {"set", "expire"}
    /\ pc[c] \in {"held", "expire"} => lockTTL[c] > 0
    /\ Lasts(cmd[c])

\* A token is the mark of one attempt of one client.  What may delete it late is a
\* copy of the client's own Unlock.
TokensInv ==
    /\ \A c, d \in Clients : cmd[c].token = cmd[d].token => c = d \/ cmd[c].token = None
    /\ \A m \in late : Lasts(m)
    /\ \A m \in late, c \in Clients :
          m.op = "del" /\ m.token = cmd[c].token => pc[c] = "del"

\* The tokens that are, or may get, in the key without being those of a lock that
\* a client has, or has been given, or is giving back.  Each of them took a fault.
Claims(c, t) ==
    /\ cmd[c].token = t
    /\ pc[c] = "set" => answer[c] = "yes"
    /\ pc[c] = "del" => answer[c] = "none"
Strays == {t \in Tokens : \/ \E m \in late : m.token = t
                          \/ key = t /\ \A c \in Clients : ~Claims(c, t)}
StraysInv == Cardinality(Strays) + faults <= MaxFaults

\* The key has the token at least as long as the client may rely on it.
Covers(c, n) == key = cmd[c].token /\ ttl >= n

LeaseInv(c) ==
    /\ lease[c] > 0 => pc[c] \in {"held", "expire"} /\ Covers(c, lease[c])
    /\ pc[c] = "expire" => lease[c] <= cmd[c].ttl
    /\ promised[c] > 0 => pc[c] \in {"set", "expire"} /\ promised[c] <= cmd[c].ttl
    /\ promised[c] > 0 /\ answer[c] = "yes" => Covers(c, promised[c])

\* What may be executed late does not tell one renewal from another.
OneTTL ==
    /\ \A m \in late \cup {cmd[c] : c \in Clients} : m.op \in {"set", "expire"} => m.ttl = TTL
    /\ \A c \in Clients : pc[c] \in {"held", "expire"} => lockTTL[c] = TTL
    /\ \A c \in Clients : lease[c] <= TTL

LeasesInv ==
    /\ \A c \in Clients : LeaseInv(c)
    /\ MaxFaults > 0 => OneTTL

IndInv ==
    /\ TypeOK
    /\ \A c \in Clients : CallInv(c)
    /\ TokensInv
    /\ StraysInv
    /\ SameTTL => LeasesInv
=============================================================================
