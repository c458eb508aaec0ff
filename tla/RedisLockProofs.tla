--------------------------- MODULE RedisLockProofs ---------------------------
(***************************************************************************)
(* Proofs about the lock on a Redis key.                                   *)
(***************************************************************************)
EXTENDS RedisLock, FiniteSetTheorems, TLAPS

USE RedisLockAssumption

-----------------------------------------------------------------------------
\* Tokens.

\* The tokens of the clients' commands.
Given == {cmd[c].token : c \in Clients}

LEMMA GivenFew == IsFiniteSet(Given) /\ Cardinality(Given) <= Cardinality(Clients)
<1> DEFINE f == [c \in Clients |-> cmd[c].token]
<1>1. f \in Surjection(Clients, Given) BY DEF Surjection, Given
<1> HIDE DEF f
<1> QED BY <1>1, FS_Surjection

LEMMA StraysFinite == /\ IsFiniteSet(Strays) /\ Cardinality(Strays) \in Nat
                      /\ IsFiniteSet(Strays') /\ Cardinality(Strays') \in Nat
<1>1. Strays \in SUBSET Tokens /\ Strays' \in SUBSET Tokens BY DEF Strays
<1> QED BY <1>1, FS_Subset, FS_CardinalityType

\* There are more tokens than clients and faults, so newToken finds one that no
\* lock and no command has.
LEMMA NewTokenFresh ==
  ASSUME TypeOK, StraysInv
  PROVE  NewToken \in Tokens \ InUse
<1>1. \A t \in Tokens : t \in InUse => t \in Strays \cup Given
  BY DEF InUse, Strays, Given, Claims
<1>2. /\ IsFiniteSet(Strays \cup Given)
      /\ Cardinality(Strays \cup Given) <= Cardinality(Strays) + Cardinality(Given)
  <2>1. IsFiniteSet(Strays \cap Given) BY StraysFinite, FS_Subset
  <2>2. Cardinality(Strays \cap Given) \in Nat BY <2>1, FS_CardinalityType
  <2>3. Cardinality(Given) \in Nat BY GivenFew, FS_CardinalityType
  <2>4. /\ IsFiniteSet(Strays \cup Given)
        /\ Cardinality(Strays \cup Given) =
             Cardinality(Strays) + Cardinality(Given) - Cardinality(Strays \cap Given)
    BY StraysFinite, GivenFew, FS_Union
  <2> QED BY <2>2, <2>3, <2>4, StraysFinite
<1>3. Cardinality(Strays) <= MaxFaults BY StraysFinite DEF StraysInv, TypeOK
<1>4. Cardinality(Strays \cup Given) < Cardinality(Tokens)
  <2>1. Cardinality(Clients) \in Nat /\ Cardinality(Tokens) \in Nat BY FS_CardinalityType
  <2>2. Cardinality(Given) \in Nat BY GivenFew, FS_CardinalityType
  <2>3. Cardinality(Strays \cup Given) \in Nat BY <1>2, FS_CardinalityType
  <2> QED BY <1>2, <1>3, <2>1, <2>2, <2>3, StraysFinite, GivenFew
<1>5. PICK t \in Tokens : t \notin Strays \cup Given
  <2> SUFFICES ASSUME Tokens \subseteq Strays \cup Given PROVE FALSE OBVIOUS
  <2>1. Cardinality(Tokens) <= Cardinality(Strays \cup Given) BY <1>2, FS_Subset
  <2> QED BY <1>2, <1>4, <2>1, FS_CardinalityType
<1> QED BY <1>1, <1>5 DEF NewToken

\* What does not add to the strays keeps their number, and a fault may add one.
LEMMA StraysStay ==
  ASSUME TypeOK, StraysInv, Strays' \subseteq Strays, faults' = faults
  PROVE  StraysInv'
<1>1. Cardinality(Strays') <= Cardinality(Strays) BY StraysFinite, FS_Subset
<1> QED BY <1>1, StraysFinite DEF StraysInv, TypeOK

LEMMA StraysGrow ==
  ASSUME TypeOK, StraysInv, NEW t, Strays' \subseteq Strays \cup {t}, Fault
  PROVE  StraysInv'
<1>1. /\ IsFiniteSet(Strays \cup {t})
      /\ Cardinality(Strays \cup {t}) <= Cardinality(Strays) + 1
  <2>1. /\ IsFiniteSet(Strays \cup {t})
        /\ Cardinality(Strays \cup {t}) =
             IF t \in Strays THEN Cardinality(Strays) ELSE Cardinality(Strays) + 1
    BY StraysFinite, FS_AddElement
  <2> QED BY <2>1, StraysFinite
<1>2. Cardinality(Strays') <= Cardinality(Strays \cup {t}) BY <1>1, FS_Subset
<1>3. Cardinality(Strays \cup {t}) \in Nat BY <1>1, FS_CardinalityType
<1> QED BY <1>1, <1>2, <1>3, StraysFinite DEF StraysInv, TypeOK, Fault

\* Without faults nothing is executed late.
LEMMA NothingLate ==
  ASSUME TypeOK, StraysInv, MaxFaults = 0
  PROVE  late = {}
<1>1. Strays = {} BY StraysFinite, FS_EmptySet DEF StraysInv, TypeOK
<1> QED BY <1>1 DEF Strays, TypeOK, Commands

-----------------------------------------------------------------------------
\* The first state.

LEMMA InitInd == Init => IndInv
<1> SUFFICES ASSUME Init PROVE IndInv OBVIOUS
<1>1. TypeOK BY DEF Init, TypeOK
<1>2. \A c \in Clients : CallInv(c) BY DEF Init, CallInv, NoCmd, Lasts, Waits
<1>3. TokensInv BY DEF Init, TokensInv, NoCmd
<1>4. StraysInv
  <2>1. Strays = {} BY DEF Init, Strays
  <2> QED BY <2>1, FS_EmptySet DEF StraysInv, Init
<1>5. LeasesInv BY DEF Init, LeasesInv, LeaseInv, OneTTL, NoCmd
<1> QED BY <1>1, <1>2, <1>3, <1>4, <1>5 DEF IndInv

-----------------------------------------------------------------------------
\* The server's steps.

\* What the execution of a command may do to the key.
Effect(m, a) ==
    \/ a = "yes" /\ m.op = "set"    /\ key = None    /\ key' = m.token /\ ttl' = m.ttl
    \/ a = "yes" /\ m.op = "del"    /\ key = m.token /\ key' = None    /\ ttl' = 0
    \/ a = "yes" /\ m.op = "expire" /\ key = m.token /\ key' = key     /\ ttl' = m.ttl
    \/ a = "no"  /\ Refused(m) /\ UNCHANGED <<key, ttl>>

LEMMA Executed ==
  ASSUME TypeOK, NEW m \in Commands, Lasts(m), NEW a, Execute(m, a)
  PROVE  /\ Effect(m, a)
         /\ key' \in Tokens \cup {None}
         /\ ttl' \in Nat
         /\ key' = None <=> ttl' = 0
<1>1. Effect(m, a) BY DEF Execute, SetNX, UnlockScript, RenewScript, Effect
<1>2. m.token \in Tokens /\ m.ttl \in Nat /\ m.op \in {"set", "del", "expire"} BY DEF Commands
<1> QED BY <1>1, <1>2 DEF Effect, TypeOK, Lasts

LEMMA ExecuteForInd ==
  ASSUME IndInv, NEW c \in Clients, ExecuteFor(c)
  PROVE  IndInv'
<1>1. TypeOK /\ TokensInv /\ StraysInv /\ \A d \in Clients : CallInv(d) BY DEF IndInv
<1>2. cmd[c] \in Commands /\ cmd[c].op = pc[c] /\ cmd[c].token \in Tokens /\ Lasts(cmd[c])
  BY <1>1 DEF ExecuteFor, TypeOK, CallInv, NoCmd, Waits, Commands
<1>3. PICK a \in {"yes", "no"} : Execute(cmd[c], a) /\ answer' = [answer EXCEPT ![c] = a]
  BY DEF ExecuteFor
<1>4. UNCHANGED <<late, pc, cmd, lockTTL, looping, timer, deadline, lease, promised, faults>>
      /\ answer[c] = "none"
  BY DEF ExecuteFor, leaseVars
<1>5. /\ Effect(cmd[c], a)
      /\ key' \in Tokens \cup {None} /\ ttl' \in Nat /\ (key' = None <=> ttl' = 0)
  BY <1>1, <1>2, <1>3, Executed
<1>6. TypeOK' BY <1>1, <1>3, <1>4, <1>5 DEF TypeOK
<1>7. \A d \in Clients : CallInv(d)' BY <1>1, <1>4 DEF CallInv, Lasts, Waits
<1>8. TokensInv' BY <1>1, <1>4 DEF TokensInv, Lasts
<1>9. StraysInv'
  <2>1. \A d \in Clients : answer'[d] = IF d = c THEN a ELSE answer[d] BY <1>1, <1>3 DEF TypeOK
  <2>2. ASSUME NEW t \in Strays' PROVE t \in Strays
    <3>1. CASE \E m \in late' : m.token = t BY <1>4, <3>1 DEF Strays
    <3>2. CASE key' = t /\ \A d \in Clients : ~Claims(d, t)'
      <4>1. t \in Tokens /\ t # None BY DEF Strays
      <4>2. cmd[c].token = t => (pc[c] = "set" => a # "yes") /\ (pc[c] = "del" => a # "none")
        BY <1>2, <1>4, <1>5, <2>1, <3>2 DEF Claims, Effect
      <4>3. key = t BY <1>2, <1>5, <3>2, <4>1, <4>2 DEF Effect
      <4>4. ~Claims(c, t)
        BY <1>2, <1>4, <1>5, <2>1, <3>2, <4>3 DEF Claims, Effect, Refused
      <4>5. \A d \in Clients \ {c} : ~Claims(d, t) BY <1>4, <2>1, <3>2 DEF Claims
      <4> QED BY <4>1, <4>3, <4>4, <4>5 DEF Strays
    <3> QED BY <3>1, <3>2 DEF Strays
  <2> QED BY <1>1, <1>4, <2>2, StraysStay
<1>10. ASSUME SameTTL PROVE LeasesInv'
  <2>1. LeasesInv BY <1>10 DEF IndInv
  <2>2. ASSUME NEW d \in Clients PROVE LeaseInv(d)'
    <3>1. LeaseInv(d) /\ (cmd[d].token # None \/ cmd[d] = NoCmd)
      BY <1>1, <2>1 DEF LeasesInv, TypeOK, Commands
    <3>2. lease[d] \in Nat /\ promised[d] \in Nat /\ ttl \in Nat BY <1>1 DEF TypeOK
    <3> QED BY <1>1, <1>2, <1>3, <1>4, <1>5, <2>1, <3>1, <3>2
            DEF LeasesInv, LeaseInv, Covers, Effect, TokensInv, TypeOK, Lasts
  <2>3. MaxFaults > 0 => OneTTL' BY <1>4, <2>1 DEF LeasesInv, OneTTL
  <2> QED BY <2>2, <2>3 DEF LeasesInv
<1> QED BY <1>6, <1>7, <1>8, <1>9, <1>10 DEF IndInv, SameTTL

LEMMA ExecuteLateInd ==
  ASSUME IndInv, NEW m \in late, ExecuteLate(m)
  PROVE  IndInv'
<1>1. TypeOK /\ TokensInv /\ StraysInv /\ \A d \in Clients : CallInv(d) BY DEF IndInv
<1>2. m \in Commands /\ m.token \in Tokens /\ Lasts(m)
  BY <1>1 DEF TypeOK, TokensInv, Commands
<1>3. PICK a \in {"yes", "no"} : Execute(m, a) BY DEF ExecuteLate
<1>4. late' = late \ {m} /\ UNCHANGED <<pc, cmd, answer, lockTTL, looping, timer, deadline,
                                        lease, promised, faults>>
  BY DEF ExecuteLate, clientVars, leaseVars
<1>5. /\ Effect(m, a)
      /\ key' \in Tokens \cup {None} /\ ttl' \in Nat /\ (key' = None <=> ttl' = 0)
  BY <1>1, <1>2, <1>3, Executed
<1>6. TypeOK' BY <1>1, <1>4, <1>5 DEF TypeOK
<1>7. \A d \in Clients : CallInv(d)' BY <1>1, <1>4 DEF CallInv, Lasts, Waits
<1>8. TokensInv' BY <1>1, <1>4 DEF TokensInv, Lasts
<1>9. StraysInv'
  <2>1. ASSUME NEW t \in Strays' PROVE t \in Strays
    BY <1>1, <1>2, <1>4, <1>5, <2>1 DEF Strays, Claims, Effect, TypeOK
  <2> QED BY <1>1, <1>4, <2>1, StraysStay
<1>10. ASSUME SameTTL PROVE LeasesInv'
  <2>1. LeasesInv BY <1>10 DEF IndInv
  <2>2. MaxFaults > 0 BY <1>1, NothingLate DEF TypeOK
  <2>3. OneTTL /\ (m.op = "expire" => m.ttl = TTL) BY <2>1, <2>2 DEF LeasesInv, OneTTL
  <2>4. ASSUME NEW d \in Clients PROVE LeaseInv(d)'
    <3>1. LeaseInv(d) BY <2>1 DEF LeasesInv
    <3>2. lease[d] \in Nat /\ promised[d] \in Nat /\ ttl \in Nat /\ TTL \in Nat
      BY <1>1 DEF TypeOK
    <3>3. lease[d] <= TTL /\ (promised[d] > 0 => promised[d] <= TTL)
      <4>1. promised[d] > 0 => cmd[d].ttl = TTL
        BY <1>1, <2>3, <3>1 DEF OneTTL, LeaseInv, CallInv, Waits
      <4> QED BY <2>3, <3>1, <4>1 DEF OneTTL, LeaseInv
    <3>4. m.op = "del" /\ m.token = cmd[d].token => pc[d] = "del" BY <1>1 DEF TokensInv
    <3>5. cmd[d] = NoCmd \/ cmd[d].token # None BY <1>1 DEF TypeOK, Commands
    <3>6. pc[d] \in {"set", "expire", "held"} => cmd[d].token # None
      BY <1>1, <3>5 DEF CallInv, NoCmd, Waits
    <3> QED BY <1>4, <1>5, <2>3, <3>1, <3>2, <3>3, <3>4, <3>6 DEF LeaseInv, Covers, Effect
  <2>5. OneTTL' BY <1>4, <2>3 DEF OneTTL
  <2> QED BY <2>4, <2>5 DEF LeasesInv
<1> QED BY <1>6, <1>7, <1>8, <1>9, <1>10 DEF IndInv, SameTTL

LEMMA LoseInd ==
  ASSUME IndInv, NEW m \in late, Lose(m)
  PROVE  IndInv'
<1>1. TypeOK /\ TokensInv /\ StraysInv /\ \A d \in Clients : CallInv(d) BY DEF IndInv
<1>2. late' = late \ {m} /\ UNCHANGED <<key, ttl, pc, cmd, answer, lockTTL, looping, timer,
                                        deadline, lease, promised, faults>>
  BY DEF Lose, clientVars, leaseVars
<1>3. TypeOK' BY <1>1, <1>2 DEF TypeOK
<1>4. \A d \in Clients : CallInv(d)' BY <1>1, <1>2 DEF CallInv, Lasts, Waits
<1>5. TokensInv' BY <1>1, <1>2 DEF TokensInv, Lasts
<1>6. StraysInv'
  <2>1. Strays' \subseteq Strays BY <1>2 DEF Strays, Claims
  <2> QED BY <1>1, <1>2, <2>1, StraysStay
<1>7. ASSUME SameTTL PROVE LeasesInv'
  BY <1>2, <1>7 DEF IndInv, LeasesInv, LeaseInv, Covers, OneTTL
<1> QED BY <1>3, <1>4, <1>5, <1>6, <1>7 DEF IndInv, SameTTL

LEMMA TickInd == ASSUME IndInv, Tick PROVE IndInv'
<1>1. TypeOK /\ TokensInv /\ StraysInv /\ \A d \in Clients : CallInv(d) BY DEF IndInv
<1>2. UNCHANGED <<late, pc, cmd, answer, lockTTL, looping, faults>> BY DEF Tick
<1>3. TypeOK'
  <2>1. \A f \in {timer, deadline, lease, promised} : Elapse(f) \in [Clients -> Nat]
    BY <1>1 DEF TypeOK, Elapse
  <2>2. /\ timer' \in [Clients -> Nat] /\ deadline' \in [Clients -> Nat]
        /\ lease' \in [Clients -> Nat] /\ promised' \in [Clients -> Nat]
    BY <2>1 DEF Tick
  <2>3. key' \in Tokens \cup {None} /\ ttl' \in Nat /\ (key' = None <=> ttl' = 0)
    BY <1>1 DEF TypeOK, Tick
  <2> QED BY <1>1, <1>2, <2>2, <2>3 DEF TypeOK
<1>4. \A d \in Clients : CallInv(d)' BY <1>1, <1>2 DEF CallInv, Lasts, Waits
<1>5. TokensInv' BY <1>1, <1>2 DEF TokensInv, Lasts
<1>6. StraysInv'
  <2>1. Strays' \subseteq Strays BY <1>2 DEF Tick, Strays, Claims
  <2> QED BY <1>1, <1>2, <2>1, StraysStay
<1>7. ASSUME SameTTL PROVE LeasesInv'
  <2>1. LeasesInv BY <1>7 DEF IndInv
  <2>2. ASSUME NEW d \in Clients
        PROVE  /\ lease[d] \in Nat /\ promised[d] \in Nat
               /\ lease'[d] = IF lease[d] > 0 THEN lease[d] - 1 ELSE 0
               /\ promised'[d] = IF promised[d] > 0 THEN promised[d] - 1 ELSE 0
    BY <1>1 DEF TypeOK, Tick, Elapse
  <2>3. ASSUME NEW d \in Clients PROVE LeaseInv(d)'
    <3>1. LeaseInv(d) BY <2>1 DEF LeasesInv
    <3>2. cmd[d].ttl \in Nat /\ ttl \in Nat BY <1>1 DEF TypeOK, Commands, NoCmd
    <3> QED BY <1>2, <2>2, <3>1, <3>2 DEF LeaseInv, Covers, Tick
  <2>4. MaxFaults > 0 => OneTTL' BY <1>2, <2>1, <2>2 DEF LeasesInv, OneTTL
  <2> QED BY <2>3, <2>4 DEF LeasesInv
<1> QED BY <1>3, <1>4, <1>5, <1>6, <1>7 DEF IndInv, SameTTL

-----------------------------------------------------------------------------
\* The clients' steps.

\* Client c takes a step: the server and the other clients are as before, but for
\* the copy of a command it may leave behind.
StepOf(c) ==
    /\ UNCHANGED <<key, ttl>>
    /\ \/ late' = late
       \/ Waits(c) /\ late' = late \cup {cmd[c]}
    /\ \A d \in Clients \ {c} :
          /\ pc'[d] = pc[d] /\ cmd'[d] = cmd[d] /\ answer'[d] = answer[d]
          /\ lockTTL'[d] = lockTTL[d] /\ lease'[d] = lease[d] /\ promised'[d] = promised[d]

\* It has its token still, or a new one, or none; and what it unlocks stays so.
TokenOf(c) ==
    /\ cmd'[c].token = cmd[c].token => (pc[c] = "del" => pc'[c] = "del")
    /\ cmd'[c].token \in {cmd[c].token, None} \/ cmd'[c].token \notin InUse

\* What it lets go of was a stray before, or took a fault.
LetsGo(c) ==
    \/ /\ faults' = faults /\ late' = late
       /\ key # None /\ Claims(c, key) => Claims(c, key)'
    \/ Fault

OneTTLOf(c) ==
    /\ cmd[c].op \in {"set", "expire"} => cmd[c].ttl = TTL
    /\ pc[c] \in {"held", "expire"} => lockTTL[c] = TTL
    /\ lease[c] <= TTL

LEMMA StepInd ==
  ASSUME IndInv, TypeOK', NEW c \in Clients, StepOf(c), CallInv(c)', TokenOf(c), LetsGo(c),
         SameTTL => LeaseInv(c)' /\ (MaxFaults > 0 => OneTTLOf(c)')
  PROVE  IndInv'
<1>1. TypeOK /\ TokensInv /\ StraysInv /\ \A d \in Clients : CallInv(d) BY DEF IndInv
<1>2. Waits(c) => cmd[c] \in Commands /\ Lasts(cmd[c]) /\ cmd[c].op = pc[c]
  BY <1>1 DEF TypeOK, CallInv, Waits, NoCmd
<1>3. \A d \in Clients \ {c} :
        /\ pc'[d] = pc[d] /\ cmd'[d] = cmd[d] /\ answer'[d] = answer[d]
        /\ lockTTL'[d] = lockTTL[d] /\ lease'[d] = lease[d] /\ promised'[d] = promised[d]
  BY DEF StepOf
<1>4. \A d \in Clients : CallInv(d)'
  <2>1. ASSUME NEW d \in Clients \ {c} PROVE CallInv(d)'
    <3>1. CallInv(d) /\ pc'[d] = pc[d] /\ cmd'[d] = cmd[d] /\ lockTTL'[d] = lockTTL[d]
      BY <1>1, <1>3
    <3> QED BY <3>1 DEF CallInv, Lasts, Waits
  <2> QED BY <2>1
<1>5. \A m \in late' : m \in late \/ (Waits(c) /\ m = cmd[c]) BY DEF StepOf
<1>6. TokensInv'
  <2>1. \A d \in Clients \ {c} :
          cmd'[c].token = cmd[d].token => cmd'[c].token = None
    BY <1>1 DEF TokenOf, TokensInv, InUse
  <2>2. \A d, e \in Clients :
          cmd'[d].token = cmd'[e].token => d = e \/ cmd'[d].token = None
    BY <1>1, <1>3, <2>1 DEF TokensInv
  <2>3. \A m \in late' : Lasts(m)' BY <1>1, <1>2, <1>5 DEF TokensInv, Lasts
  <2>4. ASSUME NEW m \in late', NEW d \in Clients \ {c}, m.op = "del", m.token = cmd'[d].token
        PROVE  pc'[d] = "del"
    <3>1. CASE m \in late BY <1>1, <1>3, <2>4, <3>1 DEF TokensInv
    <3>2. CASE Waits(c) /\ m = cmd[c]
      <4>1. m.token # None BY <1>2, <3>2 DEF Commands
      <4> QED BY <1>1, <1>3, <2>4, <3>2, <4>1 DEF TokensInv
    <3> QED BY <1>5, <3>1, <3>2
  <2>5. ASSUME NEW m \in late', m.op = "del", m.token = cmd'[c].token
        PROVE  pc'[c] = "del"
    <3>1. m \in Commands /\ m.token # None BY DEF TypeOK, Commands
    <3>2. m.token \in InUse BY <1>5 DEF InUse
    <3>3. cmd'[c].token = cmd[c].token BY <2>5, <3>1, <3>2 DEF TokenOf
    <3>4. pc[c] = "del" BY <1>1, <1>2, <1>5, <2>5, <3>3 DEF TokensInv
    <3> QED BY <3>3, <3>4 DEF TokenOf
  <2> QED BY <2>2, <2>3, <2>4, <2>5 DEF TokensInv
<1>7. StraysInv'
  <2>1. \A t : \A d \in Clients \ {c} : Claims(d, t)' <=> Claims(d, t) BY <1>3 DEF Claims
  <2>2. key' = key BY DEF StepOf
  <2>3. CASE /\ faults' = faults /\ late' = late
             /\ key # None /\ Claims(c, key) => Claims(c, key)'
    <3>1. Strays' \subseteq Strays BY <2>1, <2>2, <2>3 DEF Strays
    <3> QED BY <1>1, <2>3, <3>1, StraysStay
  <2>4. CASE Fault
    <3>1. \A t : Claims(c, t) => t = cmd[c].token BY DEF Claims
    <3>2. Strays' \subseteq Strays \cup {cmd[c].token} BY <1>5, <2>1, <2>2, <3>1 DEF Strays
    <3> QED BY <1>1, <2>4, <3>2, StraysGrow
  <2> QED BY <2>3, <2>4 DEF LetsGo
<1>8. ASSUME SameTTL PROVE LeasesInv'
  <2>1. LeasesInv BY <1>8 DEF IndInv
  <2>2. ASSUME NEW d \in Clients \ {c} PROVE LeaseInv(d)'
    BY <1>3, <2>1 DEF LeasesInv, LeaseInv, Covers, StepOf
  <2>3. LeaseInv(c)' BY <1>8
  <2>4. ASSUME MaxFaults > 0 PROVE OneTTL'
    <3>1. OneTTL /\ OneTTLOf(c)' BY <1>8, <2>1, <2>4 DEF LeasesInv
    <3>2. \A m \in late' : m.op \in {"set", "expire"} => m.ttl = TTL BY <1>5, <3>1 DEF OneTTL
    <3> QED BY <1>3, <3>1, <3>2 DEF OneTTL, OneTTLOf
  <2> QED BY <2>2, <2>3, <2>4 DEF LeasesInv
<1> QED BY <1>4, <1>6, <1>7, <1>8 DEF IndInv, SameTTL

\* The calls that may send SETNX.
LEMMA AttemptInd ==
  ASSUME IndInv, NEW c \in Clients, TryLock(c) \/ Retry(c)
  PROVE  IndInv'
<1>1. TypeOK /\ TokensInv /\ StraysInv /\ CallInv(c) BY DEF IndInv
<1>2. NewToken \in Tokens \ InUse /\ NewToken # None BY <1>1, NewTokenFresh
<1>3. /\ pc[c] \in {"idle", "retry"} /\ cmd[c] = NoCmd
      /\ Send(c, "set", NewToken, TTL)
      /\ UNCHANGED <<key, ttl, late, lockTTL, timer, lease, faults>>
      /\ looping' \in [Clients -> BOOLEAN] /\ deadline' \in [Clients -> Nat]
  BY <1>1 DEF TryLock, Retry, serverVars, CallInv, TypeOK
<1> DEFINE m == [op |-> "set", token |-> NewToken, ttl |-> TTL]
<1>4. m \in Commands BY <1>2 DEF Commands
<1>5. TypeOK' BY <1>1, <1>3, <1>4 DEF TypeOK, Send, Goto
<1>6. /\ pc'[c] = "set" /\ cmd'[c] = m /\ answer'[c] = "none" /\ promised'[c] = TTL
      /\ lease'[c] = lease[c]
  BY <1>1, <1>3 DEF TypeOK, Send, Goto
<1>7. StepOf(c) BY <1>1, <1>3 DEF StepOf, Send, Goto, TypeOK
<1>8. CallInv(c)' BY <1>6 DEF CallInv, Lasts, Waits
<1>9. TokenOf(c) BY <1>2, <1>3, <1>6 DEF TokenOf, NoCmd
<1>10. LetsGo(c) BY <1>3 DEF LetsGo, Claims, NoCmd
<1>11. ASSUME SameTTL PROVE LeaseInv(c)' /\ (MaxFaults > 0 => OneTTLOf(c)')
  <2>1. LeaseInv(c) BY <1>11 DEF IndInv, LeasesInv
  <2>2. lease[c] = 0 BY <1>1, <1>3, <2>1 DEF LeaseInv, TypeOK
  <2> QED BY <1>6, <2>2 DEF LeaseInv, OneTTLOf
<1> QED BY <1>5, <1>7, <1>8, <1>9, <1>10, <1>11, StepInd

LEMMA UnlockInd ==
  ASSUME IndInv, NEW c \in Clients, Unlock(c)
  PROVE  IndInv'
<1>1. TypeOK /\ TokensInv /\ StraysInv /\ CallInv(c) BY DEF IndInv
<1>2. /\ pc[c] = "held" /\ cmd[c] \in Commands /\ cmd[c].token \in Tokens
      /\ Send(c, "del", cmd[c].token, 0)
      /\ lease' = [lease EXCEPT ![c] = 0]
      /\ UNCHANGED <<key, ttl, late, lockTTL, looping, timer, deadline, faults>>
  BY <1>1 DEF Unlock, serverVars, CallInv, TypeOK, NoCmd, Commands
<1> DEFINE m == [op |-> "del", token |-> cmd[c].token, ttl |-> 0]
<1>3. m \in Commands BY <1>2 DEF Commands
<1>4. TypeOK' BY <1>1, <1>2, <1>3 DEF TypeOK, Send, Goto
<1>5. /\ pc'[c] = "del" /\ cmd'[c] = m /\ answer'[c] = "none" /\ promised'[c] = 0
      /\ lease'[c] = 0
  BY <1>1, <1>2 DEF TypeOK, Send, Goto
<1>6. StepOf(c) BY <1>1, <1>2 DEF StepOf, Send, Goto, TypeOK
<1>7. CallInv(c)' BY <1>5 DEF CallInv, Lasts, Waits
<1>8. TokenOf(c) BY <1>2, <1>5 DEF TokenOf
<1>9. LetsGo(c) BY <1>2, <1>5 DEF LetsGo, Claims
<1>10. LeaseInv(c)' /\ OneTTLOf(c)' BY <1>5 DEF LeaseInv, OneTTLOf
<1> QED BY <1>4, <1>6, <1>7, <1>8, <1>9, <1>10, StepInd

LEMMA RenewInd ==
  ASSUME IndInv, NEW c \in Clients, Renew(c)
  PROVE  IndInv'
<1>1. TypeOK /\ TokensInv /\ StraysInv /\ CallInv(c) BY DEF IndInv
<1>2. PICK n \in RenewTTLs :
        LET effective == IF n = 0 THEN lockTTL[c] ELSE n
        IN  /\ Send(c, "expire", cmd[c].token, effective)
            /\ lease' = [lease EXCEPT ![c] = Least(@, effective)]
  BY DEF Renew
<1> DEFINE effective == IF n = 0 THEN lockTTL[c] ELSE n
<1>3. /\ pc[c] = "held" /\ cmd[c] \in Commands /\ cmd[c].token \in Tokens
      /\ UNCHANGED <<key, ttl, late, lockTTL, looping, timer, deadline, faults>>
  BY <1>1 DEF Renew, serverVars, CallInv, TypeOK, NoCmd, Commands
<1>4. effective \in Nat /\ effective > 0 /\ lease[c] \in Nat
  BY <1>1, <1>3 DEF CallInv, TypeOK
<1>5. SameTTL /\ MaxFaults > 0 => (OneTTL => effective = TTL)
  BY <1>3 DEF SameTTL, OneTTL
<1>6. /\ Send(c, "expire", cmd[c].token, effective)
      /\ lease' = [lease EXCEPT ![c] = Least(lease[c], effective)]
  BY <1>2
<1> HIDE DEF effective
<1> DEFINE m == [op |-> "expire", token |-> cmd[c].token, ttl |-> effective]
<1>7. m \in Commands BY <1>3, <1>4 DEF Commands
<1>8. Least(lease[c], effective) \in Nat /\ Least(lease[c], effective) <= lease[c]
      /\ Least(lease[c], effective) <= effective
  BY <1>4 DEF Least
<1>9. TypeOK' BY <1>1, <1>3, <1>4, <1>6, <1>7, <1>8 DEF TypeOK, Send, Goto
<1>10. /\ pc'[c] = "expire" /\ cmd'[c] = m /\ answer'[c] = "none" /\ promised'[c] = effective
       /\ lease'[c] = Least(lease[c], effective) /\ lockTTL'[c] = lockTTL[c]
  BY <1>1, <1>3, <1>6 DEF TypeOK, Send, Goto
<1>11. StepOf(c) BY <1>1, <1>3, <1>6 DEF StepOf, Send, Goto, TypeOK
<1>12. CallInv(c)' BY <1>1, <1>3, <1>4, <1>10 DEF CallInv, Lasts, Waits
<1>13. TokenOf(c) BY <1>3, <1>10 DEF TokenOf
<1>14. LetsGo(c) BY <1>3, <1>10 DEF LetsGo, Claims
<1>15. ASSUME SameTTL PROVE LeaseInv(c)' /\ (MaxFaults > 0 => OneTTLOf(c)')
  <2>1. LeaseInv(c) /\ (MaxFaults > 0 => OneTTL) BY <1>15 DEF IndInv, LeasesInv
  <2>2. LeaseInv(c)' BY <1>1, <1>3, <1>4, <1>8, <1>10, <2>1 DEF LeaseInv, Covers, TypeOK
  <2>3. ASSUME MaxFaults > 0 PROVE OneTTLOf(c)'
    <3>1. OneTTL /\ effective = TTL BY <1>5, <1>15, <2>1, <2>3
    <3>2. lease[c] <= TTL /\ lockTTL[c] = TTL BY <1>3, <3>1 DEF OneTTL
    <3> QED BY <1>4, <1>8, <1>10, <3>1, <3>2 DEF OneTTLOf
  <2> QED BY <2>2, <2>3
<1> QED BY <1>9, <1>11, <1>12, <1>13, <1>14, <1>15, StepInd

\* The calls that end with the lock in hand.
LEMMA KeepsInd ==
  ASSUME IndInv, NEW c \in Clients, Locked(c) \/ Renewed(c)
  PROVE  IndInv'
<1>1. TypeOK /\ TokensInv /\ StraysInv /\ CallInv(c) BY DEF IndInv
<1>2. /\ pc[c] \in {"set", "expire"} /\ answer[c] = "yes" /\ Keeps(c)
      /\ UNCHANGED <<key, ttl, late, cmd, timer, faults>>
  BY DEF Locked, Renewed, Answered, Keeps, serverVars
<1>3. cmd[c] \in Commands /\ cmd[c].op = pc[c] /\ cmd[c].ttl \in Nat /\ cmd[c].ttl > 0
  BY <1>1, <1>2 DEF CallInv, TypeOK, NoCmd, Commands, Waits, Lasts
<1>4. TypeOK' BY <1>1, <1>2, <1>3 DEF TypeOK, Keeps, Goto
<1>5. /\ pc'[c] = "held" /\ cmd'[c] = cmd[c] /\ answer'[c] = "none" /\ promised'[c] = 0
      /\ lease'[c] = promised[c] /\ lockTTL'[c] = cmd[c].ttl
  BY <1>1, <1>2 DEF TypeOK, Keeps, Goto
<1>6. StepOf(c) BY <1>1, <1>2 DEF StepOf, Keeps, Goto, TypeOK
<1>7. CallInv(c)' BY <1>1, <1>2, <1>3, <1>5 DEF CallInv, Lasts, Waits
<1>8. TokenOf(c) BY <1>2, <1>5 DEF TokenOf
<1>9. LetsGo(c) BY <1>2, <1>5 DEF LetsGo, Claims
<1>10. ASSUME SameTTL PROVE LeaseInv(c)' /\ (MaxFaults > 0 => OneTTLOf(c)')
  <2>1. LeaseInv(c) /\ (MaxFaults > 0 => OneTTL) BY <1>10 DEF IndInv, LeasesInv
  <2>2. promised[c] \in Nat BY <1>1 DEF TypeOK
  <2>3. LeaseInv(c)' BY <1>2, <1>5, <2>1, <2>2 DEF LeaseInv, Covers
  <2>4. ASSUME MaxFaults > 0 PROVE OneTTLOf(c)'
    <3>1. cmd[c].ttl = TTL BY <1>2, <1>3, <2>1, <2>4 DEF OneTTL
    <3> QED BY <1>2, <1>5, <2>1, <2>2, <3>1 DEF OneTTLOf, LeaseInv
  <2> QED BY <2>3, <2>4
<1> QED BY <1>4, <1>6, <1>7, <1>8, <1>9, <1>10, StepInd

\* The ways a call comes to nothing.
Drops(c) ==
    /\ UNCHANGED <<key, ttl>>
    /\ pc[c] # "idle"
    /\ Forget(c) \/ TryAgainLater(c)
    /\ \/ /\ UNCHANGED <<late, faults>>
          /\ pc[c] \in {"set", "del", "retry"}
          /\ pc[c] = "set" => answer[c] = "no"
          /\ pc[c] = "del" => answer[c] # "none"
       \/ /\ Fault
          /\ \/ Waits(c) /\ LeftBehind(c)
             \/ late' = late

LEMMA DropsInd ==
  ASSUME IndInv, NEW c \in Clients, Drops(c)
  PROVE  IndInv'
<1>1. TypeOK /\ TokensInv /\ StraysInv /\ CallInv(c) BY DEF IndInv
<1>2. UNCHANGED <<key, ttl>> BY DEF Drops
<1>3. late' = late \/ (Waits(c) /\ late' = late \cup {cmd[c]})
  BY DEF Drops, LeftBehind
<1>4. /\ pc'[c] \in {"idle", "retry"} /\ cmd'[c] = NoCmd /\ answer'[c] = "none"
      /\ promised'[c] = 0
      /\ lease'[c] = 0 \/ (pc[c] = "set" /\ lease'[c] = lease[c])
  BY <1>1 DEF Drops, TypeOK, Forget, TryAgainLater, Answered, Goto
<1>5. TypeOK'
  <2>1. late' \subseteq Commands BY <1>1, <1>3 DEF TypeOK, CallInv, Waits, NoCmd
  <2>2. faults' \in 0..MaxFaults BY <1>1 DEF Drops, Fault, TypeOK
  <2>3. /\ pc' \in [Clients -> {"idle", "set", "retry", "held", "del", "expire"}]
        /\ cmd' \in [Clients -> Commands \cup {NoCmd}]
        /\ answer' \in [Clients -> {"none", "yes", "no"}]
        /\ looping' \in [Clients -> BOOLEAN]
        /\ \A f \in {lockTTL', timer', deadline', lease', promised'} : f \in [Clients -> Nat]
    <3>1. CASE Forget(c) BY <1>1, <3>1 DEF TypeOK, Forget, Goto
    <3>2. CASE TryAgainLater(c) BY <1>1, <3>2 DEF TypeOK, TryAgainLater, Goto
    <3> QED BY <3>1, <3>2 DEF Drops
  <2> QED BY <1>1, <1>2, <2>1, <2>2, <2>3 DEF TypeOK
<1>6. StepOf(c)
  <2>1. \A d \in Clients \ {c} :
          /\ pc'[d] = pc[d] /\ cmd'[d] = cmd[d] /\ answer'[d] = answer[d]
          /\ lockTTL'[d] = lockTTL[d] /\ lease'[d] = lease[d] /\ promised'[d] = promised[d]
    <3>1. CASE Forget(c) BY <1>1, <3>1 DEF TypeOK, Forget, Goto
    <3>2. CASE TryAgainLater(c) BY <1>1, <3>2 DEF TypeOK, TryAgainLater, Goto
    <3> QED BY <3>1, <3>2 DEF Drops
  <2> QED BY <1>2, <1>3, <2>1 DEF StepOf
<1>7. CallInv(c)' BY <1>4 DEF CallInv, Lasts, Waits, NoCmd
<1>8. TokenOf(c) BY <1>1, <1>4 DEF TokenOf, NoCmd, CallInv, Waits, TypeOK, Commands
<1>9. LetsGo(c) BY <1>1 DEF LetsGo, Claims, Drops, CallInv, NoCmd
<1>10. ASSUME SameTTL PROVE LeaseInv(c)' /\ OneTTLOf(c)'
  <2>1. LeaseInv(c) BY <1>10 DEF IndInv, LeasesInv
  <2>2. lease'[c] = 0 BY <1>1, <1>4, <2>1 DEF LeaseInv, TypeOK
  <2> QED BY <1>4, <2>2 DEF LeaseInv, OneTTLOf, NoCmd
<1> QED BY <1>5, <1>6, <1>7, <1>8, <1>9, <1>10, StepInd

\* A renewal that fails leaves the caller its lock.
StaysLocked(c) == RenewNotOwned(c) \/ (pc[c] = "expire" /\ GivesUp(c))

LEMMA StaysInd ==
  ASSUME IndInv, NEW c \in Clients, StaysLocked(c)
  PROVE  IndInv'
<1>1. TypeOK /\ TokensInv /\ StraysInv /\ CallInv(c) BY DEF IndInv
<1>2. /\ pc[c] = "expire" /\ Stays(c)
      /\ UNCHANGED <<key, ttl, cmd, lockTTL, looping, timer, deadline>>
      /\ lease' = lease \/ lease' = [lease EXCEPT ![c] = 0]
      /\ \/ late' = late /\ faults' = faults
         \/ Fault /\ LeftBehind(c)
  BY DEF StaysLocked, RenewNotOwned, GivesUp, Answered, Stays
<1>3. cmd[c] \in Commands /\ cmd[c].op = "expire" /\ Waits(c)
  BY <1>1, <1>2 DEF CallInv, TypeOK, NoCmd, Waits
<1>4. late' = late \/ (Waits(c) /\ late' = late \cup {cmd[c]}) BY <1>2, <1>3 DEF LeftBehind
<1>5. TypeOK'
  <2>1. late' \subseteq Commands BY <1>1, <1>3, <1>4 DEF TypeOK
  <2>2. faults' \in 0..MaxFaults BY <1>1, <1>2 DEF Fault, TypeOK
  <2> QED BY <1>1, <1>2, <2>1, <2>2 DEF TypeOK, Stays, Goto
<1>6. /\ pc'[c] = "held" /\ cmd'[c] = cmd[c] /\ answer'[c] = "none" /\ promised'[c] = 0
      /\ lease'[c] \in {0, lease[c]} /\ lockTTL'[c] = lockTTL[c]
  BY <1>1, <1>2 DEF TypeOK, Stays, Goto
<1>7. StepOf(c) BY <1>1, <1>2, <1>4 DEF StepOf, Stays, Goto, TypeOK
<1>8. CallInv(c)' BY <1>1, <1>2, <1>3, <1>6 DEF CallInv, Lasts, Waits
<1>9. TokenOf(c) BY <1>2, <1>6 DEF TokenOf
<1>10. LetsGo(c) BY <1>2, <1>6 DEF LetsGo, Claims
<1>11. ASSUME SameTTL PROVE LeaseInv(c)' /\ (MaxFaults > 0 => OneTTLOf(c)')
  <2>1. LeaseInv(c) /\ (MaxFaults > 0 => OneTTL) BY <1>11 DEF IndInv, LeasesInv
  <2>2. lease[c] \in Nat /\ TTL \in Nat BY <1>1 DEF TypeOK
  <2>3. LeaseInv(c)' BY <1>2, <1>6, <2>1, <2>2 DEF LeaseInv, Covers
  <2>4. ASSUME MaxFaults > 0 PROVE OneTTLOf(c)'
    BY <1>2, <1>6, <2>1, <2>2, <2>4 DEF OneTTLOf, OneTTL
  <2> QED BY <2>3, <2>4
<1> QED BY <1>5, <1>7, <1>8, <1>9, <1>10, <1>11, StepInd

LEMMA SendAgainInd ==
  ASSUME IndInv, NEW c \in Clients, SendAgain(c)
  PROVE  IndInv'
<1>1. TypeOK /\ TokensInv /\ StraysInv /\ CallInv(c) BY DEF IndInv
<1>2. /\ Waits(c) /\ Fault /\ LeftBehind(c)
      /\ answer' = [answer EXCEPT ![c] = "none"]
      /\ UNCHANGED <<key, ttl, pc, cmd, lockTTL, looping, timer, deadline, lease, promised>>
  BY DEF SendAgain, leaseVars
<1>3. cmd[c] \in Commands BY <1>1, <1>2 DEF CallInv, TypeOK, NoCmd, Waits
<1>4. late' = late \/ (Waits(c) /\ late' = late \cup {cmd[c]}) BY <1>2 DEF LeftBehind
<1>5. TypeOK'
  <2>1. late' \subseteq Commands BY <1>1, <1>3, <1>4 DEF TypeOK
  <2>2. faults' \in 0..MaxFaults BY <1>1, <1>2 DEF Fault, TypeOK
  <2> QED BY <1>1, <1>2, <2>1, <2>2 DEF TypeOK
<1>6. answer'[c] = "none" BY <1>1, <1>2 DEF TypeOK
<1>7. StepOf(c) BY <1>1, <1>2, <1>4 DEF StepOf, TypeOK
<1>8. CallInv(c)' BY <1>1, <1>2 DEF CallInv, Lasts, Waits
<1>9. TokenOf(c) BY <1>2 DEF TokenOf
<1>10. LetsGo(c) BY <1>2 DEF LetsGo
<1>11. ASSUME SameTTL PROVE LeaseInv(c)' /\ (MaxFaults > 0 => OneTTLOf(c)')
  <2>1. LeaseInv(c) /\ (MaxFaults > 0 => OneTTL) BY <1>11 DEF IndInv, LeasesInv
  <2>2. LeaseInv(c)' BY <1>2, <1>6, <2>1 DEF LeaseInv, Covers
  <2>3. ASSUME MaxFaults > 0 PROVE OneTTLOf(c)' BY <1>2, <2>1, <2>3 DEF OneTTLOf, OneTTL
  <2> QED BY <2>2, <2>3
<1> QED BY <1>5, <1>7, <1>8, <1>9, <1>10, <1>11, StepInd

-----------------------------------------------------------------------------
\* The theorems.

LEMMA NextInd == ASSUME IndInv, [Next]_vars PROVE IndInv'
<1>1. CASE UNCHANGED vars
  BY <1>1 DEF vars, serverVars, clientVars, leaseVars, IndInv, TypeOK, CallInv, Lasts, Waits,
     TokensInv, StraysInv, Strays, Claims, LeasesInv, LeaseInv, Covers, OneTTL, SameTTL
<1>2. CASE Tick BY <1>2, TickInd
<1>3. ASSUME NEW m \in late, ExecuteLate(m) \/ Lose(m) PROVE IndInv'
  BY <1>3, ExecuteLateInd, LoseInd
<1>4. ASSUME NEW c \in Clients, TryLock(c) \/ Retry(c) PROVE IndInv' BY <1>4, AttemptInd
<1>5. ASSUME NEW c \in Clients, Locked(c) \/ Renewed(c) PROVE IndInv' BY <1>5, KeepsInd
<1>6. ASSUME NEW c \in Clients,
             TryAgainLater(c) \/ NotLocked(c) \/ TimedOut(c) \/ Unlocked(c)
      PROVE  IndInv'
  <2>1. Drops(c)
    BY <1>6 DEF TryAgainLater, NotLocked, TimedOut, Unlocked, Answered, Drops, serverVars
  <2> QED BY <2>1, DropsInd
<1>7. ASSUME NEW c \in Clients, RenewNotOwned(c) PROVE IndInv'
  BY <1>7, StaysInd DEF StaysLocked
<1>8. ASSUME NEW c \in Clients, GivesUp(c) PROVE IndInv'
  <2>1. CASE pc[c] = "expire" BY <1>8, <2>1, StaysInd DEF StaysLocked
  <2>2. CASE pc[c] # "expire"
    <3>1. Drops(c) BY <1>8, <2>2 DEF GivesUp, Drops, Waits
    <3> QED BY <3>1, DropsInd
  <2> QED BY <2>1, <2>2
<1>9. ASSUME NEW c \in Clients, Crash(c) PROVE IndInv'
  <2>1. Drops(c) BY <1>9 DEF Crash, Drops
  <2> QED BY <2>1, DropsInd
<1>10. ASSUME NEW c \in Clients, Renew(c) \/ Unlock(c) \/ ExecuteFor(c) \/ SendAgain(c)
       PROVE  IndInv'
  BY <1>10, RenewInd, UnlockInd, ExecuteForInd, SendAgainInd
<1> QED BY <1>1, <1>2, <1>3, <1>4, <1>5, <1>6, <1>7, <1>8, <1>9, <1>10 DEF Next, Return

\* In every state tokens tell attempts apart, there is one more of them to take, and
\* who relies on the lock has its token in the key for as long.
THEOREM Invariance == Spec => []IndInv
BY InitInd, NextInd, PTL DEF Spec

\* The server and the clients keep their types: a key has a ttl, so that SetNX and
\* renewScript never leave a lock that nothing ends.
THEOREM TypeCorrect == Spec => []TypeOK
<1>1. IndInv => TypeOK BY DEF IndInv
<1> QED BY Invariance, <1>1, PTL

\* No two clients rely on the lock at once, as long as renewals have the lock's own
\* ttl or no command is executed late.
THEOREM ExclusiveHolds == ASSUME SameTTL PROVE Spec => []Exclusive
<1>1. IndInv => Exclusive
  <2> SUFFICES ASSUME IndInv, NEW c \in Clients, NEW d \in Clients,
                      lease[c] > 0, lease[d] > 0
               PROVE  c = d
    BY DEF Exclusive
  <2>1. TypeOK /\ TokensInv /\ CallInv(c) BY DEF IndInv
  <2>2. LeaseInv(c) /\ LeaseInv(d) BY DEF IndInv, LeasesInv
  <2>3. key = cmd[c].token /\ key = cmd[d].token BY <2>2 DEF LeaseInv, Covers
  <2>4. cmd[c].token # None
    BY <2>1, <2>2 DEF LeaseInv, CallInv, Waits, TypeOK, NoCmd, Commands
  <2> QED BY <2>1, <2>3, <2>4 DEF TokensInv
<1> QED BY Invariance, <1>1, PTL
=============================================================================
