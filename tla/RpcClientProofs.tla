--------------------------- MODULE RpcClientProofs ---------------------------
(***************************************************************************)
(* Proofs about the client of a chain's endpoints.                         *)
(***************************************************************************)
EXTENDS RpcClient, FiniteSetTheorems, TLAPS

USE RpcAssumption

\* The callers whose request is out.
Out(p) == {c \in Callers : p[c] = "call"}

Places == {"idle", "limiter", "acquire", "call", "backoff"}

\* A caller is where SlotsHeld looks for it, and nowhere else.
SlotsInv ==
    /\ pc \in [Callers -> Places]
    /\ SlotsHeld

LEMMA OutFinite ==
  ASSUME NEW p
  PROVE  IsFiniteSet(Out(p))
BY FS_Subset DEF Out

\* The move of one caller to another place changes the number of those out by
\* whether it was out and whether it is.
LEMMA OutMoves ==
  ASSUME pc \in [Callers -> Places], NEW c \in Callers, NEW where \in Places,
         Goto(c, where)
  PROVE  /\ pc' \in [Callers -> Places]
         /\ pc[c] # "call" /\ where # "call" => Cardinality(Out(pc')) = Cardinality(Out(pc))
         /\ pc[c] # "call" /\ where = "call" => Cardinality(Out(pc')) = Cardinality(Out(pc)) + 1
         /\ pc[c] = "call" /\ where # "call" => Cardinality(Out(pc')) = Cardinality(Out(pc)) - 1
<1>1. pc' \in [Callers -> Places] BY DEF Goto
<1>2. \A d \in Callers : pc'[d] = IF d = c THEN where ELSE pc[d] BY DEF Goto
<1>3. IsFiniteSet(Out(pc)) BY OutFinite
<1>4. CASE pc[c] # "call" /\ where # "call"
  <2>1. Out(pc') = Out(pc) BY <1>2, <1>4 DEF Out
  <2> QED BY <1>1, <1>4, <2>1
<1>5. CASE pc[c] # "call" /\ where = "call"
  <2>1. Out(pc') = Out(pc) \cup {c} /\ c \notin Out(pc) BY <1>2, <1>5 DEF Out
  <2>2. Cardinality(Out(pc')) = Cardinality(Out(pc)) + 1
    BY <1>3, <2>1, FS_AddElement
  <2> QED BY <1>1, <1>5, <2>2
<1>6. CASE pc[c] = "call" /\ where # "call"
  <2>1. Out(pc') = Out(pc) \ {c} /\ c \in Out(pc) BY <1>2, <1>6 DEF Out
  <2>2. Cardinality(Out(pc) \ {c}) =
          IF c \in Out(pc) THEN Cardinality(Out(pc)) - 1 ELSE Cardinality(Out(pc))
    BY <1>3, FS_RemoveElement
  <2>3. Cardinality(Out(pc')) = Cardinality(Out(pc)) - 1
    BY <2>1, <2>2
  <2> QED BY <1>1, <1>6, <2>3
<1>7. CASE pc[c] = "call" /\ where = "call" BY <1>1, <1>7
<1> QED BY <1>4, <1>5, <1>6, <1>7

LEMMA InitInd == Init => SlotsInv
<1> SUFFICES ASSUME Init PROVE SlotsInv OBVIOUS
<1>1. pc \in [Callers -> Places] BY DEF Init, Places
<1>2. {c \in Callers : pc[c] = "call"} = {} BY DEF Init
<1>3. sem = 0 BY DEF Init
<1> QED BY <1>1, <1>2, <1>3, FS_EmptySet DEF SlotsInv, SlotsHeld

\* Neither the slots nor the places change.
LEMMA StaysInd == SlotsInv /\ UNCHANGED <<pc, sem>> => SlotsInv'
BY DEF SlotsInv, SlotsHeld

\* A failed attempt leaves the place it failed at, for one that holds no slot.
LEMMA AttemptFailsGoes ==
  ASSUME NEW c \in Callers, AttemptFails(c)
  PROVE  \E where \in Places \ {"call"} : Goto(c, where)
<1>1. CASE attempt[c] = RetryMax BY <1>1 DEF AttemptFails, Places
<1>2. CASE attempt[c] # RetryMax BY <1>2 DEF AttemptFails, Places
<1> QED BY <1>1, <1>2

\* A caller that holds no slot moves to where it needs none.
LEMMA MovesInd ==
  ASSUME SlotsInv, NEW c \in Callers, NEW where \in Places \ {"call"},
         Goto(c, where), pc[c] # "call", sem' = sem
  PROVE  SlotsInv'
<1>1. pc' \in [Callers -> Places] /\ Cardinality(Out(pc')) = Cardinality(Out(pc))
  BY OutMoves DEF SlotsInv
<1> QED BY <1>1 DEF SlotsInv, SlotsHeld, Out

\* A caller whose request was out gives its slot back.
LEMMA ReleasesInd ==
  ASSUME SlotsInv, NEW c \in Callers, NEW where \in Places \ {"call"},
         Goto(c, where), pc[c] = "call", sem' = sem - 1
  PROVE  SlotsInv'
<1>1. pc' \in [Callers -> Places] /\ Cardinality(Out(pc')) = Cardinality(Out(pc)) - 1
  BY OutMoves DEF SlotsInv
<1> QED BY <1>1 DEF SlotsInv, SlotsHeld, Out

LEMMA NextInd == SlotsInv /\ [Next]_vars => SlotsInv'
<1> SUFFICES ASSUME SlotsInv, [Next]_vars PROVE SlotsInv' OBVIOUS
<1> USE DEF At
<1>1. CASE UNCHANGED vars BY <1>1, StaysInd DEF vars, clientVars, callVars
<1>2. CASE Tick BY <1>2, StaysInd DEF Tick
<1>3. ASSUME NEW c \in Callers, Call(c) PROVE SlotsInv'
  BY <1>3, MovesInd DEF Call, clientVars, Places
<1>4. ASSUME NEW c \in Callers, TakeToken(c) PROVE SlotsInv'
  BY <1>4, MovesInd DEF TakeToken, Places
<1>5. ASSUME NEW c \in Callers, LimiterCancelled(c) PROVE SlotsInv'
  BY <1>5, MovesInd DEF LimiterCancelled, Returns, clientVars, Places
<1>6. ASSUME NEW c \in Callers, Acquire(c) PROVE SlotsInv'
  <2>1. Goto(c, "call") /\ pc[c] # "call" /\ sem' = sem + 1 BY <1>6 DEF Acquire
  <2>2. "call" \in Places BY DEF Places
  <2>3. pc' \in [Callers -> Places] /\ Cardinality(Out(pc')) = Cardinality(Out(pc)) + 1
    BY <2>1, <2>2, OutMoves DEF SlotsInv
  <2> QED BY <2>1, <2>3 DEF SlotsInv, SlotsHeld, Out
<1>7. ASSUME NEW c \in Callers, AcquireCancelled(c) PROVE SlotsInv'
  BY <1>7, AttemptFailsGoes, MovesInd DEF AcquireCancelled
<1>8. ASSUME NEW c \in Callers, CallOk(c) PROVE SlotsInv'
  BY <1>8, ReleasesInd DEF CallOk, Places
<1>9. ASSUME NEW c \in Callers, CallErr(c) PROVE SlotsInv'
  BY <1>9, AttemptFailsGoes, ReleasesInd DEF CallErr
<1>10. ASSUME NEW c \in Callers, DelayEnds(c) PROVE SlotsInv'
  BY <1>10, MovesInd DEF DelayEnds, clientVars, Places
<1>11. ASSUME NEW c \in Callers, DelayCancelled(c) PROVE SlotsInv'
  BY <1>11, MovesInd DEF DelayCancelled, Returns, clientVars, Places
<1>12. ASSUME NEW c \in Callers, Cancel(c) PROVE SlotsInv'
  BY <1>12, StaysInd DEF Cancel, clientVars
<1> QED BY <1>1, <1>2, <1>3, <1>4, <1>5, <1>6, <1>7, <1>8, <1>9, <1>10, <1>11, <1>12
        DEF Next, Step

\* However many calls share the client and wherever they fail or are cancelled
\* (RPCClient.acquire and release), the slots taken are those of the requests
\* that are out.
THEOREM SlotsHeldHolds == Spec => []SlotsHeld
<1>1. SlotsInv => SlotsHeld BY DEF SlotsInv
<1> QED BY InitInd, NextInd, <1>1, PTL DEF Spec

-----------------------------------------------------------------------------
\* Types.

LEMMA UpTo == ASSUME NEW n \in Nat PROVE IsFiniteSet(1..n) /\ Cardinality(1..n) = n
<1>1. 1 \in Int /\ n \in Int OBVIOUS
<1>2. /\ IsFiniteSet(1..n)
      /\ Cardinality(1..n) = IF 1 > n THEN 0 ELSE n - 1 + 1
  BY <1>1, FS_Interval, Zenon
<1> QED BY <1>2

\* A power of two is the number of subsets of a set.
LEMMA PowerOfTwo == ASSUME NEW n \in Nat PROVE 2^n \in Nat
<1>1. IsFiniteSet(1..n) /\ Cardinality(1..n) = n BY UpTo
<1>2. IsFiniteSet(SUBSET (1..n)) /\ Cardinality(SUBSET (1..n)) = 2^Cardinality(1..n)
  BY <1>1, FS_SUBSET
<1> QED BY <1>1, <1>2, FS_CardinalityType

LEMMA RetryDelayType == ASSUME NEW n \in Nat PROVE RetryDelay(n) \in Nat
<1>1. 2^n \in Nat BY PowerOfTwo
<1> DEFINE x == 2^n
<1>2. x \in Nat BY <1>1
<1> HIDE DEF x
<1>3. RetryBaseDelay * x \in Nat BY <1>2
<1>4. Least(RetryBaseDelay * x, RetryMaxDelay) \in Nat BY <1>3 DEF Least
<1> QED BY <1>4 DEF RetryDelay, x

\* The endpoints are different ones.
LEMMA EndpointsType ==
  ASSUME endpoints \in Dialled
  PROVE  /\ Len(endpoints) \in Nat \ {0}
         /\ DOMAIN endpoints = 1..Len(endpoints)
         /\ \A i \in 1..Len(endpoints) : endpoints[i] \in URLs
         /\ \A i, j \in 1..Len(endpoints) : endpoints[i] = endpoints[j] => i = j
<1>1. PICK n \in 1..NumURLs : endpoints \in [1..n -> URLs] BY DEF Dialled
<1>2. endpoints \in Seq(URLs) /\ DOMAIN endpoints = 1..n /\ n \in Nat \ {0} BY <1>1
<1>3. Len(endpoints) = n BY <1>1, <1>2
<1>4. \A i, j \in 1..n : i < j => endpoints[i] < endpoints[j] BY <1>2 DEF Dialled
<1>5. \A i \in 1..n : endpoints[i] \in URLs /\ endpoints[i] \in Int BY <1>1 DEF URLs
<1>6. ASSUME NEW i \in 1..n, NEW j \in 1..n, endpoints[i] = endpoints[j] PROVE i = j
  <2>1. ~(i < j) /\ ~(j < i) BY <1>4, <1>5, <1>6
  <2> QED BY <2>1
<1> QED BY <1>2, <1>3, <1>5, <1>6

\* The round robin: the next endpoint, or the first one after the last.
LEMMA NextOne ==
  ASSUME NEW n \in Nat \ {0}, NEW i \in 0..(n - 1)
  PROVE  (i + 1) % n = IF i + 1 = n THEN 0 ELSE i + 1
OBVIOUS

LEMMA PicksOne ==
  ASSUME TypeOK, NEW c \in Callers, PickEndpoint(c)
  PROVE  /\ nextEndpoint' =
              IF nextEndpoint + 1 = Len(endpoints) THEN 0 ELSE nextEndpoint + 1
         /\ ep' = [ep EXCEPT ![c] = endpoints[nextEndpoint + 1]]
         /\ endpoints[nextEndpoint + 1] \in URLs
         /\ alone' = [d \in Callers |-> alone[d] /\ d = c]
<1>1. Len(endpoints) \in Nat \ {0} /\ nextEndpoint \in 0..(Len(endpoints) - 1)
  BY EndpointsType DEF TypeOK
<1>2. nextEndpoint + 1 \in 1..Len(endpoints) BY <1>1
<1> QED BY <1>1, <1>2, EndpointsType, NextOne DEF PickEndpoint, TypeOK

LEMMA SlotsLeft ==
  ASSUME SlotsInv, NEW c \in Callers, pc[c] = "call"
  PROVE  sem \in Nat \ {0}
<1>1. IsFiniteSet(Out(pc)) /\ Out(pc) # {} BY OutFinite DEF Out
<1>2. Cardinality(Out(pc)) \in Nat /\ Cardinality(Out(pc)) # 0
  BY <1>1, FS_EmptySet, FS_CardinalityType
<1> QED BY <1>2 DEF SlotsInv, SlotsHeld, Out

LEMMA AttemptFailsType ==
  ASSUME TypeOK, NEW c \in Callers, AttemptFails(c), sem' \in 0..MaxConcurrent,
         tried' = tried
  PROVE  TypeOK'
<1>1. attempt[c] \in 0..RetryMax /\ attempt[c] \in Nat BY DEF TypeOK
<1>2. RetryDelay(attempt[c]) \in Nat BY <1>1, RetryDelayType
<1>3. CASE attempt[c] = RetryMax BY <1>3 DEF TypeOK, AttemptFails, Goto
<1>4. CASE attempt[c] # RetryMax
  <2>1. timer' \in [Callers -> Nat] BY <1>2, <1>4 DEF TypeOK, AttemptFails
  <2>2. pc' \in [Callers -> {"idle", "limiter", "acquire", "call", "backoff"}]
    BY <1>4 DEF TypeOK, AttemptFails, Goto
  <2> QED BY <1>4, <2>1, <2>2 DEF TypeOK, AttemptFails
<1> QED BY <1>3, <1>4

-----------------------------------------------------------------------------
\* What was picked.

\* After a pick, what was picked before is one longer ago.
LEMMA PickExtends ==
  ASSUME TypeOK, endpoints' = endpoints, NEW n \in Nat,
         nextEndpoint' = IF nextEndpoint + 1 = Len(endpoints) THEN 0 ELSE nextEndpoint + 1
  PROVE  LastPicked(n + 1)' = LastPicked(n) \cup {endpoints[nextEndpoint + 1]}
<1> DEFINE L == Len(endpoints)
           N == nextEndpoint
<1>1. L \in Nat \ {0} /\ N \in 0..(L - 1) BY EndpointsType DEF TypeOK
<1>2. PickedAgo(1)' = endpoints[N + 1] BY <1>1 DEF PickedAgo
<1>3. ASSUME NEW k \in 1..(L - 1) PROVE PickedAgo(k + 1)' = PickedAgo(k)
  BY <1>1 DEF PickedAgo
<1>4. PickedAgo(L) = endpoints[N + 1] BY <1>1 DEF PickedAgo
<1> DEFINE m == Least(n, L)
           m1 == Least(n + 1, L)
<1>5. m \in 0..L /\ m1 \in 1..L /\ m <= m1 /\ m1 <= m + 1 /\ (m = m1 => m = L)
  BY <1>1 DEF Least
<1>6. LastPicked(n) = {PickedAgo(k) : k \in 1..m} BY DEF LastPicked
<1>7. LastPicked(n + 1)' = {PickedAgo(k)' : k \in 1..m1} BY DEF LastPicked
<1> HIDE DEF L, N, m, m1
<1>8. ASSUME NEW x \in LastPicked(n + 1)' PROVE x \in LastPicked(n) \cup {endpoints[N + 1]}
  <2>1. PICK k \in 1..m1 : x = PickedAgo(k)' BY <1>7
  <2>2. CASE k = 1 BY <1>2, <2>1, <2>2
  <2>3. CASE k # 1
    <3>1. k - 1 \in 1..(L - 1) /\ k - 1 \in 1..m /\ k = (k - 1) + 1 BY <1>1, <1>5, <2>3
    <3>2. x = PickedAgo(k - 1) BY <1>3, <2>1, <3>1
    <3> QED BY <1>6, <3>1, <3>2
  <2> QED BY <2>2, <2>3
<1>9. ASSUME NEW x \in LastPicked(n) PROVE x \in LastPicked(n + 1)'
  <2>1. PICK k \in 1..m : x = PickedAgo(k) BY <1>6
  <2>2. CASE k = L
    <3>1. x = PickedAgo(1)' BY <1>2, <1>4, <2>1, <2>2
    <3> QED BY <1>5, <1>7, <3>1
  <2>3. CASE k # L
    <3>1. k \in 1..(L - 1) /\ k + 1 \in 1..m1 BY <1>1, <1>5, <2>3
    <3>2. x = PickedAgo(k + 1)' BY <1>3, <2>1, <3>1
    <3> QED BY <1>7, <3>1, <3>2
  <2> QED BY <2>2, <2>3
<1>10. endpoints[N + 1] \in LastPicked(n + 1)' BY <1>2, <1>5, <1>7
<1> QED BY <1>8, <1>9, <1>10 DEF N

\* As many endpoints as there are picks, until they start again.
LEMMA PickedCount ==
  ASSUME TypeOK, NEW n \in Nat
  PROVE  Cardinality(LastPicked(n)) = Least(n, Len(endpoints))
<1> DEFINE L == Len(endpoints)
           N == nextEndpoint
           m == Least(n, L)
           f == [k \in 1..m |-> PickedAgo(k)]
           Place(k) == IF k <= N THEN N - k + 1 ELSE N - k + 1 + L
<1>1. L \in Nat \ {0} /\ N \in 0..(L - 1) BY EndpointsType DEF TypeOK
<1>2. m \in 0..L BY <1>1 DEF Least
<1>3. \A k \in 1..m : PickedAgo(k) = endpoints[Place(k)] BY DEF PickedAgo
<1>4. \A k \in 1..m : Place(k) \in 1..L BY <1>1, <1>2
<1>5. \A j, k \in 1..m : Place(j) = Place(k) => j = k BY <1>1, <1>2
<1> HIDE DEF Place
<1>6. \A i, j \in 1..L : endpoints[i] = endpoints[j] => i = j BY EndpointsType DEF TypeOK
<1>7. \A j, k \in 1..m : PickedAgo(j) = PickedAgo(k) => j = k
  <2> HIDE DEF L, N, m
  <2> QED BY <1>3, <1>4, <1>5, <1>6
<1>8. LastPicked(n) = {PickedAgo(k) : k \in 1..m} BY DEF LastPicked
<1> HIDE DEF m, L, N
<1>9. f \in Bijection(1..m, LastPicked(n))
  <2>1. f \in [1..m -> LastPicked(n)] BY <1>8
  <2>2. \A j, k \in 1..m : f[j] = f[k] => j = k BY <1>7
  <2>3. \A t \in LastPicked(n) : \E k \in 1..m : f[k] = t BY <1>8
  <2> HIDE DEF f
  <2> QED BY <2>1, <2>2, <2>3 DEF Bijection, Injection, Surjection, IsInjective
<1>10. IsFiniteSet(1..m) /\ Cardinality(1..m) = m BY <1>1, <1>2, UpTo
<1>11. ExistsBijection(1..m, LastPicked(n)) BY <1>9 DEF ExistsBijection
<1>12. Cardinality(LastPicked(n)) = m BY <1>10, <1>11, FS_Bijection
<1> QED BY <1>12 DEF m, L

-----------------------------------------------------------------------------
\* A call fails over.

\* Nothing happens to call d: if another call picks, it is not alone any more.
Rests(d) ==
    /\ pc'[d] = pc[d] /\ attempt'[d] = attempt[d] /\ ep'[d] = ep[d] /\ done'[d] = done[d]
    /\ tried'[d] = tried[d]
    /\ d \in failed' <=> d \in failed
    /\ endpoints' = endpoints
    /\ alone'[d] => alone[d] /\ nextEndpoint' = nextEndpoint

LEMMA RestsKeeps == ASSUME NEW d \in Callers, CallInv(d), Rests(d) PROVE CallInv(d)'
<1>1. alone'[d] => \A n : LastPicked(n)' = LastPicked(n)
  BY DEF Rests, LastPicked, PickedAgo
<1> QED BY <1>1 DEF Rests, CallInv

LEMMA OthersRest ==
  ASSUME IndInv, NEW c \in Callers, Call(c) \/ Step(c) \/ Cancel(c)
  PROVE  \A d \in Callers \ {c} : Rests(d)
<1>1. TypeOK BY DEF IndInv
<1>2. CASE Call(c) BY <1>1, <1>2 DEF TypeOK, Rests, Call, Goto, clientVars
<1>3. CASE TakeToken(c)
  <2>1. /\ PickEndpoint(c) /\ pc' = [pc EXCEPT ![c] = "acquire"]
        /\ UNCHANGED <<endpoints, attempt, done, failed, tried>>
    BY <1>3 DEF TakeToken, Goto
  <2>2. alone' = [d \in Callers |-> alone[d] /\ d = c] /\ ep' = [ep EXCEPT ![c] = ep'[c]]
    BY <1>1, <2>1, PicksOne DEF TypeOK
  <2> QED BY <1>1, <2>1, <2>2 DEF TypeOK, Rests
<1>4. CASE LimiterCancelled(c) \/ DelayCancelled(c)
  BY <1>1, <1>4
     DEF TypeOK, Rests, LimiterCancelled, DelayCancelled, Returns, Goto, clientVars, historyVars
<1>5. CASE Acquire(c) BY <1>1, <1>5 DEF TypeOK, Rests, Acquire, Goto
<1>6. CASE AcquireCancelled(c) \/ CallErr(c)
  <2>1. AttemptFails(c) /\ tried' = tried BY <1>6 DEF AcquireCancelled, CallErr
  <2>2. CASE attempt[c] = RetryMax BY <1>1, <2>1, <2>2 DEF TypeOK, Rests, AttemptFails, Goto
  <2>3. CASE attempt[c] # RetryMax BY <1>1, <2>1, <2>3 DEF TypeOK, Rests, AttemptFails, Goto
  <2> QED BY <2>2, <2>3
<1>7. CASE CallOk(c) BY <1>1, <1>7 DEF TypeOK, Rests, CallOk, Goto, historyVars
<1>8. CASE DelayEnds(c)
  BY <1>1, <1>8 DEF TypeOK, Rests, DelayEnds, Goto, clientVars, historyVars
<1>9. CASE Cancel(c) BY <1>1, <1>9 DEF TypeOK, Rests, Cancel, clientVars, historyVars
<1> QED BY <1>2, <1>3, <1>4, <1>5, <1>6, <1>7, <1>8, <1>9 DEF Step

\* What is picked stays what it is while nobody picks.
LEMMA PickedStays ==
  ASSUME UNCHANGED <<endpoints, nextEndpoint>>
  PROVE  \A n : LastPicked(n)' = LastPicked(n)
BY DEF LastPicked, PickedAgo

LEMMA CallKeeps ==
  ASSUME IndInv, NEW c \in Callers, Call(c) \/ Step(c) \/ Cancel(c)
  PROVE  CallInv(c)'
<1>1. TypeOK /\ CallInv(c) BY DEF IndInv
<1>2. CASE Call(c)
  <2>1. pc'[c] = "limiter" /\ attempt'[c] = 0 /\ tried'[c] = {} /\ c \notin failed'
    BY <1>1, <1>2 DEF TypeOK, Call, Goto
  <2>2. LastPicked(0)' = {}
    <3>1. endpoints' = endpoints BY <1>2 DEF Call
    <3>2. Least(0, Len(endpoints')) = 0 BY <1>1, <3>1, EndpointsType DEF TypeOK, Least
    <3> QED BY <3>2 DEF LastPicked
  <2> QED BY <2>1, <2>2 DEF CallInv
<1>3. CASE TakeToken(c)
  <2>1. PickEndpoint(c) /\ endpoints' = endpoints BY <1>3 DEF TakeToken
  <2>2. LastPicked(attempt[c] + 1)' = LastPicked(attempt[c]) \cup {endpoints[nextEndpoint + 1]}
    <3>1. attempt[c] \in Nat BY <1>1 DEF TypeOK
    <3>2. nextEndpoint' =
             IF nextEndpoint + 1 = Len(endpoints) THEN 0 ELSE nextEndpoint + 1
      BY <1>1, <2>1, PicksOne
    <3>3. attempt' = attempt BY <1>3 DEF TakeToken
    <3> QED BY <1>1, <2>1, <3>1, <3>2, <3>3, PickExtends
  <2>3. /\ pc[c] = "limiter" /\ pc'[c] = "acquire" /\ attempt'[c] = attempt[c]
        /\ tried'[c] = tried[c] /\ done'[c] = done[c] /\ failed' = failed
        /\ alone'[c] = alone[c] /\ ep'[c] = endpoints[nextEndpoint + 1]
    BY <1>1, <1>3, <2>1, PicksOne DEF TypeOK, TakeToken, Goto, At
  <2> QED BY <1>1, <2>2, <2>3 DEF CallInv
<1>4. CASE LimiterCancelled(c) \/ DelayCancelled(c)
  BY <1>1, <1>4
     DEF TypeOK, CallInv, LimiterCancelled, DelayCancelled, Returns, Goto, At, historyVars
<1>5. CASE Acquire(c)
  <2>1. /\ pc[c] = "acquire" /\ pc'[c] = "call" /\ tried'[c] = tried[c] \cup {ep[c]}
        /\ UNCHANGED <<endpoints, nextEndpoint, attempt, done, failed, alone>>
    BY <1>1, <1>5 DEF TypeOK, Acquire, Goto, At
  <2> QED BY <1>1, <2>1, PickedStays DEF CallInv
<1>6. CASE AcquireCancelled(c) \/ CallErr(c)
  <2>1. /\ AttemptFails(c) /\ tried' = tried
        /\ \/ pc[c] = "acquire" /\ done[c]
           \/ pc[c] = "call"
    BY <1>6 DEF AcquireCancelled, CallErr, At
  <2>2. UNCHANGED <<endpoints, nextEndpoint, attempt, done, alone>> BY <2>1 DEF AttemptFails
  <2>3. /\ attempt[c] = RetryMax => pc'[c] = "idle"
        /\ attempt[c] # RetryMax =>
              pc'[c] = "backoff" /\ attempt[c] < RetryMax /\ c \notin failed'
    BY <1>1, <2>1 DEF TypeOK, AttemptFails, Goto, CallInv
  <2> QED BY <1>1, <2>1, <2>2, <2>3, PickedStays DEF CallInv
<1>7. CASE CallOk(c) BY <1>1, <1>7 DEF TypeOK, CallInv, CallOk, Goto, At, historyVars
<1>8. CASE DelayEnds(c)
  <2>1. /\ pc[c] = "backoff" /\ pc'[c] = "limiter" /\ attempt'[c] = attempt[c] + 1
        /\ UNCHANGED <<endpoints, nextEndpoint, done, failed, tried, alone>>
    BY <1>1, <1>8 DEF TypeOK, DelayEnds, Goto, At, clientVars, historyVars
  <2> QED BY <1>1, <2>1, PickedStays DEF CallInv
<1>9. CASE Cancel(c)
  BY <1>1, <1>9 DEF TypeOK, CallInv, Cancel, At, historyVars
<1> QED BY <1>2, <1>3, <1>4, <1>5, <1>6, <1>7, <1>8, <1>9 DEF Step

LEMMA TypeStep == ASSUME IndInv, [Next]_vars PROVE TypeOK'
<1>1. TypeOK BY DEF IndInv
<1>2. CASE UNCHANGED vars
  BY <1>1, <1>2 DEF vars, clientVars, callVars, historyVars, TypeOK
<1>3. CASE Tick
  <2>1. timer' \in [Callers -> Nat] BY <1>1, <1>3 DEF TypeOK, Tick
  <2> QED BY <1>1, <1>3, <2>1 DEF TypeOK, Tick, historyVars
<1>4. ASSUME NEW c \in Callers, Call(c) PROVE TypeOK'
  BY <1>1, <1>4 DEF TypeOK, Call, Goto, clientVars
<1>5. ASSUME NEW c \in Callers, TakeToken(c) PROVE TypeOK'
  <2>1. PickEndpoint(c) /\ endpoints' = endpoints BY <1>5 DEF TakeToken
  <2>2. nextEndpoint' \in 0..(Len(endpoints) - 1)
    <3>1. Len(endpoints) \in Nat \ {0} BY <1>1, EndpointsType DEF TypeOK
    <3>2. nextEndpoint' =
             IF nextEndpoint + 1 = Len(endpoints) THEN 0 ELSE nextEndpoint + 1
      BY <1>1, <2>1, PicksOne
    <3> QED BY <1>1, <3>1, <3>2 DEF TypeOK
  <2>3. ep' \in [Callers -> URLs] /\ alone' \in [Callers -> BOOLEAN]
    BY <1>1, <2>1, PicksOne DEF TypeOK
  <2>4. /\ pc' \in [Callers -> {"idle", "limiter", "acquire", "call", "backoff"}]
        /\ tokens' \in 0..RequestsPerSecond
        /\ UNCHANGED <<endpoints, sem, attempt, timer, done, failed, tried>>
    BY <1>1, <1>5 DEF TypeOK, TakeToken, Goto
  <2> QED BY <1>1, <2>2, <2>3, <2>4 DEF TypeOK
<1>6. ASSUME NEW c \in Callers, LimiterCancelled(c) \/ DelayCancelled(c) PROVE TypeOK'
  BY <1>1, <1>6
     DEF TypeOK, LimiterCancelled, DelayCancelled, Returns, Goto, clientVars, historyVars
<1>7. ASSUME NEW c \in Callers, Acquire(c) PROVE TypeOK'
  BY <1>1, <1>7 DEF TypeOK, Acquire, Goto
<1>8. ASSUME NEW c \in Callers, AcquireCancelled(c) PROVE TypeOK'
  BY <1>1, <1>8, AttemptFailsType DEF AcquireCancelled, TypeOK
<1>9. ASSUME NEW c \in Callers, CallOk(c) \/ CallErr(c) PROVE TypeOK'
  <2>1. pc \in [Callers -> Places] BY <1>1 DEF TypeOK, Places
  <2>2. sem \in Nat \ {0} BY <1>9, <2>1, SlotsLeft DEF IndInv, SlotsInv, CallOk, CallErr, At
  <2>3. sem' \in 0..MaxConcurrent BY <1>1, <1>9, <2>2 DEF TypeOK, CallOk, CallErr
  <2>4. CASE CallOk(c) BY <1>1, <2>3, <2>4 DEF TypeOK, CallOk, Goto, historyVars
  <2>5. CASE CallErr(c) BY <1>1, <2>3, <2>5, AttemptFailsType DEF CallErr
  <2> QED BY <1>9, <2>4, <2>5
<1>10. ASSUME NEW c \in Callers, DelayEnds(c) PROVE TypeOK'
  <2>1. attempt[c] \in 0..RetryMax /\ attempt[c] < RetryMax
    BY <1>1, <1>10 DEF TypeOK, DelayEnds, At, IndInv, CallInv
  <2>2. attempt' \in [Callers -> 0..RetryMax] BY <1>1, <1>10, <2>1 DEF TypeOK, DelayEnds
  <2> QED BY <1>1, <1>10, <2>2 DEF TypeOK, DelayEnds, Goto, clientVars, historyVars
<1>11. ASSUME NEW c \in Callers, Cancel(c) PROVE TypeOK'
  BY <1>1, <1>11 DEF TypeOK, Cancel, clientVars, historyVars
<1> QED BY <1>2, <1>3, <1>4, <1>5, <1>6, <1>7, <1>8, <1>9, <1>10, <1>11 DEF Next, Step

\* In every state a call that is alone has picked the endpoints before the one whose
\* turn it is, as many as it has made attempts.
THEOREM Invariance == Spec => []IndInv
<1>1. Init => IndInv
  <2> SUFFICES ASSUME Init PROVE IndInv OBVIOUS
  <2>1. endpoints \in Dialled /\ Len(endpoints) \in Nat \ {0} /\ endpoints[1] \in URLs
    BY EndpointsType DEF Init
  <2>2. TypeOK BY <2>1 DEF Init, TypeOK
  <2>3. SlotsHeld BY InitInd DEF SlotsInv
  <2>4. \A c \in Callers : CallInv(c) BY DEF Init, CallInv
  <2> QED BY <2>2, <2>3, <2>4 DEF IndInv
<1>2. IndInv /\ [Next]_vars => IndInv'
  <2> SUFFICES ASSUME IndInv, [Next]_vars PROVE IndInv' OBVIOUS
  <2>1. TypeOK' BY TypeStep
  <2>2. SlotsHeld' BY NextInd DEF IndInv, TypeOK, SlotsInv, Places
  <2>3. ASSUME NEW d \in Callers PROVE CallInv(d)'
    <3>1. CASE Tick \/ UNCHANGED vars
      <4>1. Rests(d)
        BY <3>1 DEF Tick, vars, clientVars, callVars, historyVars, Rests
      <4> QED BY <4>1, RestsKeeps DEF IndInv
    <3>2. ASSUME NEW c \in Callers, Call(c) \/ Step(c) \/ Cancel(c) PROVE CallInv(d)'
      <4>1. CASE c = d BY <3>2, <4>1, CallKeeps
      <4>2. CASE c # d
        <5>1. Rests(d) BY <3>2, <4>2, OthersRest
        <5> QED BY <5>1, RestsKeeps DEF IndInv
      <4> QED BY <4>1, <4>2
    <3> QED BY <3>1, <3>2 DEF Next
  <2> QED BY <2>1, <2>2, <2>3 DEF IndInv
<1> QED BY <1>1, <1>2, PTL DEF Spec

\* The client and its calls keep their types: the round robin stays within the
\* endpoints and attempts within RetryMax.
THEOREM TypeCorrect == Spec => []TypeOK
<1>1. IndInv => TypeOK BY DEF IndInv
<1> QED BY Invariance, <1>1, PTL

\* However the limiter, the slots and the endpoints delay it, a call that no other
\* pick came between fails only when it has asked every endpoint once, or as many
\* as it had attempts.
THEOREM FailsOverHolds == Spec => []FailsOver
<1>1. IndInv => FailsOver
  <2> SUFFICES ASSUME IndInv, NEW c \in failed, alone[c], ~done[c]
               PROVE  Cardinality(tried[c]) = Least(RetryMax + 1, Len(endpoints))
    BY DEF FailsOver
  <2>1. TypeOK /\ c \in Callers /\ CallInv(c) BY DEF IndInv, TypeOK
  <2>2. tried[c] = LastPicked(RetryMax + 1) BY <2>1 DEF CallInv
  <2> QED BY <2>1, <2>2, PickedCount
<1> QED BY Invariance, <1>1, PTL
=============================================================================
