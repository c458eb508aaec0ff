--------------------------- MODULE DispatcherProofs ---------------------------
(***************************************************************************)
(* What holds of Dispatcher for every value of its constants.              *)
(***************************************************************************)
EXTENDS Dispatcher, FiniteSetTheorems, TLAPS

USE DispatcherAssumption

\* A backoff is a delay, and no longer than the longest of the two settings.
LEMMA RetryDelayType ==
  ASSUME NEW n \in Nat
  PROVE  RetryDelay(n) \in 0..Greatest(RetryBaseDelay, RetryMaxDelay)
<1>1. CASE n <= 1 BY <1>1 DEF RetryDelay, Greatest
<1>2. CASE n > 1
  <2> DEFINE k == Least(n - 1, 10) + 1
  <2>1. k \in 1..11 BY <1>2 DEF Least
  <2>2. Doubled[k] \in Nat BY <2>1 DEF Doubled
  <2>3. RetryBaseDelay * Doubled[k] \in Nat BY <2>2
  <2> QED BY <1>2, <2>3 DEF RetryDelay, Greatest, Least
<1> QED BY <1>1, <1>2

\* The bounds of what a row holds.
LEMMA Bounds ==
  /\ MinRetry \in Int /\ MinRetry <= 0
  /\ MinLease \in Int /\ MinLease <= 0
  /\ MaxRetry \in Nat
  /\ 0 \in MinRetry..MaxRetry
  /\ MinLease \in MinLease..LockDuration
BY DEF MinRetry, MinLease, MaxRetry, Greatest

\* A row no one has locked is a row.
LEMMA UnlockedType ==
  ASSUME NEW status \in Statuses, NEW n \in Nat, NEW d \in MinRetry..MaxRetry
  PROVE  Unlocked(status, n, d) \in RowType
BY Bounds DEF Unlocked, RowType

\* The row MarkFailed writes is a row.
LEMMA DelayType ==
  ASSUME NEW n \in Nat, NEW after \in 0..MaxRetryAfter
  PROVE  Greatest(RetryDelay(n), after + 1) \in MinRetry..MaxRetry
<1> DEFINE d == RetryDelay(n)
           m == Greatest(RetryBaseDelay, RetryMaxDelay)
<1>1. d \in 0..m BY RetryDelayType
<1>2. m \in Nat BY DEF Greatest
<1> HIDE DEF d, m
<1>3. Greatest(d, after + 1) \in 0..Greatest(m, MaxRetryAfter + 1)
  BY <1>1, <1>2 DEF Greatest
<1>4. MaxRetry = Greatest(m, MaxRetryAfter + 1) BY DEF MaxRetry, m
<1> QED BY <1>3, <1>4, Bounds DEF d

\* The values that record updates produce are of the types they should be.
LEMMA NoResultType == NoResult \in Results
BY DEF NoResult, Results

LEMMA LockType ==
  ASSUME row \in [Rows -> RowType], excuses \in [Rows -> Nat],
         NEW w \in Workers, NEW S, NEW age \in 0..MaxClaimDelay, Lock(w, S, age)
  PROVE  row' \in [Rows -> RowType] /\ excuses' \in [Rows -> Nat]
<1>1. ASSUME NEW r \in Rows
      PROVE  [row[r] EXCEPT !.status = "processing",
                            !.lockedBy = WorkerID[w],
                            !.lease = LockDuration - age] \in RowType
  <2>1. LockDuration - age \in MinLease..LockDuration BY DEF MinLease
  <2>2. WorkerID[w] \in IDs OBVIOUS
  <2>3. row[r] \in RowType OBVIOUS
  <2> QED BY <2>1, <2>2, <2>3 DEF RowType, Statuses
<1>2. row' \in [Rows -> RowType] BY <1>1 DEF Lock
<1>3. \A r \in Rows : excuses[r] \in Nat /\ excuses[r] + 1 \in Nat OBVIOUS
<1>4. excuses' \in [Rows -> Nat] BY <1>3 DEF Lock
<1> QED BY <1>2, <1>4

LEMMA TickType ==
  ASSUME row \in [Rows -> RowType], Tick
  PROVE  row' \in [Rows -> RowType]
<1>1. ASSUME NEW r \in Rows
      PROVE  [row[r] EXCEPT !.nextRetry = Greatest(@ - 1, MinRetry),
                            !.lease = Greatest(@ - 1, MinLease)] \in RowType
  <2>1. row[r] \in RowType OBVIOUS
  <2> DEFINE a == Greatest(row[r].nextRetry - 1, MinRetry)
             b == Greatest(row[r].lease - 1, MinLease)
  <2>2. a \in MinRetry..MaxRetry BY <2>1, Bounds DEF RowType, Greatest
  <2>3. b \in MinLease..LockDuration BY <2>1, Bounds DEF RowType, Greatest
  <2> HIDE DEF a, b
  <2>4. [row[r] EXCEPT !.nextRetry = a, !.lease = b] \in RowType
    BY <2>1, <2>2, <2>3 DEF RowType
  <2> QED BY <2>4 DEF a, b
<1> QED BY <1>1 DEF Tick

LEMMA DoneWithType ==
  ASSUME TypeOK, NEW w \in Workers, NEW r, DoneWith(w, r)
  PROVE  /\ todo' \in [Workers -> SUBSET Rows]
         /\ snap' \in [Workers -> [Rows -> Nat]]
         /\ cur' \in [Workers -> Rows \cup {NoRow}]
         /\ result' \in [Workers -> Results]
         /\ paused' \in [Workers -> BOOLEAN]
BY NoResultType DEF TypeOK, DoneWith

LEMMA SendReturnsType ==
  ASSUME TypeOK, NEW w \in Workers, NEW ok \in BOOLEAN,
         NEW after \in 0..MaxRetryAfter, SendReturns(w, ok, after)
  PROVE  /\ pc' \in [Workers -> {"poll", "send", "sending", "mark", "cooldown", "down"}]
         /\ result' \in [Workers -> Results]
         /\ timer' \in [Workers -> Nat]
<1> DEFINE u == [ok |-> ok, after |-> after]
<1>1. u \in Results BY DEF Results
<1> HIDE DEF u
<1>2. result' = [result EXCEPT ![w] = u] BY DEF SendReturns, u
<1> QED BY <1>1, <1>2 DEF SendReturns, Goto, TypeOK

LEMMA CountType ==
  ASSUME NEW f \in [Rows -> Nat], NEW r
  PROVE  [f EXCEPT ![r] = @ + 1] \in [Rows -> Nat]
<1>1. CASE r \in Rows BY <1>1
<1>2. CASE r \notin Rows
  <2>1. [f EXCEPT ![r] = @ + 1] = [q \in Rows |-> f[q]] BY <1>2
  <2> QED BY <2>1
<1> QED BY <1>1, <1>2

\* TypeOK: every step of the program keeps every variable in its domain.
LEMMA TypeStep == TypeOK /\ [Next]_vars => TypeOK'
<1> SUFFICES ASSUME TypeOK, [Next]_vars PROVE TypeOK'
  OBVIOUS
<1> USE DEF TypeOK
<1>1. CASE Tick
  <2>1. \A w \in Workers : Greatest(timer[w] - 1, 0) \in Nat BY DEF Greatest
  <2>2. timer' \in [Workers -> Nat] BY <1>1, <2>1 DEF Tick
  <2> QED BY <1>1, <2>2, TickType DEF Tick, historyVars
<1>2. ASSUME NEW w \in Workers, Step(w) \/ Trouble(w)
      PROVE  TypeOK'
  <2> USE DEF historyVars, workerVars, Goto, Fault, Count
  <2>1. CASE Claim(w)
    <3>0. PICK age \in 0..MaxClaimDelay : \E S \in Claimable(age) :
             /\ Lock(w, S, age)
             /\ todo' = [todo EXCEPT ![w] = S]
             /\ snap' = [snap EXCEPT ![w] = [r \in Rows |-> IF r \in S THEN row[r].retries
                                                                     ELSE 0]]
      BY <2>1 DEF Claim
    <3>1. PICK S \in Claimable(age) :
             /\ Lock(w, S, age)
             /\ todo' = [todo EXCEPT ![w] = S]
             /\ snap' = [snap EXCEPT ![w] = [r \in Rows |-> IF r \in S THEN row[r].retries
                                                                     ELSE 0]]
      BY <3>0
    <3>2. row' \in [Rows -> RowType] /\ excuses' \in [Rows -> Nat]
      BY <3>1, LockType
    <3>3. S \in SUBSET Rows BY DEF Claimable
    <3>4. [r \in Rows |-> IF r \in S THEN row[r].retries ELSE 0] \in [Rows -> Nat]
      BY DEF RowType
    <3>5. todo' \in [Workers -> SUBSET Rows] BY <3>1, <3>3
    <3>6. snap' \in [Workers -> [Rows -> Nat]] BY <3>1, <3>4
    <3> QED BY <2>1, <3>2, <3>5, <3>6 DEF Claim
  <2>2. CASE ClaimLost(w) BY <2>2, LockType DEF ClaimLost
  <2>3. CASE StartSend(w) BY <2>3 DEF StartSend
  <2>4. CASE SendOk(w)
    <3>1. SendReturns(w, TRUE, 0) BY <2>4 DEF SendOk
    <3>2. UNCHANGED <<row, todo, snap, cur, paused, failed, excuses, faults>>
      BY <2>4 DEF SendOk, SendReturns
    <3>3. delivered' \in [Rows -> Nat] BY <2>4, CountType DEF SendOk
    <3>4. 0 \in 0..MaxRetryAfter /\ FALSE \in BOOLEAN /\ TRUE \in BOOLEAN OBVIOUS
    <3>5. /\ pc' \in [Workers -> {"poll", "send", "sending", "mark", "cooldown", "down"}]
          /\ result' \in [Workers -> Results]
          /\ timer' \in [Workers -> Nat]
      BY <3>1, <3>4, SendReturnsType
    <3> QED BY <3>2, <3>3, <3>5
  <2>5. CASE SendErr(w)
    <3>1. PICK after \in 0..MaxRetryAfter : SendReturns(w, FALSE, after)
      BY <2>5 DEF SendErr
    <3>2. UNCHANGED <<row, todo, snap, cur, paused, delivered, excuses, faults>>
      BY <2>5 DEF SendErr, SendReturns
    <3>3. failed' \in [Rows -> Nat] BY <2>5, CountType DEF SendErr
    <3> QED BY <3>1, <3>2, <3>3, SendReturnsType
  <2>6. CASE SendLost(w)
    <3>1. SendReturns(w, FALSE, 0) BY <2>6 DEF SendLost
    <3>2. UNCHANGED <<row, todo, snap, cur, paused>>
      BY <2>6 DEF SendLost, SendReturns
    <3>3. /\ delivered' \in [Rows -> Nat]
          /\ failed' \in [Rows -> Nat]
          /\ excuses' \in [Rows -> Nat]
          /\ faults' \in 0..MaxFaults
      BY <2>6, CountType DEF SendLost
    <3>4. 0 \in 0..MaxRetryAfter /\ FALSE \in BOOLEAN /\ TRUE \in BOOLEAN OBVIOUS
    <3>5. /\ pc' \in [Workers -> {"poll", "send", "sending", "mark", "cooldown", "down"}]
          /\ result' \in [Workers -> Results]
          /\ timer' \in [Workers -> Nat]
      BY <3>1, <3>4, SendReturnsType
    <3> QED BY <3>2, <3>3, <3>5
  <2>7. CASE MarkSent(w)
    <3>1. row' \in [Rows -> RowType]
      <4> DEFINE r == cur[w]
                 u == Unlocked("sent", row[r].retries, row[r].nextRetry)
      <4>0. r \in Rows => row[r].retries \in Nat /\ row[r].nextRetry \in MinRetry..MaxRetry
        BY DEF RowType
      <4>1. r \in Rows => u \in RowType
        BY <4>0, UnlockedType, "sent" \in Statuses DEF Statuses
      <4> HIDE DEF u
      <4>2. row' = row \/ row' = [row EXCEPT ![r] = u]
        BY <2>7 DEF MarkSent, SetRow, u
      <4> QED BY <4>1, <4>2
    <3> QED BY <2>7, <3>1, DoneWithType DEF MarkSent, Next1
  <2>8. CASE MarkFailed(w)
    <3>1. row' \in [Rows -> RowType]
      <4> DEFINE r == cur[w]
                 n == snap[w][r] + 1
                 d == Greatest(RetryDelay(n), result[w].after + 1)
                 u == IF GivesUp(n) THEN Unlocked("dead", n, 0)
                                    ELSE Unlocked("failed", n, d)
      <4>0. r \in Rows => n \in Nat /\ d \in MinRetry..MaxRetry
        BY DelayType DEF Results
      <4>1. r \in Rows => u \in RowType
        <5> HIDE DEF n, d
        <5> QED BY <4>0, UnlockedType, Bounds DEF Statuses
      <4> HIDE DEF u
      <4>2. row' = row \/ row' = [row EXCEPT ![r] = u]
        BY <2>8 DEF MarkFailed, SetRow, u
      <4> QED BY <4>1, <4>2
    <3>2. pc' \in [Workers -> {"poll", "send", "sending", "mark", "cooldown", "down"}]
      BY <2>8 DEF MarkFailed, Next1
    <3>3. timer' \in [Workers -> Nat]
      <4>1. result[w].after + 1 \in Nat BY DEF Results
      <4> QED BY <2>8, <4>1 DEF MarkFailed
    <3>4. UNCHANGED <<historyVars, faults>> /\ DoneWith(w, cur[w])
      BY <2>8 DEF MarkFailed
    <3> QED BY <3>1, <3>2, <3>3, <3>4, DoneWithType
  <2>9. CASE MarkErr(w) BY <2>9, DoneWithType DEF MarkErr, Next1
  <2>10. CASE CooldownEnds(w) BY <2>10 DEF CooldownEnds
  <2>11. CASE Crash(w) BY <2>11, NoResultType DEF Crash
  <2>12. CASE Restart(w) BY <2>12 DEF Restart
  <2>13. CASE Pause(w) BY <2>13 DEF Pause
  <2> QED
    BY <1>2, <2>1, <2>2, <2>3, <2>4, <2>5, <2>6, <2>7, <2>8, <2>9, <2>10,
       <2>11, <2>12, <2>13 DEF Step, Trouble
<1>3. CASE UNCHANGED vars
  BY <1>3 DEF vars, workerVars, historyVars
<1> QED BY <1>1, <1>2, <1>3 DEF Next

\* The type invariant holds in every reachable state: a row is never put off by
\* more than the longest delay, nor locked for more than the lock duration.
THEOREM TypeCorrect == Spec => []TypeOK
<1>1. Init => TypeOK
  BY NoResultType, Bounds DEF Init, TypeOK, RowType, Statuses
<1> QED BY <1>1, TypeStep, PTL DEF Spec

-----------------------------------------------------------------------------
\* DeliveryInv: how many workers may still post a message is bounded by what was
\* claimed, and what was posted by what was taken over.

\* Counting workers.
LEMMA WorkersCount ==
  ASSUME NEW S \in SUBSET Workers
  PROVE  IsFiniteSet(S) /\ Cardinality(S) \in Nat
BY FS_Subset, FS_CardinalityType

LEMMA OneMoves ==
  ASSUME NEW S \in SUBSET Workers, NEW T \in SUBSET Workers, NEW w \in Workers,
         T \ {w} = S \ {w}
  PROVE  /\ Cardinality(S) \in Nat /\ Cardinality(T) \in Nat
         /\ Cardinality(T) <= Cardinality(S) + 1
         /\ (w \in T => w \in S) => Cardinality(T) <= Cardinality(S)
         /\ w \in S /\ w \notin T => Cardinality(T) = Cardinality(S) - 1
<1>1. IsFiniteSet(S) /\ Cardinality(S) \in Nat BY WorkersCount
<1>2. IsFiniteSet(T) /\ Cardinality(T) \in Nat BY WorkersCount
<1>3. Cardinality(T \ {w}) = IF w \in T THEN Cardinality(T) - 1 ELSE Cardinality(T)
  BY <1>2, FS_RemoveElement
<1>4. Cardinality(S \ {w}) = IF w \in S THEN Cardinality(S) - 1 ELSE Cardinality(S)
  BY <1>1, FS_RemoveElement
<1>5. Cardinality(T \ {w}) = Cardinality(S \ {w}) OBVIOUS
<1>6. CASE w \in S BY <1>1, <1>2, <1>3, <1>4, <1>5, <1>6
<1>7. CASE w \notin S BY <1>1, <1>2, <1>3, <1>4, <1>5, <1>7
<1> QED BY <1>6, <1>7

\* A step of worker w leaves the others where they are.
LEMMA Others ==
  ASSUME TypeOK, NEW w \in Workers, Step(w) \/ Trouble(w),
         NEW v \in Workers, v # w
  PROVE  /\ pc'[v] = pc[v] /\ todo'[v] = todo[v] /\ snap'[v] = snap[v]
         /\ cur'[v] = cur[v] /\ result'[v] = result[v]
         /\ timer'[v] = timer[v] /\ paused'[v] = paused[v]
<1> USE DEF TypeOK, Goto, workerVars
<1>1. CASE Claim(w) BY <1>1 DEF Claim
<1>2. CASE ClaimLost(w) BY <1>2 DEF ClaimLost
<1>3. CASE StartSend(w) BY <1>3 DEF StartSend
<1>4. CASE SendOk(w) BY <1>4 DEF SendOk, SendReturns
<1>5. CASE SendErr(w) BY <1>5 DEF SendErr, SendReturns
<1>6. CASE SendLost(w) BY <1>6 DEF SendLost, SendReturns
<1>7. CASE MarkSent(w) BY <1>7 DEF MarkSent, DoneWith
<1>8. CASE MarkFailed(w) BY <1>8 DEF MarkFailed, DoneWith
<1>9. CASE MarkErr(w) BY <1>9 DEF MarkErr, DoneWith
<1>10. CASE CooldownEnds(w) BY <1>10 DEF CooldownEnds
<1>11. CASE Crash(w) BY <1>11 DEF Crash
<1>12. CASE Restart(w) BY <1>12 DEF Restart
<1>13. CASE Pause(w) BY <1>13 DEF Pause
<1> QED
  BY <1>1, <1>2, <1>3, <1>4, <1>5, <1>6, <1>7, <1>8, <1>9, <1>10, <1>11,
     <1>12, <1>13 DEF Step, Trouble

\* What was posted and what failed is never taken back.
LEMMA CountGrows ==
  ASSUME NEW f \in [Rows -> Nat], NEW q, NEW r \in Rows
  PROVE  [f EXCEPT ![q] = @ + 1][r] >= f[r]
<1>1. CASE q \in Rows BY <1>1
<1>2. CASE q \notin Rows BY <1>2
<1> QED BY <1>1, <1>2

LEMMA HistoryGrows ==
  ASSUME TypeOK, [Next]_vars, NEW r \in Rows
  PROVE  failed'[r] >= failed[r] /\ delivered'[r] >= delivered[r]
<1> USE DEF TypeOK
<1>1. failed[r] >= failed[r] /\ delivered[r] >= delivered[r] OBVIOUS
<1>2. \/ UNCHANGED <<failed, delivered>>
      \/ \E w \in Workers : SendOk(w) \/ SendErr(w) \/ SendLost(w)
  BY DEF Next, Step, Trouble, Tick, Claim, ClaimLost, StartSend, MarkSent, MarkFailed,
         MarkErr, CooldownEnds, Crash, Restart, Pause, vars, historyVars
<1>3. ASSUME NEW w \in Workers, SendOk(w) \/ SendErr(w) \/ SendLost(w)
      PROVE  failed'[r] >= failed[r] /\ delivered'[r] >= delivered[r]
  BY <1>1, <1>3, CountGrows DEF SendOk, SendErr, SendLost, Count
<1> QED BY <1>1, <1>2, <1>3

\* A worker that a step leaves where it is, is as sound as it was.
LEMMA Unmoved ==
  ASSUME TypeOK, TypeOK', [Next]_vars,
         NEW v \in Workers, WorkerInv(v), CopyInv(v),
         pc'[v] = pc[v], todo'[v] = todo[v], snap'[v] = snap[v],
         cur'[v] = cur[v], result'[v] = result[v]
  PROVE  WorkerInv(v)' /\ CopyInv(v)'
<1>1. WorkerInv(v)' BY DEF WorkerInv
<1>2. ASSUME NEW r \in todo[v] PROVE snap'[v][r] <= failed'[r]
  <2>1. r \in Rows BY DEF TypeOK
  <2>2. snap[v][r] <= failed[r] /\ failed'[r] >= failed[r]
    BY <2>1, HistoryGrows DEF CopyInv
  <2>3. snap[v][r] \in Nat /\ failed[r] \in Nat /\ failed'[r] \in Nat
    BY <2>1 DEF TypeOK
  <2> QED BY <2>2, <2>3
<1>3. ASSUME pc[v] = "mark"
      PROVE  IF result[v].ok THEN delivered'[cur[v]] > 0
                             ELSE snap[v][cur[v]] < failed'[cur[v]]
  <2>1. cur[v] \in Rows BY <1>3 DEF TypeOK, WorkerInv
  <2> DEFINE r == cur[v]
  <2>2. IF result[v].ok THEN delivered[r] > 0 ELSE snap[v][r] < failed[r]
    BY <1>3 DEF CopyInv
  <2>3. failed'[r] >= failed[r] /\ delivered'[r] >= delivered[r]
    BY <2>1, HistoryGrows
  <2>4. /\ snap[v][r] \in Nat
        /\ failed[r] \in Nat /\ failed'[r] \in Nat
        /\ delivered[r] \in Nat /\ delivered'[r] \in Nat
    BY <2>1 DEF TypeOK
  <2> QED BY <2>2, <2>3, <2>4
<1> QED BY <1>1, <1>2, <1>3 DEF CopyInv

\* The same of the worker that takes the step.
LEMMA Moved ==
  ASSUME DeliveryInv, TypeOK', [Next]_vars, NEW w \in Workers, Step(w) \/ Trouble(w)
  PROVE  WorkerInv(w)' /\ CopyInv(w)'
<1> USE DEF TypeOK, Goto, workerVars, historyVars
<1>0. TypeOK /\ WorkerInv(w) /\ CopyInv(w) BY DEF DeliveryInv
<1>1. CASE Claim(w)
  <2>0. PICK age \in 0..MaxClaimDelay : \E S \in Claimable(age) :
           /\ Lock(w, S, age)
           /\ todo' = [todo EXCEPT ![w] = S]
           /\ snap' = [snap EXCEPT ![w] = [r \in Rows |-> IF r \in S THEN row[r].retries
                                                                   ELSE 0]]
    BY <1>1 DEF Claim
  <2>1. PICK S \in SUBSET Rows :
           /\ todo' = [todo EXCEPT ![w] = S]
           /\ snap' = [snap EXCEPT ![w] = [r \in Rows |-> IF r \in S THEN row[r].retries
                                                                   ELSE 0]]
    BY <2>0 DEF Claimable
  <2>2. ASSUME NEW r \in todo'[w] PROVE snap'[w][r] <= failed'[r]
    <3>1. r \in Rows /\ snap'[w][r] = row[r].retries /\ failed' = failed
      BY <1>0, <1>1, <2>1, <2>2 DEF Claim
    <3> QED BY <3>1 DEF DeliveryInv, RowInv
  <2>3. pc'[w] = "send" /\ UNCHANGED <<cur, result>> /\ pc[w] = "poll"
    BY <1>0, <1>1 DEF Claim
  <2> QED BY <1>0, <2>2, <2>3 DEF WorkerInv, CopyInv
<1>2. CASE ClaimLost(w) BY <1>0, <1>2, Unmoved DEF ClaimLost
<1>3. CASE StartSend(w)
  BY <1>0, <1>3 DEF StartSend, WorkerInv, CopyInv
<1>4. CASE SendOk(w)
  <2>1. /\ pc[w] = "sending" /\ cur[w] \in todo[w] /\ cur[w] \in Rows
        /\ pc'[w] = "mark" /\ result'[w].ok
        /\ UNCHANGED <<todo, snap, cur, failed>>
        /\ delivered'[cur[w]] = delivered[cur[w]] + 1
    BY <1>0, <1>4 DEF SendOk, SendReturns, WorkerInv, Count
  <2>2. delivered'[cur[w]] > 0 BY <1>0, <2>1
  <2> QED BY <1>0, <2>1, <2>2 DEF WorkerInv, CopyInv
<1>5. CASE SendErr(w) \/ SendLost(w)
  <2>1. /\ pc[w] = "sending" /\ cur[w] \in todo[w] /\ cur[w] \in Rows
        /\ pc'[w] = "mark" /\ ~result'[w].ok
        /\ UNCHANGED <<todo, snap, cur>>
        /\ failed'[cur[w]] = failed[cur[w]] + 1
    BY <1>0, <1>5 DEF SendErr, SendLost, SendReturns, WorkerInv, Count
  <2>2. ASSUME NEW r \in todo[w] PROVE snap[w][r] <= failed'[r]
    <3>1. r \in Rows BY <1>0
    <3>2. snap[w][r] <= failed[r] /\ failed'[r] >= failed[r]
      BY <1>0, <3>1, HistoryGrows DEF CopyInv
    <3>3. snap[w][r] \in Nat /\ failed[r] \in Nat /\ failed'[r] \in Nat
      BY <1>0, <3>1
    <3> QED BY <3>2, <3>3
  <2>3. snap[w][cur[w]] < failed'[cur[w]]
    <3>1. snap[w][cur[w]] <= failed[cur[w]] BY <1>0, <2>1 DEF CopyInv
    <3>2. snap[w][cur[w]] \in Nat /\ failed[cur[w]] \in Nat BY <1>0, <2>1
    <3> QED BY <2>1, <3>1, <3>2
  <2> QED BY <1>0, <2>1, <2>2, <2>3 DEF WorkerInv, CopyInv
<1>6. CASE MarkSent(w) \/ MarkFailed(w) \/ MarkErr(w)
  <2>1. /\ todo'[w] = todo[w] \ {cur[w]} /\ cur'[w] = NoRow /\ ~result'[w].ok
        /\ \A r \in todo'[w] : snap'[w][r] = snap[w][r]
        /\ UNCHANGED failed
    BY <1>0, <1>6 DEF MarkSent, MarkFailed, MarkErr, DoneWith, NoResult
  <2>2. pc'[w] \in {"poll", "send", "cooldown"}
    BY <1>0, <1>6 DEF MarkSent, MarkFailed, MarkErr, Next1
  <2>3. pc'[w] = "poll" => todo'[w] = {}
    BY <1>0, <1>6, <2>1 DEF MarkSent, MarkFailed, MarkErr, Next1
  <2>4. \A r \in todo'[w] : snap'[w][r] <= failed'[r]
    BY <1>0, <2>1 DEF CopyInv
  <2> QED BY <2>1, <2>2, <2>3, <2>4 DEF WorkerInv, CopyInv
<1>7. CASE CooldownEnds(w)
  BY <1>0, <1>7 DEF CooldownEnds, WorkerInv, CopyInv
<1>8. CASE Crash(w)
  BY <1>0, <1>8 DEF Crash, WorkerInv, CopyInv, NoResult
<1>9. CASE Restart(w)
  BY <1>0, <1>9 DEF Restart, WorkerInv, CopyInv
<1>10. CASE Pause(w) BY <1>0, <1>10, Unmoved DEF Pause
<1> QED
  BY <1>1, <1>2, <1>3, <1>4, <1>5, <1>6, <1>7, <1>8, <1>9, <1>10
     DEF Step, Trouble

\* Every step keeps all workers sound.
LEMMA WorkersStep ==
  ASSUME DeliveryInv, TypeOK', [Next]_vars
  PROVE  \A w \in Workers : WorkerInv(w)' /\ CopyInv(w)'
<1> SUFFICES ASSUME NEW v \in Workers PROVE WorkerInv(v)' /\ CopyInv(v)'
  OBVIOUS
<1>0. TypeOK /\ WorkerInv(v) /\ CopyInv(v) BY DEF DeliveryInv
<1>1. CASE Tick BY <1>0, <1>1, Unmoved DEF Tick
<1>2. ASSUME NEW w \in Workers, Step(w) \/ Trouble(w)
      PROVE  WorkerInv(v)' /\ CopyInv(v)'
  <2>1. CASE v = w BY <1>2, <2>1, Moved
  <2>2. CASE v # w BY <1>0, <1>2, <2>2, Others, Unmoved
  <2> QED BY <2>1, <2>2
<1>3. CASE UNCHANGED vars BY <1>0, <1>3, Unmoved DEF vars, workerVars
<1> QED BY <1>1, <1>2, <1>3 DEF Next

\* Only worker w itself may join or leave those who may still post a message.
LEMMA LiveMoves ==
  ASSUME TypeOK, NEW w \in Workers, Step(w) \/ Trouble(w), NEW r \in Rows
  PROVE  /\ Cardinality(Live(r)) \in Nat /\ Cardinality(Live(r)') \in Nat
         /\ Cardinality(Live(r)') <= Cardinality(Live(r)) + 1
         /\ (w \in Live(r)' => w \in Live(r))
               => Cardinality(Live(r)') <= Cardinality(Live(r))
         /\ w \in Live(r) /\ w \notin Live(r)'
               => Cardinality(Live(r)') = Cardinality(Live(r)) - 1
<1>1. Live(r) \in SUBSET Workers /\ Live(r)' \in SUBSET Workers BY DEF Live
<1>2. Live(r)' \ {w} = Live(r) \ {w} BY Others DEF Live
<1> QED BY <1>1, <1>2, OneMoves

\* What a claim does to a row keeps the row sound.
LEMMA LockKeepsRow ==
  ASSUME DeliveryInv, TypeOK', NEW w \in Workers, NEW age \in 0..MaxClaimDelay,
         NEW S \in Claimable(age), Lock(w, S, age), UNCHANGED <<delivered, failed>>,
         NEW r \in Rows,
         Cardinality(Live(r)') \in Nat, Cardinality(Live(r)) \in Nat,
         Cardinality(Live(r)') <= Cardinality(Live(r)) + (IF r \in S THEN 1 ELSE 0)
  PROVE  RowInv(r)'
<1>0. TypeOK /\ RowInv(r) BY DEF DeliveryInv
<1>n. excuses[r] \in Nat /\ delivered[r] \in Nat BY <1>0 DEF TypeOK
<1>1. CASE r \in S
  <2>1. Due(r, age) BY <1>1 DEF Claimable
  <2>2. /\ row'[r].status = "processing"
        /\ row'[r].retries = row[r].retries
    <3>1. row[r] \in RowType BY <1>0 DEF TypeOK
    <3>2. row'[r] = [row[r] EXCEPT !.status = "processing",
                                   !.lockedBy = WorkerID[w],
                                   !.lease = LockDuration - age]
      BY <1>1 DEF Lock
    <3> QED BY <3>1, <3>2 DEF RowType
  <2>3. delivered'[r] + Cardinality(Live(r)') <= excuses'[r] + 1
    <3>1. CASE row[r].status \in {"pending", "failed"}
      <4>1. excuses'[r] = excuses[r] BY <1>1, <3>1 DEF Lock
      <4>2. delivered[r] + Cardinality(Live(r)) <= excuses[r] + 0
        BY <1>0, <3>1 DEF RowInv
      <4> QED BY <1>n, <1>1, <4>1, <4>2
    <3>2. CASE row[r].status = "processing" /\ Expired(r, age)
      <4>1. excuses'[r] = excuses[r] + 1 BY <1>1, <3>2 DEF Lock
      <4>2. delivered[r] + Cardinality(Live(r)) <= excuses[r] + 1
        BY <1>0, <3>2 DEF RowInv
      <4> QED BY <1>n, <1>1, <4>1, <4>2
    <3> QED BY <2>1, <3>1, <3>2 DEF Due
  <2> QED BY <1>0, <2>2, <2>3 DEF RowInv
<1>2. CASE r \notin S
  <2>1. row'[r] = row[r] /\ excuses'[r] = excuses[r] BY <1>2 DEF Lock
  <2>2. Cardinality(Live(r)') <= Cardinality(Live(r)) BY <1>2
  <2>3. delivered'[r] + Cardinality(Live(r)')
           <= excuses'[r] + (IF row'[r].status \in {"processing", "sent"} THEN 1 ELSE 0)
    BY <1>0, <1>n, <2>1, <2>2 DEF RowInv
  <2> QED BY <1>0, <2>1, <2>3 DEF RowInv
<1> QED BY <1>1, <1>2

\* So does a step that leaves the row as it is, but for its times.
LEMMA RowRests ==
  ASSUME DeliveryInv, TypeOK', [Next]_vars, NEW r \in Rows,
         row'[r].status = row[r].status, row'[r].retries = row[r].retries,
         row'[r].lockedBy = row[r].lockedBy,
         Cardinality(Live(r)') \in Nat, Cardinality(Live(r)) \in Nat,
         delivered'[r] + Cardinality(Live(r)') - excuses'[r]
            <= delivered[r] + Cardinality(Live(r)) - excuses[r]
  PROVE  RowInv(r)'
<1>0. TypeOK /\ RowInv(r) BY DEF DeliveryInv
<1>1. /\ failed'[r] >= failed[r] /\ delivered'[r] >= delivered[r]
  BY <1>0, HistoryGrows
<1>2. /\ failed[r] \in Nat /\ failed'[r] \in Nat /\ row[r].retries \in Nat
      /\ delivered[r] \in Nat /\ delivered'[r] \in Nat
      /\ excuses[r] \in Nat /\ excuses'[r] \in Nat
  BY <1>0 DEF TypeOK, RowType
<1>3. row[r].retries <= failed'[r] BY <1>0, <1>1, <1>2 DEF RowInv
<1>4. row[r].status = "sent" => delivered'[r] > 0 BY <1>0, <1>1, <1>2 DEF RowInv
<1>5. delivered'[r] + Cardinality(Live(r)')
         <= excuses'[r] + (IF row[r].status \in {"processing", "sent"} THEN 1 ELSE 0)
  BY <1>0, <1>2 DEF RowInv
<1> QED BY <1>0, <1>3, <1>4, <1>5 DEF RowInv

\* Every step of a worker keeps all rows sound.
LEMMA RowsStep ==
  ASSUME DeliveryInv, TypeOK', NEW w \in Workers, Step(w) \/ Trouble(w), NEW r \in Rows
  PROVE  RowInv(r)'
<1> DEFINE n == Cardinality(Live(r))
<1>0. TypeOK /\ WorkerInv(w) /\ CopyInv(w) /\ RowInv(r) BY DEF DeliveryInv
<1>n. [Next]_vars BY DEF Next
<1>l. /\ n \in Nat /\ n' \in Nat
      /\ n' <= n + 1
      /\ (w \in Live(r)' => w \in Live(r)) => n' <= n
      /\ w \in Live(r) /\ w \notin Live(r)' => n' = n - 1
  BY <1>0, LiveMoves
<1>t. /\ delivered[r] \in Nat /\ excuses[r] \in Nat /\ failed[r] \in Nat
      /\ delivered'[r] \in Nat /\ excuses'[r] \in Nat /\ failed'[r] \in Nat
  BY <1>0 DEF TypeOK
<1>1. CASE Claim(w)
  <2>1. PICK age \in 0..MaxClaimDelay : \E S \in Claimable(age) :
           Lock(w, S, age) /\ todo' = [todo EXCEPT ![w] = S]
    BY <1>1 DEF Claim
  <2>2. PICK S \in Claimable(age) : Lock(w, S, age) /\ todo' = [todo EXCEPT ![w] = S]
    BY <2>1
  <2>3. UNCHANGED <<delivered, failed>> BY <1>1 DEF Claim
  <2>4. r \notin S => w \notin Live(r)'
    BY <1>0, <2>2 DEF Live, TypeOK
  <2>5. n' <= n + (IF r \in S THEN 1 ELSE 0) BY <1>l, <2>4
  <2> QED BY <1>l, <2>2, <2>3, <2>5, LockKeepsRow
<1>2. CASE ClaimLost(w)
  <2>1. PICK age \in 0..MaxClaimDelay : \E S \in Claimable(age) : Lock(w, S, age)
    BY <1>2 DEF ClaimLost
  <2>2. PICK S \in Claimable(age) : Lock(w, S, age) BY <2>1
  <2>3. UNCHANGED <<delivered, failed>> BY <1>2 DEF ClaimLost
  <2>4. n' = n BY <1>2 DEF ClaimLost, workerVars, Live
  <2>5. n' <= n + (IF r \in S THEN 1 ELSE 0) BY <1>l, <2>4
  <2> QED BY <1>l, <2>2, <2>3, <2>5, LockKeepsRow
<1>3. CASE StartSend(w)
  <2>1. w \in Live(r)' => w \in Live(r)
    BY <1>0, <1>3 DEF StartSend, Live, WorkerInv
  <2> QED BY <1>l, <1>n, <1>t, <1>3, <2>1, RowRests DEF StartSend, historyVars
<1>4. CASE SendOk(w)
  <2>1. pc[w] = "sending" /\ UNCHANGED <<row, todo, cur, excuses>> /\ result'[w].ok
    BY <1>0, <1>4 DEF SendOk, SendReturns, TypeOK
  <2>2. CASE r = cur[w]
    <3>1. w \in Live(r) /\ w \notin Live(r)'
      BY <1>0, <2>1, <2>2 DEF Live, WorkerInv
    <3>2. delivered'[r] = delivered[r] + 1
      BY <1>0, <1>4, <2>2 DEF SendOk, Count, TypeOK
    <3> QED BY <1>l, <1>n, <1>t, <2>1, <3>1, <3>2, RowRests
  <2>3. CASE r # cur[w]
    <3>1. w \in Live(r)' => w \in Live(r) BY <2>1, <2>3 DEF Live
    <3>2. delivered'[r] = delivered[r]
      BY <1>0, <1>4, <2>3 DEF SendOk, Count, TypeOK
    <3> QED BY <1>l, <1>n, <1>t, <2>1, <3>1, <3>2, RowRests
  <2> QED BY <2>2, <2>3
<1>5. CASE SendErr(w) \/ SendLost(w)
  <2>1. /\ pc[w] = "sending" /\ UNCHANGED <<row, todo, cur>>
    BY <1>5 DEF SendErr, SendLost, SendReturns
  <2>2. w \in Live(r)' => w \in Live(r)
    BY <1>0, <2>1 DEF Live, WorkerInv
  <2>3. delivered'[r] - excuses'[r] = delivered[r] - excuses[r]
    <3>1. CASE SendErr(w) BY <3>1 DEF SendErr
    <3>2. CASE SendLost(w) /\ r = cur[w]
      BY <1>0, <1>t, <3>2 DEF SendLost, Count, TypeOK
    <3>3. CASE SendLost(w) /\ r # cur[w]
      BY <1>0, <3>3 DEF SendLost, Count, TypeOK
    <3> QED BY <1>5, <3>1, <3>2, <3>3
  <2> QED BY <1>l, <1>n, <1>t, <2>1, <2>2, <2>3, RowRests
<1>6. CASE MarkSent(w)
  <2>1. /\ pc[w] = "mark" /\ result[w].ok /\ UNCHANGED historyVars
        /\ todo'[w] = todo[w] \ {cur[w]} /\ cur'[w] = NoRow
    BY <1>0, <1>6 DEF MarkSent, DoneWith, TypeOK
  <2>2. w \in Live(r)' => w \in Live(r) BY <1>0, <2>1 DEF Live
  <2>3. CASE r = cur[w] /\ Owns(w, r)
    <3>1. row'[r] = Unlocked("sent", row[r].retries, row[r].nextRetry)
      BY <1>0, <1>6, <2>3 DEF MarkSent, SetRow, TypeOK
    <3>2. row[r].status = "processing" BY <1>0, <2>3 DEF Owns, RowInv
    <3>3. delivered[r] > 0 BY <1>0, <2>1, <2>3 DEF CopyInv
    <3>4. delivered'[r] + n' <= excuses'[r] + 1
      BY <1>0, <1>l, <1>t, <2>1, <2>2, <3>2 DEF RowInv, historyVars
    <3> QED BY <1>0, <2>1, <3>1, <3>3, <3>4 DEF RowInv, Unlocked, historyVars
  <2>4. CASE ~(r = cur[w] /\ Owns(w, r))
    <3>1. row'[r] = row[r] BY <1>0, <1>6, <2>4 DEF MarkSent, SetRow, TypeOK
    <3> QED BY <1>l, <1>n, <1>t, <2>1, <2>2, <3>1, RowRests DEF historyVars
  <2> QED BY <2>3, <2>4
<1>7. CASE MarkFailed(w)
  <2> DEFINE k == snap[w][r] + 1
  <2>1. /\ pc[w] = "mark" /\ ~result[w].ok /\ UNCHANGED historyVars
        /\ todo'[w] = todo[w] \ {cur[w]} /\ cur'[w] = NoRow
    BY <1>0, <1>7 DEF MarkFailed, DoneWith, TypeOK
  <2>2. w \in Live(r)' => w \in Live(r) BY <1>0, <2>1 DEF Live
  <2>3. CASE r = cur[w] /\ Owns(w, r)
    <3>1. \/ GivesUp(k) /\ row'[r] = Unlocked("dead", k, 0)
          \/ \E d : row'[r] = Unlocked("failed", k, d)
      BY <1>0, <1>7, <2>3 DEF MarkFailed, SetRow, TypeOK
    <3>2. row[r].status = "processing" BY <1>0, <2>3 DEF Owns, RowInv
    <3>3. k <= failed[r]
      <4>1. snap[w][r] < failed[r] /\ snap[w][r] \in Nat
        BY <1>0, <2>1, <2>3 DEF CopyInv, TypeOK
      <4> QED BY <1>t, <4>1
    <3>4. w \in Live(r) /\ w \notin Live(r)'
      BY <1>0, <2>1, <2>3 DEF Live, WorkerInv
    <3>5. delivered'[r] + n' <= excuses'[r]
      BY <1>0, <1>l, <1>t, <2>1, <3>2, <3>4 DEF RowInv, historyVars
    <3>6. /\ row'[r].retries = k /\ row'[r].lockedBy = NoID
          /\ row'[r].status \in {"dead", "failed"}
          /\ row'[r].status = "dead" => k >= MaxRetries
      <4>1. \A s, m, d : /\ Unlocked(s, m, d).status = s
                         /\ Unlocked(s, m, d).retries = m
                         /\ Unlocked(s, m, d).lockedBy = NoID
        BY DEF Unlocked
      <4>2. CASE GivesUp(k) /\ row'[r] = Unlocked("dead", k, 0)
        BY <4>1, <4>2 DEF GivesUp
      <4>3. CASE \E d : row'[r] = Unlocked("failed", k, d)
        BY <4>1, <4>3
      <4> QED BY <3>1, <4>2, <4>3
    <3> QED BY <1>t, <2>1, <3>3, <3>5, <3>6 DEF RowInv, historyVars
  <2>4. CASE ~(r = cur[w] /\ Owns(w, r))
    <3>1. row'[r] = row[r] BY <1>0, <1>7, <2>4 DEF MarkFailed, SetRow, TypeOK
    <3> QED BY <1>l, <1>n, <1>t, <2>1, <2>2, <3>1, RowRests DEF historyVars
  <2> QED BY <2>3, <2>4
<1>8. CASE MarkErr(w) \/ Crash(w)
  <2>1. /\ UNCHANGED <<row, historyVars>>
        /\ todo'[w] \in SUBSET todo[w]
        /\ w \in Live(r)' => w \in Live(r)
    BY <1>0, <1>8 DEF MarkErr, Crash, DoneWith, Live, TypeOK
  <2> QED BY <1>l, <1>n, <1>t, <2>1, RowRests DEF historyVars
<1>9. CASE CooldownEnds(w) \/ Restart(w) \/ Pause(w)
  <2>1. UNCHANGED <<row, historyVars, todo, cur, result>>
    BY <1>9 DEF CooldownEnds, Restart, Pause
  <2>2. n' = n BY <2>1 DEF Live
  <2> QED BY <1>l, <1>n, <1>t, <2>1, <2>2, RowRests DEF historyVars
<1> QED
  BY <1>1, <1>2, <1>3, <1>4, <1>5, <1>6, <1>7, <1>8, <1>9 DEF Step, Trouble

\* Time passing leaves what DeliveryInv says of the rows alone.
LEMMA TickRows ==
  ASSUME DeliveryInv, TypeOK', Tick, NEW r \in Rows
  PROVE  RowInv(r)'
<1>0. TypeOK BY DEF DeliveryInv
<1>1. /\ UNCHANGED <<historyVars, todo, cur, result>>
      /\ row'[r].status = row[r].status /\ row'[r].retries = row[r].retries
      /\ row'[r].lockedBy = row[r].lockedBy
  <2>1. row[r] \in RowType BY <1>0 DEF TypeOK
  <2>2. row'[r] = [row[r] EXCEPT !.nextRetry = Greatest(@ - 1, MinRetry),
                                 !.lease = Greatest(@ - 1, MinLease)]
    BY DEF Tick
  <2> QED BY <2>1, <2>2 DEF Tick, RowType
<1>2. Live(r)' = Live(r) BY <1>1 DEF Live
<1>3. Live(r) \in SUBSET Workers BY DEF Live
<1>4. Cardinality(Live(r)) \in Nat BY <1>3, WorkersCount
<1>5. delivered[r] \in Nat /\ excuses[r] \in Nat BY <1>0 DEF TypeOK
<1>6. [Next]_vars BY DEF Next
<1> QED BY <1>1, <1>2, <1>4, <1>5, <1>6, RowRests DEF historyVars

\* DeliveryInv is inductive.
LEMMA DeliveryStep == DeliveryInv /\ [Next]_vars => DeliveryInv'
<1> SUFFICES ASSUME DeliveryInv, [Next]_vars PROVE DeliveryInv'
  OBVIOUS
<1>1. TypeOK' BY TypeStep DEF DeliveryInv
<1>2. \A w \in Workers : WorkerInv(w)' /\ CopyInv(w)' BY <1>1, WorkersStep
<1>3. ASSUME NEW r \in Rows PROVE RowInv(r)'
  <2>1. CASE Tick BY <1>1, <2>1, TickRows
  <2>2. CASE \E w \in Workers : Step(w) \/ Trouble(w) BY <1>1, <2>2, RowsStep
  <2>3. CASE UNCHANGED vars
    BY <2>3 DEF vars, workerVars, historyVars, DeliveryInv, RowInv, Live
  <2> QED BY <2>1, <2>2, <2>3 DEF Next
<1> QED BY <1>1, <1>2, <1>3 DEF DeliveryInv

\* In every reachable state workers hold what they should, their copies of rows
\* stand for failed sends, and posts and posters of a message are accounted for.
THEOREM Invariance == Spec => []DeliveryInv
<1>1. Init => DeliveryInv
  <2> SUFFICES ASSUME Init PROVE DeliveryInv
    OBVIOUS
  <2>1. TypeOK
    BY NoResultType, Bounds DEF Init, TypeOK, RowType, Statuses
  <2>2. \A w \in Workers : WorkerInv(w) /\ CopyInv(w)
    BY DEF Init, WorkerInv, CopyInv, NoResult
  <2>3. ASSUME NEW r \in Rows PROVE RowInv(r)
    <3>1. Live(r) = {} BY DEF Init, Live
    <3>2. Cardinality(Live(r)) = 0 BY <3>1, FS_EmptySet
    <3>3. /\ row[r].status = "pending" /\ row[r].retries = 0 /\ row[r].lockedBy = NoID
          /\ delivered[r] = 0 /\ failed[r] = 0 /\ excuses[r] = 0
      BY DEF Init
    <3> QED BY <3>2, <3>3 DEF RowInv
  <2> QED BY <2>1, <2>2, <2>3 DEF DeliveryInv
<1> QED BY <1>1, DeliveryStep, PTL DEF Spec

\* Telegram posts the message of a row once, and once more only for a lease that
\* ran out or an answer that was lost.
THEOREM DuplicatesExplainedHolds == Spec => []DuplicatesExplained
<1>1. DeliveryInv => DuplicatesExplained
  <2> SUFFICES ASSUME DeliveryInv, NEW r \in Rows PROVE delivered[r] <= 1 + excuses[r]
    BY DEF DuplicatesExplained
  <2>1. Live(r) \in SUBSET Workers BY DEF Live
  <2>2. Cardinality(Live(r)) \in Nat BY <2>1, WorkersCount
  <2>3. delivered[r] \in Nat /\ excuses[r] \in Nat BY DEF DeliveryInv, TypeOK
  <2>4. RowInv(r) BY DEF DeliveryInv
  <2> QED BY <2>2, <2>3, <2>4 DEF RowInv
<1> QED BY <1>1, Invariance, PTL

\* A row is marked sent only when its message was posted, and given up only after
\* as many failed sends as it has retries.
THEOREM SettledForCauseHolds == Spec => []SettledForCause
<1>1. DeliveryInv => SettledForCause
  <2> SUFFICES ASSUME DeliveryInv, NEW r \in Rows
               PROVE  /\ row[r].status = "sent" => delivered[r] > 0
                      /\ row[r].status = "dead" => failed[r] >= MaxRetries
    BY DEF SettledForCause
  <2>1. RowInv(r) BY DEF DeliveryInv
  <2>2. failed[r] \in Nat /\ row[r].retries \in Nat
    BY DEF DeliveryInv, TypeOK, RowType
  <2> QED BY <2>1, <2>2 DEF RowInv
<1> QED BY <1>1, Invariance, PTL

-----------------------------------------------------------------------------
\* What settles a row settles it for good, and the workers implement Delivery.

\* How the status of a row changes: a claim takes it when it is due, and the mark
\* of its owner takes it from processing.
LEMMA StatusMoves ==
  ASSUME DeliveryInv, NEW w \in Workers, Step(w) \/ Trouble(w), NEW r \in Rows
  PROVE  \/ row'[r].status = row[r].status
         \/ /\ Claim(w) \/ ClaimLost(w)
            /\ row[r].status \in {"pending", "failed", "processing"}
            /\ row'[r].status = "processing"
         \/ /\ MarkSent(w) \/ MarkFailed(w)
            /\ r = cur[w]
            /\ row[r].status = "processing"
            /\ row'[r].status \in {"sent", "failed", "dead"}
<1>0. TypeOK /\ RowInv(r) /\ row[r] \in RowType BY DEF DeliveryInv, TypeOK
<1>1. CASE Claim(w) \/ ClaimLost(w)
  <2>1. PICK age \in 0..MaxClaimDelay : \E S \in Claimable(age) : Lock(w, S, age)
    BY <1>1 DEF Claim, ClaimLost
  <2>2. PICK S \in Claimable(age) : Lock(w, S, age) BY <2>1
  <2>3. CASE r \in S
    <3>1. row[r].status \in {"pending", "failed", "processing"}
      BY <2>3 DEF Claimable, Due
    <3>2. row'[r] = [row[r] EXCEPT !.status = "processing",
                                   !.lockedBy = WorkerID[w],
                                   !.lease = LockDuration - age]
      BY <2>2, <2>3 DEF Lock
    <3> QED BY <1>0, <1>1, <3>1, <3>2 DEF RowType
  <2>4. CASE r \notin S BY <2>2, <2>4 DEF Lock
  <2> QED BY <2>3, <2>4
<1>2. CASE MarkSent(w) \/ MarkFailed(w)
  <2>1. CASE r = cur[w] /\ Owns(w, r)
    <3>1. row[r].status = "processing" BY <1>0, <2>1 DEF Owns, RowInv
    <3>2. \E s \in {"sent", "failed", "dead"} : \E k, d : row'[r] = Unlocked(s, k, d)
      BY <1>0, <1>2, <2>1 DEF MarkSent, MarkFailed, SetRow, TypeOK
    <3> QED BY <1>2, <2>1, <3>1, <3>2 DEF Unlocked
  <2>2. CASE ~(r = cur[w] /\ Owns(w, r))
    <3>1. row'[r] = row[r]
      BY <1>0, <1>2, <2>2 DEF MarkSent, MarkFailed, SetRow, TypeOK
    <3> QED BY <3>1
  <2> QED BY <2>1, <2>2
<1>3. CASE UNCHANGED row BY <1>3
<1> QED
  BY <1>1, <1>2, <1>3
     DEF Step, Trouble, StartSend, SendOk, SendErr, SendLost, SendReturns, MarkErr,
         CooldownEnds, Crash, Restart, Pause

LEMMA TickStatus ==
  ASSUME TypeOK, Tick, NEW r \in Rows
  PROVE  row'[r].status = row[r].status
<1>1. row[r] \in RowType BY DEF TypeOK
<1>2. row'[r] = [row[r] EXCEPT !.nextRetry = Greatest(@ - 1, MinRetry),
                               !.lease = Greatest(@ - 1, MinLease)]
  BY DEF Tick
<1> QED BY <1>1, <1>2 DEF RowType

\* A row that is sent or given up stays so, whatever a worker that comes late does.
THEOREM SettledForGoodHolds == Spec => SettledForGood
<1>1. ASSUME DeliveryInv, [Next]_vars, NEW r \in Rows, row[r].status \in {"sent", "dead"}
      PROVE  row'[r].status = row[r].status
  <2>1. CASE Tick BY <1>1, <2>1, TickStatus DEF DeliveryInv
  <2>2. ASSUME NEW w \in Workers, Step(w) \/ Trouble(w)
        PROVE  row'[r].status = row[r].status
    BY <1>1, <2>2, StatusMoves
  <2>3. CASE UNCHANGED vars BY <2>3 DEF vars
  <2> QED BY <1>1, <2>1, <2>2, <2>3 DEF Next
<1>2. DeliveryInv /\ [Next]_vars
         => [\A r \in Rows : row[r].status \in {"sent", "dead"}
                                => row'[r].status = row[r].status]_vars
  BY <1>1
<1> QED BY <1>2, Invariance, PTL DEF Spec, SettledForGood

\* What the outbox shows of a row to one who only asks whether it is settled.
Shown == [r \in Rows |-> IF row[r].status \in {"sent", "dead"} THEN row[r].status
                                                               ELSE "open"]

\* A worker that sends may post: there is an excuse for every earlier post, and
\* one at least when the row is settled.
LEMMA SenderMayPost ==
  ASSUME DeliveryInv, NEW w \in Workers, pc[w] = "sending"
  PROVE  /\ cur[w] \in Rows
         /\ delivered[cur[w]] <= excuses[cur[w]]
         /\ Shown[cur[w]] = "open" \/ excuses[cur[w]] > 0
<1> DEFINE r == cur[w]
           n == Cardinality(Live(r))
<1>1. TypeOK /\ WorkerInv(w) BY DEF DeliveryInv
<1>2. r \in Rows BY <1>1 DEF WorkerInv, TypeOK
<1>3. RowInv(r) BY <1>2 DEF DeliveryInv
<1>4. Live(r) \in SUBSET Workers /\ w \in Live(r) BY <1>1 DEF Live, WorkerInv
<1>5. n \in Nat /\ n >= 1
  <2>1. Cardinality(Live(r) \ {w}) = n - 1 BY <1>4, WorkersCount, FS_RemoveElement
  <2>2. Cardinality(Live(r) \ {w}) \in Nat BY <1>4, WorkersCount
  <2>3. n \in Nat BY <1>4, WorkersCount
  <2> QED BY <2>1, <2>2, <2>3
<1>6. delivered[r] \in Nat /\ excuses[r] \in Nat BY <1>1, <1>2 DEF TypeOK
<1> HIDE DEF n
<1>7. delivered[r] + n
         <= excuses[r] + (IF row[r].status \in {"processing", "sent"} THEN 1 ELSE 0)
  BY <1>3 DEF RowInv, n
<1>8. delivered[r] <= excuses[r] BY <1>5, <1>6, <1>7
<1>9. row[r].status = "sent" => excuses[r] > 0
  BY <1>3, <1>5, <1>6, <1>7 DEF RowInv
<1>10. row[r].status = "dead" => excuses[r] > 0
  BY <1>5, <1>6, <1>7
<1> QED BY <1>2, <1>8, <1>9, <1>10 DEF Shown

\* A step of a worker is a step of Delivery, or changes nothing that shows there.
LEMMA WorkerRefines ==
  ASSUME DeliveryInv, DeliveryInv', NEW w \in Workers, Step(w) \/ Trouble(w)
  PROVE  Promise!Next \/ UNCHANGED <<Shown, delivered, failed, excuses>>
<1>0. TypeOK /\ TypeOK' BY DEF DeliveryInv
<1>1. CASE Claim(w) \/ ClaimLost(w)
  <2>1. PICK age \in 0..MaxClaimDelay : \E S \in Claimable(age) : Lock(w, S, age)
    BY <1>1 DEF Claim, ClaimLost
  <2>2. PICK S \in Claimable(age) : Lock(w, S, age) BY <2>1
  <2>3. UNCHANGED Shown
    <3>1. ASSUME NEW r \in Rows PROVE Shown'[r] = Shown[r]
      BY <1>1, StatusMoves DEF Shown, Claim, ClaimLost, MarkSent, MarkFailed
    <3> QED BY <3>1 DEF Shown
  <2>4. UNCHANGED <<delivered, failed>> BY <1>1 DEF Claim, ClaimLost
  <2>5. ASSUME NEW r \in Rows
        PROVE  \/ excuses'[r] = excuses[r]
               \/ Shown[r] = "open" /\ excuses'[r] = excuses[r] + 1
    BY <2>2 DEF Lock, Shown
  <2>6. excuses' = [r \in Rows |-> excuses'[r]] BY <1>0 DEF TypeOK
  <2>7. Promise!TakeOver
    BY <2>3, <2>4, <2>5, <2>6 DEF Promise!TakeOver, Shown
  <2> QED BY <2>7 DEF Promise!Next
<1>2. CASE SendOk(w) \/ SendErr(w) \/ SendLost(w)
  <2>1. /\ pc[w] = "sending" /\ UNCHANGED row
    BY <1>2 DEF SendOk, SendErr, SendLost, SendReturns
  <2>2. UNCHANGED Shown BY <2>1 DEF Shown
  <2>3. /\ cur[w] \in Rows
        /\ delivered[cur[w]] <= excuses[cur[w]]
        /\ Shown[cur[w]] = "open" \/ excuses[cur[w]] > 0
    BY <2>1, SenderMayPost
  <2>4. CASE SendOk(w)
    <3>1. Promise!Post(cur[w])
      BY <2>2, <2>3, <2>4 DEF SendOk, Count, Promise!Post, Promise!MayPost, Shown
    <3> QED BY <2>3, <3>1 DEF Promise!Next
  <2>5. CASE SendErr(w)
    <3>1. Promise!Fail(cur[w])
      BY <2>2, <2>5 DEF SendErr, Count, Promise!Fail, Shown
    <3> QED BY <2>3, <3>1 DEF Promise!Next
  <2>6. CASE SendLost(w)
    <3>1. Promise!PostUnanswered(cur[w])
      BY <2>2, <2>3, <2>6
         DEF SendLost, Count, Promise!PostUnanswered, Promise!MayPost, Shown
    <3> QED BY <2>3, <3>1 DEF Promise!Next
  <2> QED BY <1>2, <2>4, <2>5, <2>6
<1>3. CASE MarkSent(w) \/ MarkFailed(w)
  <2>1. UNCHANGED historyVars BY <1>3 DEF MarkSent, MarkFailed
  <2>2. \A q \in Rows : q # cur[w] => row'[q].status = row[q].status
    BY <1>3, StatusMoves DEF Claim, ClaimLost, MarkSent, MarkFailed
  <2>3. ASSUME NEW r \in Rows, r = cur[w], row[r].status = "processing",
               row'[r].status = "sent"
        PROVE  Promise!Next
    <3>1. delivered'[r] > 0 BY <2>3 DEF DeliveryInv, RowInv
    <3>2. Shown' = [Shown EXCEPT ![r] = "sent"] BY <2>2, <2>3 DEF Shown
    <3>3. Promise!Settle(r)
      BY <2>1, <2>3, <3>1, <3>2 DEF Promise!Settle, Shown, historyVars
    <3> QED BY <3>3 DEF Promise!Next
  <2>4. ASSUME NEW r \in Rows, r = cur[w], row[r].status = "processing",
               row'[r].status = "dead"
        PROVE  Promise!Next
    <3>1. failed'[r] >= MaxRetries
      <4>1. RowInv(r)' BY DEF DeliveryInv
      <4>2. row'[r].retries \in Nat /\ failed'[r] \in Nat
        BY <1>0 DEF TypeOK, RowType
      <4> QED BY <2>4, <4>1, <4>2 DEF RowInv
    <3>2. Shown' = [Shown EXCEPT ![r] = "dead"] BY <2>2, <2>4 DEF Shown
    <3>3. Promise!Settle(r)
      BY <2>1, <2>4, <3>1, <3>2 DEF Promise!Settle, Shown, historyVars
    <3> QED BY <3>3 DEF Promise!Next
  <2>5. CASE ~ \E r \in Rows : /\ r = cur[w] /\ row[r].status = "processing"
                               /\ row'[r].status \in {"sent", "dead"}
    <3>1. ASSUME NEW q \in Rows PROVE Shown'[q] = Shown[q]
      <4>1. \/ row'[q].status = row[q].status
            \/ /\ row[q].status \in {"pending", "failed", "processing"}
               /\ row'[q].status \in {"processing", "failed"}
        BY <2>5, StatusMoves
      <4> QED BY <4>1 DEF Shown
    <3> QED BY <2>1, <3>1 DEF Shown, historyVars
  <2> QED BY <2>3, <2>4, <2>5
<1>4. CASE UNCHANGED <<row, historyVars>>
  BY <1>4 DEF Shown, historyVars
<1> QED
  BY <1>1, <1>2, <1>3, <1>4
     DEF Step, Trouble, StartSend, MarkErr, CooldownEnds, Crash, Restart, Pause

\* The workers deliver as the outbox promises: each message is posted once and
\* once more per excuse, and settled for cause and for good.
THEOREM Refinement == Spec => Implements
<1>1. Init => Promise!Init
  BY DEF Init, Promise!Init
<1>2. ASSUME DeliveryInv, DeliveryInv', [Next]_vars
      PROVE  [Promise!Next]_(Promise!vars)
  <2>1. CASE Tick
    <3>1. ASSUME NEW r \in Rows PROVE Shown'[r] = Shown[r]
      BY <1>2, <2>1, TickStatus DEF Shown, DeliveryInv
    <3> QED BY <2>1, <3>1 DEF Shown, Tick, historyVars, Promise!vars
  <2>2. ASSUME NEW w \in Workers, Step(w) \/ Trouble(w)
        PROVE  [Promise!Next]_(Promise!vars)
    BY <1>2, <2>2, WorkerRefines DEF Shown, Promise!vars
  <2>3. CASE UNCHANGED vars
    BY <2>3 DEF vars, historyVars, Promise!vars
  <2> QED BY <1>2, <2>1, <2>2, <2>3 DEF Next
<1> QED BY <1>1, <1>2, Invariance, PTL DEF Spec, Implements, Promise!Spec

-----------------------------------------------------------------------------
\* LeaseInv: where leases fit what they are taken for, no two workers send the
\* same row.

\* What a worker has locked and sends, no step of another worker touches.
LEMMA HeldRow ==
  ASSUME LeasesFit, DeliveryInv, LeaseInv,
         NEW w \in Workers, Step(w) \/ Trouble(w),
         NEW v \in Workers, v # w, pc[v] \in {"send", "sending"}, NEW r \in todo[v]
  PROVE  row'[r] = row[r]
<1>0. TypeOK /\ r \in Rows BY DEF DeliveryInv, TypeOK
<1>1. row[r].lockedBy = WorkerID[v] BY DEF LeaseInv, Leased
<1>2. row[r].lease \in Int /\ row[r].lease >= 0
  <2>1. row[r].lease >= (IF pc[v] = "send" THEN SendTimeout ELSE timer[v])
    BY DEF LeaseInv, Leased
  <2>2. row[r].lease \in Int
    <3>1. row[r] \in RowType BY <1>0 DEF TypeOK
    <3>2. row[r].lease \in MinLease..LockDuration BY <3>1 DEF RowType
    <3> QED BY <3>2, Bounds
  <2>3. timer[v] \in Nat BY <1>0 DEF TypeOK
  <2> QED BY <2>1, <2>2, <2>3
<1>3. row[r].status = "processing"
  BY <1>0, <1>1 DEF DeliveryInv, RowInv
<1>4. CASE Claim(w) \/ ClaimLost(w)
  <2>1. PICK age \in 0..MaxClaimDelay : \E S \in Claimable(age) : Lock(w, S, age)
    BY <1>4 DEF Claim, ClaimLost
  <2>2. PICK S \in Claimable(age) : Lock(w, S, age) BY <2>1
  <2>3. ~Due(r, age) BY <1>2, <1>3 DEF Due, Expired
  <2>4. r \notin S BY <2>3 DEF Claimable
  <2> QED BY <1>0, <2>2, <2>4 DEF Lock
<1>5. CASE MarkSent(w) \/ MarkFailed(w)
  <2>1. ~Owns(w, r) BY <1>1 DEF Owns, LeasesFit
  <2>2. CASE r = cur[w]
    BY <1>5, <2>1, <2>2 DEF MarkSent, MarkFailed, SetRow
  <2>3. CASE r # cur[w]
    BY <1>0, <1>5, <2>3 DEF MarkSent, MarkFailed, SetRow, TypeOK
  <2> QED BY <2>2, <2>3
<1>6. CASE UNCHANGED row BY <1>6
<1> QED
  BY <1>4, <1>5, <1>6
     DEF Step, Trouble, StartSend, SendOk, SendErr, SendLost, SendReturns, MarkErr,
         CooldownEnds, Crash, Restart, Pause

\* A claim of a worker leaves it with one row, locked for as long as a send takes.
LEMMA ClaimLeases ==
  ASSUME LeasesFit, DeliveryInv, LeaseInv, NEW w \in Workers, Claim(w)
  PROVE  Leased(w)'
<1>0. TypeOK BY DEF DeliveryInv
<1>1. PICK age \in 0..MaxClaimDelay : \E S \in Claimable(age) :
         Lock(w, S, age) /\ todo' = [todo EXCEPT ![w] = S]
  BY DEF Claim
<1>2. PICK S \in Claimable(age) : Lock(w, S, age) /\ todo' = [todo EXCEPT ![w] = S]
  BY <1>1
<1>3. pc'[w] = "send" /\ ~paused'[w]
  BY <1>0 DEF Claim, Goto, LeaseInv, Leased, TypeOK
<1>4. PICK r \in Rows : S = {r}
  <2>1. S \in SUBSET Rows /\ S # {} /\ Cardinality(S) <= 1
    BY DEF Claimable, LeasesFit
  <2>2. IsFiniteSet(S) BY <2>1, FS_Subset
  <2>3. Cardinality(S) \in Nat BY <2>2, FS_CardinalityType
  <2>4. Cardinality(S) # 0 BY <2>1, <2>2, FS_EmptySet
  <2>5. Cardinality(S) = 1 BY <2>1, <2>3, <2>4
  <2>6. \E x : S = {x} BY <2>2, <2>5, FS_Singleton
  <2> QED BY <2>1, <2>6
<1>5. todo'[w] = {r} BY <1>0, <1>2, <1>4 DEF TypeOK
<1>6. row'[r].lockedBy = WorkerID[w] /\ row'[r].lease >= SendTimeout
  <2>1. row[r] \in RowType BY <1>0 DEF TypeOK
  <2>2. row'[r] = [row[r] EXCEPT !.status = "processing",
                                 !.lockedBy = WorkerID[w],
                                 !.lease = LockDuration - age]
    BY <1>2, <1>4 DEF Lock
  <2>3. row'[r].lockedBy = WorkerID[w] /\ row'[r].lease = LockDuration - age
    BY <2>1, <2>2 DEF RowType
  <2>4. LockDuration - age >= SendTimeout BY DEF LeasesFit
  <2> QED BY <2>3, <2>4
<1> QED BY <1>3, <1>5, <1>6 DEF Leased

\* LeaseInv is inductive, together with DeliveryInv.
LEMMA LeaseStep ==
  ASSUME LeasesFit, DeliveryInv, LeaseInv, TypeOK', [Next]_vars
  PROVE  LeaseInv'
<1> SUFFICES ASSUME NEW v \in Workers PROVE Leased(v)'
  BY DEF LeaseInv
<1>0. TypeOK /\ WorkerInv(v) /\ Leased(v) BY DEF DeliveryInv, LeaseInv
<1>1. CASE Tick
  <2>1. UNCHANGED <<pc, todo, paused>> BY <1>1 DEF Tick
  <2>2. pc[v] # "send" BY <1>0, <1>1 DEF Tick, Leased
  <2>3. ASSUME pc[v] = "sending", NEW r \in todo[v]
        PROVE  row'[r].lockedBy = WorkerID[v] /\ row'[r].lease >= timer'[v]
    <3>1. r \in Rows /\ row[r] \in RowType BY <1>0 DEF TypeOK
    <3>2. timer[v] > 0 /\ timer[v] \in Nat BY <1>0, <1>1, <2>3 DEF Tick, TypeOK
    <3>3. row[r].lockedBy = WorkerID[v] /\ row[r].lease >= timer[v]
      BY <1>0, <2>3 DEF Leased
    <3>4. row'[r] = [row[r] EXCEPT !.nextRetry = Greatest(@ - 1, MinRetry),
                                   !.lease = Greatest(@ - 1, MinLease)]
      BY <1>1, <3>1 DEF Tick
    <3>5. /\ row'[r].lockedBy = row[r].lockedBy
          /\ row'[r].lease = Greatest(row[r].lease - 1, MinLease)
      BY <3>1, <3>4 DEF RowType
    <3>6. row[r].lease \in Int
      <4>1. row[r].lease \in MinLease..LockDuration BY <3>1 DEF RowType
      <4> QED BY <4>1, Bounds
    <3>7. timer'[v] = timer[v] - 1
      <4>1. timer'[v] = Greatest(timer[v] - 1, 0) BY <1>1 DEF Tick
      <4> QED BY <3>2, <4>1 DEF Greatest
    <3> QED BY <3>2, <3>3, <3>5, <3>6, <3>7, Bounds DEF Greatest
  <2> QED BY <1>0, <2>1, <2>2, <2>3 DEF Leased
<1>2. ASSUME NEW w \in Workers, Step(w) \/ Trouble(w), v # w
      PROVE  Leased(v)'
  <2>1. /\ pc'[v] = pc[v] /\ todo'[v] = todo[v]
        /\ timer'[v] = timer[v] /\ paused'[v] = paused[v]
    BY <1>0, <1>2, Others
  <2>2. ASSUME pc[v] \in {"send", "sending"}, NEW r \in todo[v]
        PROVE  row'[r] = row[r]
    BY <1>2, <2>2, HeldRow
  <2> QED BY <1>0, <2>1, <2>2 DEF Leased
<1>3. ASSUME Step(v) \/ Trouble(v)
      PROVE  Leased(v)'
  <2> USE DEF TypeOK, Goto
  <2>1. CASE Claim(v) BY <2>1, ClaimLeases
  <2>2. CASE ClaimLost(v)
    BY <1>0, <2>2 DEF ClaimLost, workerVars, Leased
  <2>3. CASE StartSend(v)
    <3>1. /\ pc[v] = "send" /\ pc'[v] = "sending" /\ UNCHANGED <<row, todo>>
          /\ timer'[v] = SendTimeout /\ ~paused'[v]
      BY <1>0, <2>3 DEF StartSend
    <3> QED BY <1>0, <3>1 DEF Leased
  <2>4. CASE SendOk(v) \/ SendErr(v) \/ SendLost(v)
    <3>1. /\ pc[v] = "sending" /\ pc'[v] = "mark" /\ UNCHANGED <<todo, paused>>
      BY <1>0, <2>4 DEF SendOk, SendErr, SendLost, SendReturns
    <3> QED BY <1>0, <3>1 DEF Leased
  <2>5. CASE MarkSent(v) \/ MarkFailed(v) \/ MarkErr(v)
    <3>1. /\ pc[v] = "mark" /\ todo'[v] = todo[v] \ {cur[v]} /\ ~paused'[v]
      BY <1>0, <2>5 DEF MarkSent, MarkFailed, MarkErr, DoneWith
    <3>2. todo[v] \ {cur[v]} = {}
      BY <1>0, <3>1 DEF WorkerInv, Leased
    <3>3. pc'[v] \in {"poll", "cooldown"}
      BY <1>0, <2>5, <3>2 DEF MarkSent, MarkFailed, MarkErr, Next1
    <3> QED BY <3>1, <3>2, <3>3 DEF Leased
  <2>6. CASE CooldownEnds(v)
    <3>1. /\ pc[v] = "cooldown" /\ UNCHANGED <<todo, paused>>
          /\ pc'[v] = IF todo[v] = {} THEN "poll" ELSE "send"
      BY <1>0, <2>6 DEF CooldownEnds
    <3> QED BY <1>0, <3>1 DEF Leased
  <2>7. CASE Crash(v)
    BY <1>0, <2>7 DEF Crash, Leased
  <2>8. CASE Restart(v)
    BY <1>0, <2>8 DEF Restart, Leased
  <2>9. CASE Pause(v)
    <3>1. /\ pc[v] = "mark" /\ UNCHANGED <<pc, todo>>
      BY <2>9 DEF Pause, LeasesFit
    <3> QED BY <1>0, <3>1 DEF Leased
  <2> QED
    BY <1>3, <2>1, <2>2, <2>3, <2>4, <2>5, <2>6, <2>7, <2>8, <2>9 DEF Step, Trouble
<1>4. CASE UNCHANGED vars BY <1>0, <1>4 DEF vars, workerVars, Leased
<1> QED BY <1>1, <1>2, <1>3, <1>4 DEF Next

\* Where leases fit, a worker has one row at a time and has it locked for as long
\* as its send may take.
THEOREM LeaseInvariance == ASSUME LeasesFit PROVE Spec => []LeaseInv
<1>1. Init => LeaseInv
  BY DEF Init, LeaseInv, Leased
<1>2. DeliveryInv /\ DeliveryInv' /\ LeaseInv /\ [Next]_vars => LeaseInv'
  BY LeaseStep DEF DeliveryInv
<1> QED BY <1>1, <1>2, Invariance, PTL DEF Spec

\* Where leases fit, no two workers send the same row at the same time.
THEOREM SendExclusiveHolds == ASSUME LeasesFit PROVE Spec => []SendExclusive
<1>1. DeliveryInv /\ LeaseInv => SendExclusive
  <2> SUFFICES ASSUME DeliveryInv, LeaseInv, NEW r \in Rows,
                      NEW v \in Sending(r), NEW w \in Sending(r)
               PROVE  v = w
    BY DEF SendExclusive
  <2>1. ASSUME NEW u \in Sending(r) PROVE u \in Workers /\ row[r].lockedBy = WorkerID[u]
    BY <2>1 DEF Sending, DeliveryInv, WorkerInv, LeaseInv, Leased
  <2> QED BY <2>1 DEF LeasesFit
<1> QED BY <1>1, Invariance, LeaseInvariance, PTL
=============================================================================
