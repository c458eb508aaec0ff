----------------------------- MODULE IdGenProofs -----------------------------
(***************************************************************************)
(* Proofs about the snowflake generator.                                   *)
(***************************************************************************)
EXTENDS IdGen, TLAPS

USE IdGenAssumption DEF Millis

-----------------------------------------------------------------------------
\* Arithmetic of the layout.

\* Multiplying by a positive span keeps the order, and leaves room for a digit.
LEMMA SpanOrder ==
  ASSUME NEW S \in Nat \ {0}, NEW x \in Int, NEW y \in Int, x < y
  PROVE  x * S + S <= y * S
<1>1. PICK d \in Nat : y = x + 1 + d
  <2>1. y - x - 1 \in Nat /\ y = x + 1 + (y - x - 1) OBVIOUS
  <2> QED BY <2>1
<1>2. y * S = x * S + S + d * S BY <1>1
<1>3. d * S >= 0 OBVIOUS
<1>4. x * S \in Int /\ d * S \in Int OBVIOUS
<1> QED BY <1>2, <1>3, <1>4

\* A number has one way to be written as a multiple of a span and a rest.
LEMMA DigitsUnique ==
  ASSUME NEW S \in Nat \ {0}, NEW x \in Int, NEW y \in Int,
         NEW a \in 0..(S - 1), NEW b \in 0..(S - 1), x * S + a = y * S + b
  PROVE  x = y /\ a = b
<1> x * S \in Int /\ y * S \in Int OBVIOUS
<1>1. ~(x < y)
  <2> SUFFICES ASSUME x < y PROVE FALSE OBVIOUS
  <2>1. x * S + S <= y * S BY SpanOrder
  <2> QED BY <2>1
<1>2. ~(y < x)
  <2> SUFFICES ASSUME y < x PROVE FALSE OBVIOUS
  <2>1. y * S + S <= x * S BY SpanOrder
  <2> QED BY <2>1
<1>3. x = y BY <1>1, <1>2
<1> QED BY <1>3

LEMMA PackType ==
  ASSUME NEW m \in Int, NEW w \in 0..(WorkerSpan - 1), NEW s \in Int
  PROVE  /\ (m - Epoch) * WorkerSpan + w \in Int
         /\ ((m - Epoch) * WorkerSpan + w) * SeqSpan \in Int
         /\ Pack(m, w, s) \in Int
BY DEF Pack

LEMMA PackInt ==
  ASSUME NEW m \in Int, NEW w \in 0..(WorkerSpan - 1), NEW s \in Int
  PROVE  Pack(m, w, s) \in Int
BY PackType

LEMMA PackZero ==
  ASSUME NEW m \in Int, NEW w \in 0..(WorkerSpan - 1)
  PROVE  Pack(m, w, 0) \in Int
<1> DEFINE x == ((m - Epoch) * WorkerSpan + w) * SeqSpan
<1>1. x \in Int BY PackType
<1>2. Pack(m, w, 0) = x + 0 BY DEF Pack
<1> HIDE DEF x
<1> QED BY <1>1, <1>2

\* IDs of different workers are different.
LEMMA WorkersDiffer ==
  ASSUME NEW m \in Int, NEW n \in Int,
         NEW v \in 0..(WorkerSpan - 1), NEW w \in 0..(WorkerSpan - 1),
         NEW s \in 0..SequenceMax, NEW t \in 0..SequenceMax,
         Pack(m, v, s) = Pack(n, w, t)
  PROVE  v = w
<1> DEFINE x == (m - Epoch) * WorkerSpan + v
           y == (n - Epoch) * WorkerSpan + w
<1>1. x \in Int /\ y \in Int BY PackType
<1>2. x * SeqSpan + s = y * SeqSpan + t BY DEF Pack
<1>3. x = y
  <2> HIDE DEF x, y
  <2> QED BY <1>1, <1>2, DigitsUnique DEF SequenceMax
<1> QED BY <1>3, DigitsUnique

\* IDs of one worker are ordered by millisecond, then by sequence.
LEMMA PackOrder ==
  ASSUME NEW m \in Int, NEW n \in Int, NEW w \in 0..(WorkerSpan - 1),
         NEW s \in 0..SequenceMax, NEW t \in Nat, m < n
  PROVE  Pack(m, w, s) < Pack(n, w, t)
<1> DEFINE x == (m - Epoch) * WorkerSpan + w
           y == (n - Epoch) * WorkerSpan + w
<1>1. x \in Int /\ y \in Int BY PackType
<1>2. x < y
  <2>1. (m - Epoch) * WorkerSpan + WorkerSpan <= (n - Epoch) * WorkerSpan
    BY SpanOrder
  <2>2. (m - Epoch) * WorkerSpan \in Int /\ (n - Epoch) * WorkerSpan \in Int
    OBVIOUS
  <2> QED BY <2>1, <2>2
<1>3. x * SeqSpan + SeqSpan <= y * SeqSpan
  <2> HIDE DEF x, y
  <2> QED BY <1>1, <1>2, SpanOrder
<1>4. x * SeqSpan \in Int /\ y * SeqSpan \in Int BY PackType
<1>5. Pack(m, w, s) = x * SeqSpan + s /\ Pack(n, w, t) = y * SeqSpan + t
  BY DEF Pack
<1> HIDE DEF x, y
<1> QED BY <1>3, <1>4, <1>5 DEF SequenceMax

LEMMA PackOrderInMillis ==
  ASSUME NEW m \in Int, NEW w \in 0..(WorkerSpan - 1),
         NEW s \in Int, NEW t \in Int, s < t
  PROVE  Pack(m, w, s) < Pack(m, w, t)
<1> DEFINE x == ((m - Epoch) * WorkerSpan + w) * SeqSpan
<1>1. x \in Int BY PackType
<1>2. Pack(m, w, s) = x + s /\ Pack(m, w, t) = x + t BY DEF Pack
<1> HIDE DEF x
<1> QED BY <1>1, <1>2

-----------------------------------------------------------------------------
\* Typing.

LEMMA ReturnType ==
  ASSUME TypeOK, NEW c \in Callers, NEW p \in Processes,
         NEW m \in Millis, NEW s \in Nat, Return(c, p, m, s)
  PROVE  TypeOK'
<1>1. Pack(m, WorkerID[p], s) \in Int BY PackType
<1> DEFINE id == Pack(m, WorkerID[p], s)
<1>2. issued' = [issued EXCEPT ![p] = @ \cup {id}] /\ repeated' = repeated \cup ({id} \cap AllIssued)
  BY DEF Return
<1>3. id \in Int BY <1>1
<1> HIDE DEF id
<1>4. issued' \in [Processes -> SUBSET Int] /\ repeated' \subseteq Int
  BY <1>2, <1>3 DEF TypeOK
<1> QED BY <1>4 DEF TypeOK, Return, Goto

LEMMA TypeStep == TypeOK /\ [Next]_vars => TypeOK'
<1> SUFFICES ASSUME TypeOK, [Next]_vars PROVE TypeOK'
  OBVIOUS
<1>1. CASE UNCHANGED vars
  BY <1>1 DEF vars, genVars, historyVars, TypeOK
<1>2. ASSUME NEW p \in Processes, Tick(p) PROVE TypeOK'
  BY <1>2 DEF TypeOK, Tick, genVars, historyVars
<1>3. ASSUME NEW p \in Processes, SetBack(p) PROVE TypeOK'
  BY <1>3 DEF TypeOK, SetBack, Fault, genVars, historyVars
<1>4. ASSUME NEW p \in Processes, Restart(p) PROVE TypeOK'
  <2>1. pc' \in [Callers -> {"idle", "lock", "recovery", "overflow"}]
    BY <1>4 DEF TypeOK, Restart
  <2> QED BY <1>4, <2>1 DEF TypeOK, Restart, Fault, historyVars
<1>5. ASSUME NEW c \in Callers, Call(c) PROVE TypeOK'
  BY <1>5 DEF TypeOK, Call, Goto, genVars, historyVars
<1>6. ASSUME NEW c \in Callers, NEW p \in Processes, Step(c, p) PROVE TypeOK'
  <2>1. CASE NextMillis(c, p)
    BY <2>1, ReturnType DEF TypeOK, NextMillis
  <2>2. CASE SameMillis(c, p)
    <3>1. last[p] \in Millis /\ seq[p] + 1 \in Nat BY <2>2 DEF TypeOK, SameMillis
    <3> QED BY <2>2, <3>1, ReturnType DEF SameMillis
  <2>3. CASE WaitEnds(c, p)
    BY <2>3, ReturnType DEF TypeOK, WaitEnds
  <2>4. CASE Overflows(c, p)
    <3>1. seq' \in [Processes -> Nat] BY <2>4 DEF TypeOK, Overflows
    <3> QED BY <2>4, <3>1 DEF TypeOK, Overflows, Waits, Goto, historyVars
  <2>5. CASE Recovers(c, p)
    BY <2>5 DEF TypeOK, Recovers, Waits, Goto, historyVars
  <2>6. CASE Refuses(c, p)
    BY <2>6 DEF TypeOK, Refuses, Goto, genVars, historyVars
  <2> QED BY <1>6, <2>1, <2>2, <2>3, <2>4, <2>5, <2>6 DEF Step
<1>7. ASSUME NEW c \in Callers, NEW p \in Processes, WaitCancelled(c, p) PROVE TypeOK'
  BY <1>7 DEF TypeOK, WaitCancelled, Fault, Goto, historyVars
<1> QED BY <1>1, <1>2, <1>3, <1>4, <1>5, <1>6, <1>7 DEF Next, EndOfTime

\* The generators and their callers are always in a state of the code: clocks in
\* their bounds, sequences that never fall below zero.
THEOREM TypeCorrect == Spec => []TypeOK
<1>1. Init => TypeOK BY DEF Init, TypeOK
<1> QED BY <1>1, TypeStep, PTL DEF Spec

-----------------------------------------------------------------------------
\* Uniqueness.

LEMMA LastSeqType ==
  ASSUME TypeOK, NEW p \in Processes
  PROVE  LastSeq(p) \in 0..SequenceMax
BY DEF LastSeq, TypeOK, SequenceMax

\* A later millisecond has only IDs greater than those given out.
LEMMA NextMillisLater ==
  ASSUME IndInv, NEW p \in Processes, clock[p] > last[p], NEW id \in issued[p]
  PROVE  id < Pack(clock[p], WorkerID[p], 0)
<1>1. /\ clock[p] \in Int /\ last[p] \in Int /\ id \in Int /\ TypeOK
      /\ WorkerID[p] \in 0..(WorkerSpan - 1)
  BY DEF IndInv, TypeOK
<1>2. CASE last[p] = -1 BY <1>2 DEF IndInv, Ahead
<1>3. CASE last[p] # -1
  <2>1. id <= Pack(last[p], WorkerID[p], LastSeq(p)) BY <1>3 DEF IndInv, Ahead
  <2>2. Pack(last[p], WorkerID[p], LastSeq(p)) < Pack(clock[p], WorkerID[p], 0)
    BY <1>1, LastSeqType, PackOrder
  <2>3. LastSeq(p) \in Int BY <1>1, LastSeqType
  <2>4. Pack(last[p], WorkerID[p], LastSeq(p)) \in Int /\ Pack(clock[p], WorkerID[p], 0) \in Int
    <3>1. Pack(last[p], WorkerID[p], LastSeq(p)) \in Int BY <1>1, <2>3, PackInt
    <3>2. Pack(clock[p], WorkerID[p], 0) \in Int BY <1>1, PackZero
    <3> QED BY <3>1, <3>2
  <2> QED BY <1>1, <2>1, <2>2, <2>4
<1> QED BY <1>2, <1>3

LEMMA SameMillisLater ==
  ASSUME IndInv, NEW p \in Processes, clock[p] = last[p], HasRoom(p), NEW id \in issued[p]
  PROVE  id < Pack(last[p], WorkerID[p], seq[p] + 1)
<1>1. /\ last[p] \in Int /\ last[p] # -1 /\ seq[p] \in Int /\ id \in Int
      /\ WorkerID[p] \in 0..(WorkerSpan - 1)
  BY DEF IndInv, TypeOK
<1>2. LastSeq(p) = seq[p] BY <1>1 DEF LastSeq, HasRoom, SequenceMax
<1>3. id <= Pack(last[p], WorkerID[p], seq[p]) BY <1>1, <1>2 DEF IndInv, Ahead
<1>4. Pack(last[p], WorkerID[p], seq[p]) < Pack(last[p], WorkerID[p], seq[p] + 1)
  BY <1>1, PackOrderInMillis
<1>5. Pack(last[p], WorkerID[p], seq[p]) \in Int /\ Pack(last[p], WorkerID[p], seq[p] + 1) \in Int
  <2>1. Pack(last[p], WorkerID[p], seq[p]) \in Int BY <1>1, PackInt
  <2>2. seq[p] + 1 \in Int BY <1>1
  <2>3. Pack(last[p], WorkerID[p], seq[p] + 1) \in Int BY <1>1, <2>2, PackInt
  <2> QED BY <2>1, <2>3
<1> QED BY <1>1, <1>3, <1>4, <1>5

\* An ID greater than those of its process was not given to another one either.
LEMMA ReturnKeeps ==
  ASSUME IndInv, DistinctWorkers, TypeOK', NEW c \in Callers, NEW p \in Processes,
         NEW m \in Millis, NEW s \in 0..SequenceMax, Return(c, p, m, s),
         \A id \in issued[p] : id < Pack(m, WorkerID[p], s)
  PROVE  IndInv'
<1> DEFINE new == Pack(m, WorkerID[p], s)
<1>1. /\ WorkerID[p] \in 0..(WorkerSpan - 1) /\ m \in Int /\ s \in Int
      /\ issued \in [Processes -> SUBSET Int]
  BY DEF IndInv, TypeOK
<1>2. new \in Int BY <1>1, PackType
<1>3. /\ issued' = [issued EXCEPT ![p] = @ \cup {new}]
      /\ repeated' = repeated \cup ({new} \cap AllIssued)
      /\ last' = [last EXCEPT ![p] = m] /\ seq' = [seq EXCEPT ![p] = s]
      /\ clock' = clock
  BY DEF Return
<1>4. new \notin issued[p] BY <1>2 DEF IndInv
<1>5. ASSUME NEW q \in Processes, q # p PROVE new \notin issued[q]
  <2> SUFFICES ASSUME new \in issued[q] PROVE FALSE OBVIOUS
  <2>1. PICK n \in Millis, t \in 0..SequenceMax : new = Pack(n, WorkerID[q], t)
    BY DEF IndInv, IDsOf
  <2>2. WorkerID[q] \in 0..(WorkerSpan - 1) OBVIOUS
  <2>3. WorkerID[p] = WorkerID[q] BY <1>1, <2>1, <2>2, WorkersDiffer
  <2> QED BY <1>5, <2>3 DEF DistinctWorkers
<1>6. Unique' BY <1>3, <1>4, <1>5 DEF Unique, AllIssued, IndInv
<1>7. ASSUME NEW q \in Processes PROVE (issued[q] \subseteq IDsOf(q))' /\ Ahead(q)'
  <2>1. CASE q # p
    <3>1. issued'[q] = issued[q] /\ last'[q] = last[q] /\ seq'[q] = seq[q] /\ clock'[q] = clock[q]
      BY <1>3, <2>1 DEF IndInv, TypeOK
    <3> QED BY <3>1 DEF IndInv, Ahead, LastSeq, IDsOf
  <2>2. CASE q = p
    <3>1. issued'[p] = issued[p] \cup {new} /\ last'[p] = m /\ seq'[p] = s
      BY <1>3 DEF IndInv, TypeOK
    <3>2. new \in IDsOf(p) BY DEF IDsOf
    <3>3. LastSeq(p)' = s
      <4>1. ~(s > SequenceMax) BY DEF SequenceMax
      <4> QED BY <3>1, <4>1 DEF LastSeq
    <3>4. m # -1 OBVIOUS
    <3>5. \A id \in issued'[p] : id <= new
      BY <1>1, <1>2, <3>1
    <3> HIDE DEF new
    <3>6. (issued[p] \subseteq IDsOf(p))' BY <3>1, <3>2 DEF IndInv, IDsOf
    <3> USE DEF new
    <3> QED BY <2>2, <3>1, <3>3, <3>4, <3>5, <3>6 DEF Ahead
  <2> QED BY <2>1, <2>2
<1> QED BY <1>6, <1>7 DEF IndInv

\* Steps that return no ID, and keep every generator ahead of those it gave out.
LEMMA NoReturnKeeps ==
  ASSUME IndInv, TypeOK', UNCHANGED historyVars, \A p \in Processes : Ahead(p)'
  PROVE  IndInv'
<1>1. issued' = issued /\ repeated' = repeated BY DEF historyVars
<1> QED BY <1>1 DEF IndInv, Unique, IDsOf

LEMMA AheadUnchanged ==
  ASSUME IndInv, NEW p \in Processes, issued' = issued,
         clock'[p] = clock[p], last'[p] = last[p], LastSeq(p)' = LastSeq(p)
  PROVE  Ahead(p)'
BY DEF IndInv, Ahead

LEMMA IndStep == CanGenerate /\ IndInv /\ [Next]_vars => IndInv'
<1> SUFFICES ASSUME CanGenerate, IndInv, [Next]_vars PROVE IndInv'
  OBVIOUS
<1>0. TypeOK /\ TypeOK' /\ DistinctWorkers /\ ~MayRestartBehind
  BY TypeStep DEF IndInv, CanGenerate
<1>1. CASE UNCHANGED vars
  <2>1. \A p \in Processes : Ahead(p)'
    BY <1>1, AheadUnchanged DEF vars, genVars, historyVars, LastSeq
  <2> QED BY <1>0, <1>1, <2>1, NoReturnKeeps DEF vars
<1>2. ASSUME NEW p \in Processes, Tick(p) PROVE IndInv'
  <2>1. ASSUME NEW q \in Processes PROVE Ahead(q)'
    <3>1. issued' = issued /\ last' = last /\ seq' = seq /\ LastSeq(q)' = LastSeq(q)
      BY <1>2 DEF Tick, genVars, historyVars, LastSeq
    <3>2. CASE q # p
      BY <1>0, <1>2, <3>1, <3>2, AheadUnchanged DEF Tick, TypeOK
    <3>3. CASE q = p /\ last[p] # -1
      BY <3>1, <3>3 DEF IndInv, Ahead
    <3>4. CASE q = p /\ last[p] = -1
      <4>1. clock[p] \in Int /\ clock'[p] = clock[p] + 1 /\ WorkerID[p] \in 0..(WorkerSpan - 1)
        BY <1>0, <1>2 DEF Tick, TypeOK
      <4>2. Pack(clock[p], WorkerID[p], 0) < Pack(clock'[p], WorkerID[p], 0)
        <5>1. clock'[p] \in Int /\ clock[p] < clock'[p] BY <4>1
        <5>2. 0 \in 0..SequenceMax /\ 0 \in Nat BY DEF SequenceMax
        <5> QED BY <4>1, <5>1, <5>2, PackOrder
      <4>3. Pack(clock[p], WorkerID[p], 0) \in Int /\ Pack(clock'[p], WorkerID[p], 0) \in Int
        <5>1. clock'[p] \in Int BY <4>1
        <5>2. Pack(clock[p], WorkerID[p], 0) \in Int BY <4>1, PackZero
        <5>3. Pack(clock'[p], WorkerID[p], 0) \in Int BY <4>1, <5>1, PackZero
        <5> QED BY <5>2, <5>3
      <4>4. \A id \in issued[p] : id \in Int /\ id < Pack(clock[p], WorkerID[p], 0)
        BY <1>0, <3>4 DEF IndInv, Ahead, TypeOK
      <4> QED BY <3>1, <3>4, <4>2, <4>3, <4>4 DEF Ahead
    <3> QED BY <3>2, <3>3, <3>4
  <2> QED BY <1>0, <1>2, <2>1, NoReturnKeeps DEF Tick
<1>3. ASSUME NEW p \in Processes, SetBack(p) PROVE IndInv'
  <2>1. ASSUME NEW q \in Processes PROVE Ahead(q)'
    <3>1. issued' = issued /\ last' = last /\ seq' = seq /\ LastSeq(q)' = LastSeq(q)
      BY <1>3 DEF SetBack, genVars, historyVars, LastSeq
    <3>2. CASE q # p
      BY <1>0, <1>3, <3>1, <3>2, AheadUnchanged DEF SetBack, TypeOK
    <3>3. CASE q = p /\ last[p] # -1
      BY <3>1, <3>3 DEF IndInv, Ahead
    <3>4. CASE q = p /\ last[p] = -1
      <4>1. FreshAt(p, clock'[p]) BY <1>0, <1>3, <3>4 DEF SetBack, TypeOK
      <4> QED BY <1>0, <3>1, <3>4, <4>1 DEF Ahead, FreshAt
    <3> QED BY <3>2, <3>3, <3>4
  <2> QED BY <1>0, <1>3, <2>1, NoReturnKeeps DEF SetBack
<1>4. ASSUME NEW p \in Processes, Restart(p) PROVE IndInv'
  <2>1. ASSUME NEW q \in Processes PROVE Ahead(q)'
    <3>1. issued' = issued /\ clock' = clock
      BY <1>4 DEF Restart, historyVars
    <3>2. CASE q # p
      <4>1. last'[q] = last[q] /\ seq'[q] = seq[q] BY <1>0, <1>4, <3>2 DEF Restart, TypeOK
      <4> QED BY <3>1, <4>1, AheadUnchanged DEF LastSeq
    <3>3. CASE q = p
      <4>1. last'[p] = -1 /\ FreshAt(p, clock[p]) BY <1>0, <1>4 DEF Restart, TypeOK
      <4> QED BY <1>0, <3>1, <3>3, <4>1 DEF Ahead, FreshAt
    <3> QED BY <3>2, <3>3
  <2> QED BY <1>0, <1>4, <2>1, NoReturnKeeps DEF Restart
<1>5. ASSUME NEW c \in Callers, Call(c) PROVE IndInv'
  <2>1. \A p \in Processes : Ahead(p)'
    BY <1>5, AheadUnchanged DEF Call, genVars, historyVars, LastSeq
  <2> QED BY <1>0, <1>5, <2>1, NoReturnKeeps DEF Call
<1>6. ASSUME NEW c \in Callers, NEW p \in Processes, Step(c, p) PROVE IndInv'
  <2>0. clock[p] \in Millis /\ 0 \in 0..SequenceMax /\ seq[p] \in Nat
    BY <1>0 DEF TypeOK, SequenceMax
  <2>1. CASE NextMillis(c, p)
    BY <1>0, <2>0, <2>1, NextMillisLater, ReturnKeeps DEF NextMillis
  <2>2. CASE SameMillis(c, p)
    <3>1. last[p] \in Millis /\ seq[p] + 1 \in 0..SequenceMax
      BY <2>0, <2>2 DEF SameMillis, HasRoom, SequenceMax
    <3> QED BY <1>0, <2>2, <3>1, SameMillisLater, ReturnKeeps DEF SameMillis
  <2>3. CASE WaitEnds(c, p)
    BY <1>0, <2>0, <2>3, NextMillisLater, ReturnKeeps DEF WaitEnds
  <2>4. CASE Overflows(c, p)
    <3>1. ASSUME NEW q \in Processes PROVE Ahead(q)'
      <4>1. issued' = issued /\ clock' = clock /\ last' = last
        BY <2>4 DEF Overflows, Waits, historyVars
      <4>2. LastSeq(q)' = LastSeq(q)
        <5>1. CASE q # p
          <6>1. seq'[q] = seq[q] BY <1>0, <2>4, <5>1 DEF Overflows, TypeOK
          <6> QED BY <6>1 DEF LastSeq
        <5>2. CASE q = p
          <6>1. seq'[p] = seq[p] + 1 /\ seq[p] >= SequenceMax
            BY <1>0, <2>0, <2>4 DEF Overflows, HasRoom, TypeOK, SequenceMax
          <6> QED BY <2>0, <5>2, <6>1 DEF LastSeq, SequenceMax
        <5> QED BY <5>1, <5>2
      <4> QED BY <4>1, <4>2, AheadUnchanged
    <3> QED BY <1>0, <2>4, <3>1, NoReturnKeeps DEF Overflows, Waits
  <2>5. CASE Recovers(c, p)
    <3>1. \A q \in Processes : Ahead(q)'
      BY <2>5, AheadUnchanged DEF Recovers, Waits, historyVars, LastSeq
    <3> QED BY <1>0, <2>5, <3>1, NoReturnKeeps DEF Recovers, Waits
  <2>6. CASE Refuses(c, p)
    <3>1. \A q \in Processes : Ahead(q)'
      BY <2>6, AheadUnchanged DEF Refuses, genVars, historyVars, LastSeq
    <3> QED BY <1>0, <2>6, <3>1, NoReturnKeeps DEF Refuses
  <2> QED BY <1>6, <2>1, <2>2, <2>3, <2>4, <2>5, <2>6 DEF Step
<1>7. ASSUME NEW c \in Callers, NEW p \in Processes, WaitCancelled(c, p) PROVE IndInv'
  <2>1. \A q \in Processes : Ahead(q)'
    BY <1>7, AheadUnchanged DEF WaitCancelled, historyVars, LastSeq
  <2> QED BY <1>0, <1>7, <2>1, NoReturnKeeps DEF WaitCancelled
<1> QED BY <1>1, <1>2, <1>3, <1>4, <1>5, <1>6, <1>7 DEF Next, EndOfTime

\* No generator ever falls behind the IDs that it gave out.
THEOREM Invariance == ASSUME CanGenerate PROVE Spec => []IndInv
<1>1. Init => IndInv
  BY DEF Init, IndInv, TypeOK, Unique, Ahead
<1> QED BY <1>1, IndStep, PTL DEF Spec

\* No ID is given out twice, by whatever callers of whatever processes and
\* whatever their clocks do, as long as the processes have worker IDs of their
\* own and start with their clocks past what they used before.
THEOREM UniqueHolds == ASSUME CanGenerate PROVE Spec => []Unique
<1>1. IndInv => Unique BY DEF IndInv
<1> QED BY <1>1, Invariance, PTL

-----------------------------------------------------------------------------
\* The order in which IDs are given out.

Grows(p) ==
  \A new \in issued'[p] \ issued[p] : \A old \in issued[p] : old < new

LEMMA ReturnGrows ==
  ASSUME TypeOK, NEW c \in Callers, NEW p \in Processes, NEW m, NEW s, Return(c, p, m, s),
         \A id \in issued[p] : id < Pack(m, WorkerID[p], s), NEW q \in Processes
  PROVE  Grows(q)
<1> DEFINE new == Pack(m, WorkerID[p], s)
<1>1. issued' = [issued EXCEPT ![p] = @ \cup {new}] BY DEF Return
<1>2. \A id \in issued[p] : id < new OBVIOUS
<1> HIDE DEF new
<1> QED BY <1>1, <1>2 DEF Grows, TypeOK

LEMMA GrowsStep ==
  ASSUME IndInv, [Next]_vars, NEW q \in Processes
  PROVE  Grows(q)
<1>0. TypeOK BY DEF IndInv
<1>1. ASSUME UNCHANGED historyVars PROVE Grows(q)
  BY <1>1 DEF historyVars, Grows
<1>2. ASSUME NEW c \in Callers, NEW p \in Processes, Step(c, p) PROVE Grows(q)
  <2>1. CASE NextMillis(c, p)
    BY <1>0, <2>1, NextMillisLater, ReturnGrows DEF NextMillis
  <2>2. CASE SameMillis(c, p)
    BY <1>0, <2>2, SameMillisLater, ReturnGrows DEF SameMillis
  <2>3. CASE WaitEnds(c, p)
    BY <1>0, <2>3, NextMillisLater, ReturnGrows DEF WaitEnds
  <2>4. CASE Overflows(c, p) \/ Recovers(c, p) \/ Refuses(c, p)
    BY <1>1, <2>4 DEF Overflows, Recovers, Refuses, Waits
  <2> QED BY <1>2, <2>1, <2>2, <2>3, <2>4 DEF Step
<1>3. CASE UNCHANGED vars
  BY <1>1, <1>3 DEF vars
<1>4. ASSUME NEW p \in Processes, Tick(p) \/ SetBack(p) \/ Restart(p) PROVE Grows(q)
  BY <1>1, <1>4 DEF Tick, SetBack, Restart
<1>5. ASSUME NEW c \in Callers, Call(c) PROVE Grows(q)
  BY <1>1, <1>5 DEF Call
<1>6. ASSUME NEW c \in Callers, NEW p \in Processes, WaitCancelled(c, p) PROVE Grows(q)
  BY <1>1, <1>6 DEF WaitCancelled
<1> QED BY <1>2, <1>3, <1>4, <1>5, <1>6 DEF Next, EndOfTime

\* Under the same assumptions each ID is greater than all that its process was
\* given before it, in an earlier run of the process as well.
THEOREM IncreasingHolds == ASSUME CanGenerate PROVE Spec => Increasing
<1>1. IndInv /\ [Next]_vars =>
        [\A p \in Processes : \A new \in issued'[p] \ issued[p] :
           \A old \in issued[p] : old < new]_vars
  BY GrowsStep DEF Grows
<1> QED BY <1>1, Invariance, PTL DEF Spec, Increasing

-----------------------------------------------------------------------------
\* Parse.

LEMMA Quotient ==
  ASSUME NEW S \in Nat \ {0}, NEW x \in Int, NEW a \in 0..(S - 1)
  PROVE  (x * S + a) \div S = x /\ (x * S + a) % S = a
OBVIOUS

\* Parse undoes what NextID does.
LEMMA ParsePack ==
  ASSUME NEW m \in Int, NEW w \in 0..(WorkerSpan - 1), NEW s \in 0..SequenceMax
  PROVE  Parse(Pack(m, w, s)) = [millis |-> m, worker |-> w, seq |-> s]
<1> DEFINE x == (m - Epoch) * WorkerSpan + w
           span == WorkerSpan * SeqSpan
           rest == w * SeqSpan + s
<1>1. x \in Int /\ Pack(m, w, s) = x * SeqSpan + s BY DEF Pack
<1>2. Pack(m, w, s) \div SeqSpan = x /\ Pack(m, w, s) % SeqSpan = s
  <2> HIDE DEF x
  <2> QED BY <1>1, Quotient DEF SequenceMax
<1>3. x % WorkerSpan = w OBVIOUS
<1>4. span \in Nat \ {0} OBVIOUS
<1>5. rest \in 0..(span - 1)
  <2>1. w * SeqSpan + SeqSpan <= span BY SpanOrder
  <2>2. w * SeqSpan \in Nat OBVIOUS
  <2> HIDE DEF span
  <2> QED BY <1>4, <2>1, <2>2 DEF SequenceMax
<1>6. Pack(m, w, s) = (m - Epoch) * span + rest BY DEF Pack
<1>7. Pack(m, w, s) \div span = m - Epoch
  <2> DEFINE k == m - Epoch
  <2>1. k \in Int OBVIOUS
  <2>2. Pack(m, w, s) = k * span + rest BY <1>6
  <2> HIDE DEF span, rest, k
  <2>3. (k * span + rest) \div span = k BY <1>4, <1>5, <2>1, Quotient
  <2>4. Pack(m, w, s) \div span = k BY <2>2, <2>3
  <2> QED BY <2>4 DEF k
<1>8. (m - Epoch) + Epoch = m OBVIOUS
<1> HIDE DEF x
<1> QED BY <1>2, <1>3, <1>7, <1>8 DEF Parse

\* An ID always tells the process that made it, and a time of its clock.
THEOREM TraceableHolds == ASSUME CanGenerate PROVE Spec => []Traceable
<1>1. IndInv => Traceable
  <2> SUFFICES ASSUME IndInv, NEW p \in Processes, NEW id \in issued[p]
               PROVE  Parse(id).worker = WorkerID[p] /\ Parse(id).millis \in Millis
    BY DEF Traceable
  <2>1. PICK m \in Millis, s \in 0..SequenceMax : id = Pack(m, WorkerID[p], s)
    BY DEF IndInv, IDsOf
  <2>2. Parse(id) = [millis |-> m, worker |-> WorkerID[p], seq |-> s]
    BY <2>1, ParsePack
  <2> QED BY <2>2
<1> QED BY <1>1, Invariance, PTL

-----------------------------------------------------------------------------
\* The mutex.

\* Caller c of process p lets the mutex go, or never took it.
LEMMA LetsGoKeeps ==
  ASSUME TypeOK, MutexHeld, NEW c \in Callers, NEW p \in Processes, p = ProcessOf[c],
         Enters(c, p) \/ Waiting(c), Goto(c, "idle"),
         mu' = [mu EXCEPT ![p] = None]
  PROVE  MutexHeld'
<1>1. \A d \in Callers : pc'[d] = IF d = c THEN "idle" ELSE pc[d] BY DEF TypeOK, Goto
<1>2. \A q \in Processes : mu'[q] = IF q = p THEN None ELSE mu[q] BY DEF TypeOK
<1>3. \A d \in Callers \ {c} : ~(Waiting(d) /\ ProcessOf[d] = p) BY DEF MutexHeld, Enters
<1> QED BY <1>1, <1>2, <1>3 DEF MutexHeld, Waiting

\* Caller c takes the mutex and keeps it.
LEMMA TakesKeeps ==
  ASSUME TypeOK, MutexHeld, NEW c \in Callers, NEW p \in Processes, Enters(c, p),
         NEW why \in {"recovery", "overflow"}, Waits(c, p, why)
  PROVE  MutexHeld'
<1>1. \A d \in Callers : pc'[d] = IF d = c THEN why ELSE pc[d] BY DEF TypeOK, Waits, Goto
<1>2. \A q \in Processes : mu'[q] = IF q = p THEN c ELSE mu[q] BY DEF TypeOK, Waits
<1>3. \A d \in Callers : ~(Waiting(d) /\ ProcessOf[d] = p) BY DEF MutexHeld, Enters
<1> QED BY <1>1, <1>2, <1>3 DEF MutexHeld, Waiting, Enters

LEMMA MutexStep == TypeOK /\ MutexHeld /\ [Next]_vars => MutexHeld'
<1> SUFFICES ASSUME TypeOK, MutexHeld, [Next]_vars PROVE MutexHeld' OBVIOUS
<1>1. CASE UNCHANGED <<mu, pc>> BY <1>1 DEF MutexHeld, Waiting
<1>2. ASSUME NEW p \in Processes, Restart(p) PROVE MutexHeld'
  <2>1. \A q \in Processes : mu'[q] = IF q = p THEN None ELSE mu[q]
    BY <1>2 DEF TypeOK, Restart
  <2>2. \A d \in Callers : pc'[d] = IF ProcessOf[d] = p THEN "idle" ELSE pc[d]
    BY <1>2 DEF Restart
  <2> QED BY <2>1, <2>2 DEF MutexHeld, Waiting
<1>3. ASSUME NEW c \in Callers, Call(c) PROVE MutexHeld'
  <2>1. \A d \in Callers : pc'[d] = IF d = c THEN "lock" ELSE pc[d]
    BY <1>3 DEF TypeOK, Call, Goto
  <2> QED BY <1>3, <2>1 DEF MutexHeld, Waiting, Call, genVars
<1>4. ASSUME NEW c \in Callers, NEW p \in Processes, Step(c, p) PROVE MutexHeld'
  <2>1. CASE NextMillis(c, p) BY <2>1, LetsGoKeeps DEF NextMillis, Enters, Return
  <2>2. CASE SameMillis(c, p) BY <2>2, LetsGoKeeps DEF SameMillis, Enters, Return
  <2>3. CASE WaitEnds(c, p) BY <2>3, LetsGoKeeps DEF WaitEnds, Return
  <2>4. CASE Overflows(c, p) BY <2>4, TakesKeeps DEF Overflows
  <2>5. CASE Recovers(c, p) BY <2>5, TakesKeeps DEF Recovers
  <2>6. CASE Refuses(c, p)
    <3>1. mu' = [mu EXCEPT ![p] = None] BY <2>6 DEF Refuses, Enters, genVars, TypeOK
    <3> QED BY <2>6, <3>1, LetsGoKeeps DEF Refuses, Enters
  <2> QED BY <1>4, <2>1, <2>2, <2>3, <2>4, <2>5, <2>6 DEF Step
<1>5. ASSUME NEW c \in Callers, NEW p \in Processes, WaitCancelled(c, p) PROVE MutexHeld'
  BY <1>5, LetsGoKeeps DEF WaitCancelled
<1> QED BY <1>1, <1>2, <1>3, <1>4, <1>5
        DEF Next, EndOfTime, Tick, SetBack, vars, genVars

\* Whatever the clocks do and wherever calls are cancelled or processes restart,
\* NextID keeps the generator's mutex exactly while one caller waits for the clock.
THEOREM MutexHeldHolds == Spec => []MutexHeld
<1>1. Init => MutexHeld BY DEF Init, MutexHeld, Waiting
<1> QED BY <1>1, TypeCorrect, MutexStep, PTL DEF Spec
=============================================================================
