--------------------------- MODULE EventStoreProofs ---------------------------
(***************************************************************************)
(* What holds of EventStore for every value of its constants.              *)
(***************************************************************************)
EXTENDS EventStore, WellFoundedInduction, TLAPS

USE EventStoreAssumption

-----------------------------------------------------------------------------
\* Induction over the natural numbers, by the least number for which something
\* is not so.

LEMMA LeastNumber ==
  ASSUME NEW T, T \subseteq Nat, T # {}
  PROVE  \E x \in T : \A y \in T : x <= y
<1>1. PICK x \in T : \A y \in T : <<y, x>> \notin OpToRel(<, Nat)
  BY NatLessThanWellFounded, WFMin, Zenon
<1>2. \A y \in T : ~(y < x) BY <1>1 DEF OpToRel
<1> QED BY <1>2

LEMMA InductionOverNat ==
  ASSUME NEW S, 0 \in S, \A n \in Nat : n \in S => n + 1 \in S
  PROVE  Nat \subseteq S
<1> SUFFICES ASSUME Nat \ S # {} PROVE FALSE OBVIOUS
<1>1. PICK x \in Nat \ S : \A y \in Nat \ S : x <= y BY LeastNumber
<1>2. x - 1 \in Nat /\ x - 1 \in S BY <1>1
<1> QED BY <1>1, <1>2

-----------------------------------------------------------------------------
\* Dedupe.

\* How far dedupeEvents is after n events.
Kept(b) == CHOOSE out : out =
    [n \in 0..Len(b) |-> IF n = 0 THEN <<>> ELSE DedupeStep(out[n - 1], b[n])]

LEMMA KeptExists ==
  ASSUME NEW b, NEW n \in Nat
  PROVE  \E g : g = [m \in 0..n |-> IF m = 0 THEN <<>> ELSE DedupeStep(g[m - 1], b[m])]
<1> DEFINE Is(g, k) == g = [m \in 0..k |-> IF m = 0 THEN <<>> ELSE DedupeStep(g[m - 1], b[m])]
           S == {k \in Nat : \E g : Is(g, k)}
<1>1. 0 \in S
  <2>1. Is([m \in 0..0 |-> <<>>], 0) OBVIOUS
  <2> QED BY <2>1
<1>2. ASSUME NEW k \in Nat, k \in S PROVE k + 1 \in S
  <2>1. PICK g : Is(g, k) BY <1>2
  <2> DEFINE h == [m \in 0..(k + 1) |-> IF m = k + 1 THEN DedupeStep(g[k], b[m]) ELSE g[m]]
  <2>2. ASSUME NEW m \in 0..(k + 1)
        PROVE  h[m] = IF m = 0 THEN <<>> ELSE DedupeStep(h[m - 1], b[m])
    <3>1. CASE m = k + 1
      <4>1. h[m - 1] = g[k] BY <3>1
      <4> QED BY <3>1, <4>1
    <3>2. CASE m # k + 1
      <4>1. m \in 0..k /\ h[m] = g[m] BY <3>2
      <4>2. g[m] = IF m = 0 THEN <<>> ELSE DedupeStep(g[m - 1], b[m]) BY <2>1, <4>1
      <4>3. m # 0 => h[m - 1] = g[m - 1] BY <4>1
      <4> QED BY <4>1, <4>2, <4>3
    <3> QED BY <3>1, <3>2
  <2>3. Is(h, k + 1)
    <3> HIDE DEF Is
    <3> SUFFICES h = [m \in 0..(k + 1) |-> IF m = 0 THEN <<>> ELSE DedupeStep(h[m - 1], b[m])]
      BY DEF Is
    <3> QED BY <2>2
  <2> HIDE DEF Is, h
  <2>4. \E f : Is(f, k + 1) BY <2>3
  <2> QED BY <2>4
<1> HIDE DEF S
<1>3. n \in S BY <1>1, <1>2, InductionOverNat
<1> QED BY <1>3 DEF S

\* Before the first event nothing is kept, and each event makes a step.
LEMMA KeptSteps ==
  ASSUME NEW b \in Seq(Envelopes)
  PROVE  /\ Dedupe(b) = Kept(b)[Len(b)]
         /\ Kept(b)[0] = <<>>
         /\ \A n \in 1..Len(b) : Kept(b)[n] = DedupeStep(Kept(b)[n - 1], b[n])
<1> DEFINE Is(g) == g =
             [m \in 0..Len(b) |-> IF m = 0 THEN <<>> ELSE DedupeStep(g[m - 1], b[m])]
<1>1. Len(b) \in Nat OBVIOUS
<1>2. \E g : Is(g) BY <1>1, KeptExists
<1>3. Is(Kept(b)) BY <1>2, Zenon DEF Kept
<1>4. \A m \in 0..Len(b) :
         Kept(b)[m] = IF m = 0 THEN <<>> ELSE DedupeStep(Kept(b)[m - 1], b[m])
  BY <1>3
<1>5. Dedupe(b) = Kept(b)[Len(b)] BY Zenon DEF Dedupe, Kept
<1> QED BY <1>1, <1>4, <1>5

\* An event is added if its key is new.
LEMMA DedupeStepAdds ==
  ASSUME NEW q \in Seq(Envelopes), Deduped(q), NEW e \in Envelopes
  PROVE  LET r == DedupeStep(q, e)
         IN  /\ r \in Seq(Envelopes)
             /\ Deduped(r)
             /\ (\E d \in Range(q) : d.key = e.key) => r = q
             /\ (\A d \in Range(q) : d.key # e.key) => Range(r) = Range(q) \cup {e}
<1>1. CASE \E i \in DOMAIN q : q[i].key = e.key
  <2>1. DedupeStep(q, e) = q BY <1>1 DEF DedupeStep
  <2> QED BY <1>1, <2>1 DEF Range
<1>2. CASE \A i \in DOMAIN q : q[i].key # e.key
  <2> DEFINE r == Append(q, e)
  <2>1. DedupeStep(q, e) = r BY <1>2 DEF DedupeStep
  <2>2. r \in Seq(Envelopes) OBVIOUS
  <2>3. /\ DOMAIN r = 1..(Len(q) + 1) /\ DOMAIN q = 1..Len(q)
        /\ \A i \in 1..Len(q) : r[i] = q[i]
        /\ r[Len(q) + 1] = e
    OBVIOUS
  <2> HIDE DEF r
  <2>4. Deduped(r)
    <3> SUFFICES ASSUME NEW i \in DOMAIN r, NEW j \in DOMAIN r, r[i].key = r[j].key
                 PROVE  i = j
      BY DEF Deduped
    <3>1. CASE i \in 1..Len(q) /\ j \in 1..Len(q) BY <2>3, <3>1 DEF Deduped
    <3>2. CASE i = Len(q) + 1 /\ j \in 1..Len(q) BY <1>2, <2>3, <3>2
    <3>3. CASE j = Len(q) + 1 /\ i \in 1..Len(q) BY <1>2, <2>3, <3>3
    <3> QED BY <2>3, <3>1, <3>2, <3>3
  <2>5. Range(r) = Range(q) \cup {e}
    <3>1. ASSUME NEW d \in Range(r) PROVE d \in Range(q) \cup {e}
      <4>1. PICK i \in DOMAIN r : r[i] = d BY <3>1 DEF Range
      <4>2. CASE i = Len(q) + 1 BY <4>1, <4>2, <2>3
      <4>3. CASE i \in 1..Len(q) BY <4>1, <4>3, <2>3 DEF Range
      <4> QED BY <4>2, <4>3, <2>3
    <3>2. ASSUME NEW d \in Range(q) PROVE d \in Range(r) BY <2>3 DEF Range
    <3>3. e \in Range(r)
      <4>1. Len(q) + 1 \in DOMAIN r BY <2>3
      <4> QED BY <4>1, <2>3 DEF Range
    <3> QED BY <3>1, <3>2, <3>3
  <2> QED BY <1>2, <2>1, <2>2, <2>4, <2>5 DEF Range
<1> QED BY <1>1, <1>2

\* The events of b that are the first of their key.
Firsts(b) == {b[i] : i \in {j \in DOMAIN b : \A k \in DOMAIN b : k < j => b[k].key # b[j].key}}

\* dedupeEvents keeps the first event of every key, and no other.
LEMMA DedupeKeeps ==
  ASSUME NEW b \in Seq(Envelopes)
  PROVE  /\ Dedupe(b) \in Seq(Envelopes)
         /\ Deduped(Dedupe(b))
         /\ Range(Dedupe(b)) = Firsts(b)
         /\ {e.key : e \in Range(Dedupe(b))} = {e.key : e \in Range(b)}
<1> DEFINE q(n) == Kept(b)[n]
           New(j) == \A k \in 1..(j - 1) : b[k].key # b[j].key
           P(n) == /\ q(n) \in Seq(Envelopes) /\ Deduped(q(n))
                   /\ \A d \in Range(q(n)) : \E i \in 1..n : b[i] = d /\ New(i)
                   /\ \A i \in 1..n : New(i) => b[i] \in Range(q(n))
                   /\ \A i \in 1..n : \E d \in Range(q(n)) : d.key = b[i].key
           S == {n \in Nat : n <= Len(b) => P(n)}
<1>1. Len(b) \in Nat /\ DOMAIN b = 1..Len(b) OBVIOUS
<1>2. 0 \in S
  <2>1. q(0) = <<>> BY KeptSteps
  <2>2. P(0) BY <2>1 DEF Deduped, Range
  <2> QED BY <2>2
<1>3. ASSUME NEW n \in Nat, n \in S PROVE n + 1 \in S
  <2> SUFFICES ASSUME n + 1 <= Len(b) PROVE P(n + 1) OBVIOUS
  <2>1. P(n) BY <1>1, <1>3
  <2>2. b[n + 1] \in Envelopes /\ n + 1 \in 1..Len(b) BY <1>1
  <2>3. q(n + 1) = DedupeStep(q(n), b[n + 1]) BY <2>2, KeptSteps
  <2> HIDE DEF q
  <2> DEFINE old == q(n)
             e == b[n + 1]
  <2>4. old \in Seq(Envelopes) /\ Deduped(old) /\ e \in Envelopes BY <2>1, <2>2
  <2> HIDE DEF old, e
  <2>5. LET r == DedupeStep(old, e)
         IN  /\ r \in Seq(Envelopes) /\ Deduped(r)
             /\ (\E d \in Range(old) : d.key = e.key) => r = old
             /\ (\A d \in Range(old) : d.key # e.key) => Range(r) = Range(old) \cup {e}
    BY <2>4, DedupeStepAdds, Zenon
  <2> USE DEF old, e
  <2>6. /\ q(n + 1) \in Seq(Envelopes) /\ Deduped(q(n + 1))
        /\ (\E d \in Range(q(n)) : d.key = b[n + 1].key) => q(n + 1) = q(n)
        /\ (\A d \in Range(q(n)) : d.key # b[n + 1].key) =>
              Range(q(n + 1)) = Range(q(n)) \cup {b[n + 1]}
    BY <2>3, <2>5
  <2>7. 1..(n + 1) = 1..n \cup {n + 1} OBVIOUS
  <2>8. CASE \E d \in Range(q(n)) : d.key = b[n + 1].key
    <3>1. ~New(n + 1)
      <4>1. PICK d \in Range(q(n)) : d.key = b[n + 1].key BY <2>8
      <4>2. PICK i \in 1..n : b[i] = d BY <2>1
      <4> QED BY <4>1, <4>2
    <3> QED BY <2>1, <2>6, <2>7, <2>8, <3>1
  <2>9. CASE \A d \in Range(q(n)) : d.key # b[n + 1].key
    <3>1. New(n + 1)
      <4> SUFFICES ASSUME NEW k \in 1..n PROVE b[k].key # b[n + 1].key OBVIOUS
      <4>1. PICK d \in Range(q(n)) : d.key = b[k].key BY <2>1
      <4> QED BY <4>1, <2>9
    <3>2. Range(q(n + 1)) = Range(q(n)) \cup {b[n + 1]} BY <2>6, <2>9
    <3> HIDE DEF New
    <3> QED BY <2>1, <2>6, <2>7, <3>1, <3>2
  <2> QED BY <2>8, <2>9
<1>4. P(Len(b))
  <2> HIDE DEF S
  <2>1. Len(b) \in S BY <1>1, <1>2, <1>3, InductionOverNat
  <2> QED BY <1>1, <2>1 DEF S
<1>5. q(Len(b)) = Dedupe(b) BY KeptSteps
<1>6. \A j \in DOMAIN b : New(j) <=> (\A k \in DOMAIN b : k < j => b[k].key # b[j].key)
  BY <1>1
<1> DEFINE d == Dedupe(b)
<1>7. P(Len(b)) /\ q(Len(b)) = d BY <1>4, <1>5
<1> HIDE DEF New, q, d
<1>8. Range(d) = Firsts(b)
  <2>1. ASSUME NEW e \in Range(d) PROVE e \in Firsts(b)
    BY <1>1, <1>6, <1>7, <2>1 DEF Firsts
  <2>2. ASSUME NEW e \in Firsts(b) PROVE e \in Range(d)
    <3>1. PICK i \in DOMAIN b : b[i] = e /\ \A k \in DOMAIN b : k < i => b[k].key # b[i].key
      BY DEF Firsts
    <3>2. New(i) BY <1>6, <3>1
    <3> QED BY <1>1, <1>7, <3>1, <3>2
  <2> QED BY <2>1, <2>2
<1>9. {e.key : e \in Range(d)} = {e.key : e \in Range(b)}
  <2>1. ASSUME NEW e \in Range(d) PROVE \E f \in Range(b) : f.key = e.key
    <3>1. PICK i \in DOMAIN b : b[i] = e BY <1>1, <1>7
    <3> QED BY <3>1 DEF Range
  <2>2. ASSUME NEW e \in Range(b) PROVE \E f \in Range(d) : f.key = e.key
    <3>1. PICK i \in DOMAIN b : b[i] = e BY DEF Range
    <3> QED BY <1>1, <1>7, <3>1
  <2> QED BY <2>1, <2>2
<1> QED BY <1>7, <1>8, <1>9 DEF d

-----------------------------------------------------------------------------
\* What NextID and the planner return.

LEMMA NewIDsType ==
  ASSUME NEW n \in Nat, NEW inUse, NEW q \in NewIDs(n, inUse)
  PROVE  /\ q \in Seq(IDs) /\ Len(q) = n /\ DOMAIN q = 1..n
         /\ ~MayCollide => IsInjective(q) /\ Range(q) \cap inUse = {}
<1> DEFINE fresh == {f \in [1..n -> IDs \ inUse] : IsInjective(f)}
<1>1. CASE MayCollide
  <2>1. q \in [1..n -> IDs] BY <1>1 DEF NewIDs
  <2> QED BY <1>1, <2>1
<1>2. CASE ~MayCollide
  <2>1. q \in fresh BY <1>2, Zenon DEF NewIDs
  <2>2. q \in [1..n -> IDs \ inUse] /\ IsInjective(q) BY <2>1
  <2>3. q \in [1..n -> IDs] BY <2>2
  <2>4. Range(q) \cap inUse = {} BY <2>2 DEF Range
  <2> QED BY <1>2, <2>2, <2>3, <2>4
<1> QED BY <1>1, <1>2

\* The rows of the plan are counted event by event, and route by route: row j of
\* it is for this event and for this of the n routes.
EventAt(j, n) == ((j - 1) \div n) + 1
RouteAt(j, n) == ((j - 1) % n) + 1

LEMMA RowOf ==
  ASSUME NEW L \in Nat, NEW n \in Nat \ {0}, NEW j \in 1..(L * n)
  PROVE  EventAt(j, n) \in 1..L /\ RouteAt(j, n) \in 1..n
<1> DEFINE d == (j - 1) \div n
           m == (j - 1) % n
<1>1. d \in Int /\ m \in 0..(n - 1) /\ j - 1 = n * d + m
  OBVIOUS
<1> HIDE DEF d, m
<1>2. d >= 0
  <2> SUFFICES ASSUME d <= -1 PROVE FALSE BY <1>1
  <2>1. n * d <= n * (-1) BY <1>1
  <2> QED BY <1>1, <2>1
<1>3. d < L
  <2> SUFFICES ASSUME d >= L PROVE FALSE BY <1>1
  <2>1. n * d >= n * L BY <1>1
  <2>2. n * L = L * n /\ L * n \in Nat OBVIOUS
  <2> QED BY <1>1, <2>1, <2>2
<1> QED BY <1>1, <1>2, <1>3 DEF d, m, EventAt, RouteAt

LEMMA RowFor ==
  ASSUME NEW L \in Nat, NEW n \in Nat \ {0}, NEW i \in 1..L, NEW k \in 1..n
  PROVE  \E j \in 1..(L * n) : EventAt(j, n) = i /\ RouteAt(j, n) = k
<1> DEFINE j == n * (i - 1) + k
<1>1. j \in 1..(L * n)
  <2>1. n * (i - 1) >= 0 OBVIOUS
  <2>2. n * (i - 1) + n = n * i OBVIOUS
  <2>3. n * i <= n * L OBVIOUS
  <2>4. n * L = L * n /\ n * (i - 1) \in Int /\ n * i \in Int /\ n * L \in Int OBVIOUS
  <2> HIDE DEF j
  <2>5. j = n * (i - 1) + k BY DEF j
  <2> QED BY <2>1, <2>2, <2>3, <2>4, <2>5
<1>2. (j - 1) \div n = i - 1 /\ (j - 1) % n = k - 1
  OBVIOUS
<1> HIDE DEF j
<1>3. EventAt(j, n) = i /\ RouteAt(j, n) = k BY <1>2 DEF EventAt, RouteAt
<1> QED BY <1>1, <1>3

\* The plan is a sequence of rows for the outbox.  Each belongs to an event in the
\* table and each event of the batch has one for every route.
LEMMA PlannedRows ==
  ASSUME TypeOK, NEW s \in Savers, Planner, \A e \in Range(batch[s]) : Found(s, e),
         NEW q \in Seq(IDs), Len(q) = Len(batch[s]) * Len(Routes)
  PROVE  LET p == [j \in DOMAIN q |-> PlannedRow(s, q, j)]
         IN  /\ p \in Seq(OutboxRows) /\ Len(p) = Len(q) /\ DOMAIN p = DOMAIN q
             /\ \A j \in DOMAIN p : NotificationOf(s, p[j])
             /\ \A e \in Range(batch[s]), r \in Range(Routes) :
                   \E j \in DOMAIN p : Announces(p[j], e, r)
<1> DEFINE L == Len(batch[s])
           n == Len(Routes)
           p == [j \in DOMAIN q |-> PlannedRow(s, q, j)]
<1>1. /\ batch[s] \in Seq(Envelopes) /\ L \in Nat /\ DOMAIN batch[s] = 1..L
      /\ n \in Nat \ {0} /\ DOMAIN Routes = 1..n
      /\ DOMAIN q = 1..(L * n)
  BY DEF TypeOK
<1>2. ASSUME NEW i \in 1..L
      PROVE  /\ batch[s][i] \in Range(batch[s])
             /\ \E r \in Persisted(s) : r.key = batch[s][i].key /\ EventID(s, i) = r.id
  <2>1. batch[s][i] \in Range(batch[s]) BY <1>1 DEF Range
  <2>2. \E r \in Persisted(s) : r.key = batch[s][i].key BY <2>1 DEF Found
  <2> QED BY <2>1, <2>2, Zenon DEF EventID
<1>3. ASSUME NEW j \in DOMAIN q
      PROVE  /\ p[j] \in OutboxRows
             /\ p[j].key = batch[s][EventAt(j, n)].key /\ p[j].name = batch[s][EventAt(j, n)].name
             /\ p[j].route = Routes[RouteAt(j, n)]
             /\ NotificationOf(s, p[j])
  <2>1. EventAt(j, n) \in 1..L /\ RouteAt(j, n) \in 1..n BY <1>1, RowOf
  <2> DEFINE i == EventAt(j, n)
             e == batch[s][i]
  <2>2. p[j] = [id |-> q[j], event |-> EventID(s, i), key |-> e.key, name |-> e.name,
                route |-> Routes[RouteAt(j, n)]]
    BY DEF PlannedRow, EventAt, RouteAt
  <2> HIDE DEF p, n, L
  <2>3. PICK r \in Persisted(s) : r.key = e.key /\ EventID(s, i) = r.id BY <1>2, <2>1
  <2>4. r \in InTable(s) /\ r.id \in IDs BY <2>3 DEF TypeOK, EventRows, Persisted, InTable
  <2>5. e \in Envelopes /\ e \in Range(batch[s]) BY <1>1, <1>2, <2>1
  <2>6. Routes[RouteAt(j, n)] \in Range(Routes) BY <1>1, <2>1 DEF Range
  <2>7. q[j] \in IDs OBVIOUS
  <2>8. p[j] \in OutboxRows BY <2>2, <2>3, <2>4, <2>5, <2>6, <2>7 DEF OutboxRows, Envelopes
  <2>9. NotificationOf(s, p[j])
    BY <2>2, <2>3, <2>4, <2>5 DEF NotificationOf, Announces, BelongsTo
  <2> QED BY <2>2, <2>8, <2>9
<1>4. ASSUME NEW e \in Range(batch[s]), NEW r \in Range(Routes)
      PROVE  \E j \in DOMAIN q : Announces(p[j], e, r)
  <2>1. PICK i \in 1..L : batch[s][i] = e BY <1>1 DEF Range
  <2>2. PICK k \in 1..n : Routes[k] = r BY <1>1 DEF Range
  <2>3. L \in Nat /\ n \in Nat \ {0} BY <1>1
  <2> HIDE DEF p, n, L
  <2>4. \A x \in 1..L, y \in 1..n : \E j \in 1..(L * n) : EventAt(j, n) = x /\ RouteAt(j, n) = y
    BY <2>3, RowFor, Zenon
  <2>5. PICK j \in 1..(L * n) : EventAt(j, n) = i /\ RouteAt(j, n) = k
    BY <2>1, <2>2, <2>4
  <2> QED BY <1>1, <1>3, <2>1, <2>2, <2>5 DEF Announces
<1>5. p \in Seq(OutboxRows) /\ Len(p) = Len(q) /\ DOMAIN p = DOMAIN q
  <2>1. L * n \in Nat BY <1>1
  <2>2. p \in [1..(L * n) -> OutboxRows] BY <1>1, <1>3
  <2> QED BY <1>1, <2>1, <2>2
<1> QED BY <1>3, <1>4, <1>5

-----------------------------------------------------------------------------
\* What a step of one saver leaves of the others.

\* Nothing of saver t changes.
Same(t) ==
    /\ pc'[t] = pc[t] /\ batch'[t] = batch[t] /\ ids'[t] = ids[t] /\ plan'[t] = plan[t]
    /\ at'[t] = at[t] /\ newEvents'[t] = newEvents[t] /\ newOutbox'[t] = newOutbox[t]

\* Rows that are added to the tables change nothing for it.
LEMMA SameKeeps ==
  ASSUME NEW t \in Savers, SaverInv(t), Same(t), events \subseteq events', outbox \subseteq outbox'
  PROVE  SaverInv(t)'
<1>1. InTable(t) \subseteq InTable(t)' /\ InOutbox(t) \subseteq InOutbox(t)'
  BY DEF Same, InTable, InOutbox
<1>2. ASSUME NEW e PROVE HasEvent(t, e) => HasEvent(t, e)' BY <1>1 DEF HasEvent
<1>3. ASSUME NEW o PROVE NotificationOf(t, o) => NotificationOf(t, o)'
  BY <1>1 DEF NotificationOf, BelongsTo, Announces, Same
<1>4. CallInv(t)' BY DEF SaverInv, CallInv, Same
<1>5. SavedInv(t)' BY <1>2 DEF SaverInv, SavedInv, Same
<1>6. PlanInv(t)' BY <1>1, <1>3 DEF SaverInv, PlanInv, Same, SameDelivery, Announces
<1> QED BY <1>4, <1>5, <1>6 DEF SaverInv

\* No event is added, and no call begins.
LEMMA NoNewEvents ==
  ASSUME KeysInv, FreshInv, AllEvents' \subseteq AllEvents,
         \A t \in Savers : pc'[t] = "events" =>
             pc[t] = "events" /\ ids'[t] = ids[t] /\ at'[t] = at[t]
  PROVE  KeysInv' /\ FreshInv'
<1>1. KeysInv' BY DEF KeysInv
<1>2. FreshInv' BY DEF FreshInv
<1> QED BY <1>1, <1>2

-----------------------------------------------------------------------------
\* Each step keeps the invariant.

LEMMA InitInd == Init => IndInv
<1> SUFFICES ASSUME Init PROVE IndInv OBVIOUS
<1> USE DEF Init
<1>1. TypeOK BY DEF TypeOK, Deduped
<1>2. \A s \in Savers : SaverInv(s) BY DEF SaverInv, CallInv, SavedInv, PlanInv
<1>3. AllEvents = {} BY DEF AllEvents
<1>4. KeysInv /\ FreshInv BY <1>3 DEF KeysInv, FreshInv
<1>5. OutboxMatchesEvents /\ Stored BY DEF OutboxMatchesEvents, Stored
<1> QED BY <1>1, <1>2, <1>4, <1>5 DEF IndInv

\* A call that is over holds nothing.
LEMMA IdleInv ==
  ASSUME NEW s \in Savers, TypeOK, Returns(s)
  PROVE  /\ SaverInv(s)'
         /\ \A t \in Savers \ {s} : Same(t)
         /\ \A t \in Savers : pc'[t] = "events" => Same(t)
         /\ UNION {newEvents'[t] : t \in Savers} \subseteq UNION {newEvents[t] : t \in Savers}
<1> USE DEF TypeOK, Returns, Goto
<1>1. /\ pc'[s] = "idle" /\ at'[s] = 1 /\ newEvents'[s] = {} /\ newOutbox'[s] = {}
      /\ \A t \in Savers \ {s} : Same(t)
  BY DEF Same
<1>2. SaverInv(s)' BY <1>1 DEF SaverInv, CallInv, SavedInv, PlanInv
<1>3. \A t \in Savers : newEvents'[t] \subseteq newEvents[t] BY <1>1 DEF Same
<1> QED BY <1>1, <1>2, <1>3

LEMMA ReturnsType ==
  ASSUME NEW s \in Savers, TypeOK, Returns(s),
         events' \subseteq EventRows, outbox' \subseteq OutboxRows,
         acked' \subseteq Keys, faults' \in 0..MaxFaults
  PROVE  TypeOK'
<1> USE DEF TypeOK, Returns, Goto
<1>1. pc' \in [Savers -> {"idle", "events", "select", "outbox", "commit"}] OBVIOUS
<1>2. /\ batch' \in [Savers -> Seq(Envelopes)] /\ ids' \in [Savers -> Seq(IDs)]
      /\ plan' \in [Savers -> Seq(OutboxRows)] /\ at' \in [Savers -> Nat]
  OBVIOUS
<1>3. \A t \in Savers : Deduped(batch'[t]) BY DEF Deduped
<1>4. \A t \in Savers : at'[t] \in 1..(Len(ids'[t]) + 1) OBVIOUS
<1>5. newEvents' \in [Savers -> SUBSET EventRows] /\ newOutbox' \in [Savers -> SUBSET OutboxRows]
  OBVIOUS
<1> QED BY <1>1, <1>2, <1>3, <1>4, <1>5

LEMMA RollbackInd ==
  ASSUME NEW s \in Savers, IndInv, Rollback(s), faults' \in 0..MaxFaults
  PROVE  IndInv'
<1>1. Returns(s) /\ UNCHANGED <<events, outbox, acked>> BY DEF Rollback, dbVars
<1>2. TypeOK BY DEF IndInv
<1>3. TypeOK' BY <1>1, <1>2, ReturnsType DEF TypeOK
<1>4. \A t \in Savers : SaverInv(t)'
  BY <1>1, <1>2, IdleInv, SameKeeps DEF IndInv
<1>5. AllEvents' \subseteq AllEvents BY <1>1, <1>2, IdleInv DEF AllEvents
<1>6. KeysInv' /\ FreshInv' BY <1>1, <1>2, <1>5, IdleInv, NoNewEvents DEF IndInv, Same
<1>7. OutboxMatchesEvents' /\ (Accounted => Stored')
  BY <1>1 DEF IndInv, OutboxMatchesEvents, Stored
<1> QED BY <1>3, <1>4, <1>6, <1>7 DEF IndInv, Accounted

LEMMA CommitInd ==
  ASSUME NEW s \in Savers, IndInv, CommitRows(s), faults' \in 0..MaxFaults,
         acked' \subseteq acked \cup {e.key : e \in Range(batch[s])}
  PROVE  IndInv'
<1>1. /\ Returns(s) /\ pc[s] = "commit"
      /\ events' = InTable(s) /\ outbox' = InOutbox(s)
  BY DEF CommitRows, InTable, InOutbox
<1>2. TypeOK /\ SaverInv(s) BY DEF IndInv
<1>3. TypeOK'
  <2>1. events' \subseteq EventRows /\ outbox' \subseteq OutboxRows
    BY <1>1, <1>2 DEF TypeOK, InTable, InOutbox
  <2>2. acked' \subseteq Keys
    <3>1. \A e \in Range(batch[s]) : e \in Envelopes BY <1>2 DEF TypeOK, Range
    <3>2. \A e \in Range(batch[s]) : e.key \in Keys BY <3>1 DEF Envelopes
    <3>3. acked \subseteq Keys BY <1>2 DEF TypeOK
    <3>4. {e.key : e \in Range(batch[s])} \subseteq Keys BY <3>2
    <3> QED BY <3>3, <3>4
  <2> QED BY <1>1, <1>2, <2>1, <2>2, ReturnsType
<1>4. events \subseteq events' /\ outbox \subseteq outbox' BY <1>1 DEF InTable, InOutbox
<1>5. \A t \in Savers : SaverInv(t)'
  BY <1>1, <1>2, <1>4, IdleInv, SameKeeps DEF IndInv
<1>6. InTable(s) \subseteq AllEvents BY DEF InTable, AllEvents
<1>7. AllEvents' \subseteq AllEvents BY <1>1, <1>2, <1>6, IdleInv DEF AllEvents
<1>8. KeysInv' /\ FreshInv' BY <1>1, <1>2, <1>7, IdleInv, NoNewEvents DEF IndInv, Same
<1>9. OutboxMatchesEvents'
  <2>1. ASSUME NEW o \in outbox' PROVE BelongsTo(o, events')
    <3>1. CASE o \in outbox
      BY <1>4, <3>1 DEF IndInv, OutboxMatchesEvents, BelongsTo
    <3>2. CASE o \in newOutbox[s]
      BY <1>1, <1>2, <3>2 DEF SaverInv, PlanInv, NotificationOf
    <3> QED BY <1>1, <2>1, <3>1, <3>2 DEF InOutbox
  <2>2. ASSUME Planner, NEW e \in events', NEW r \in Range(Routes)
        PROVE  \E o \in outbox' : o.event = e.id /\ o.key = e.key /\ o.route = r
    <3>1. CASE e \in events
      BY <1>4, <2>2, <3>1 DEF IndInv, OutboxMatchesEvents
    <3>2. CASE e \in newEvents[s]
      <4>1. PICK d \in Range(batch[s]) : d.key = e.key BY <1>2, <3>2 DEF SaverInv, CallInv
      <4>2. PICK o \in outbox' : Announces(o, d, r)
        BY <1>1, <1>2, <2>2 DEF SaverInv, PlanInv
      <4>3. PICK f \in events' : f.id = o.event /\ f.key = o.key BY <2>1 DEF BelongsTo
      <4>4. f = e BY <1>1, <1>6, <4>1, <4>2, <4>3 DEF IndInv, KeysInv, Announces
      <4> QED BY <4>1, <4>2, <4>3, <4>4 DEF Announces
    <3> QED BY <1>1, <3>1, <3>2 DEF InTable
  <2> QED BY <2>1, <2>2 DEF OutboxMatchesEvents, BelongsTo
<1>10. ASSUME Accounted PROVE Stored'
  <2> SUFFICES ASSUME NEW k \in acked' PROVE \E e \in events' : e.key = k BY DEF Stored
  <2>1. CASE k \in acked BY <1>4, <1>10, <2>1 DEF IndInv, Stored
  <2>2. CASE k \in {e.key : e \in Range(batch[s])}
    BY <1>1, <1>2, <1>10, <2>2 DEF SaverInv, SavedInv, HasEvent
  <2> QED BY <2>1, <2>2
<1> QED BY <1>3, <1>5, <1>8, <1>9, <1>10 DEF IndInv, Accounted

LEMMA SaveEventsInd ==
  ASSUME NEW s \in Savers, IndInv, SaveEvents(s)
  PROVE  IndInv'
<1>1. TypeOK /\ SaverInv(s) BY DEF IndInv
<1>2. PICK b \in Batches : /\ batch' = [batch EXCEPT ![s] = Dedupe(b)]
                           /\ \E q \in NewIDs(Len(Dedupe(b)), EventIDs) : ids' = [ids EXCEPT ![s] = q]
  BY DEF SaveEvents
<1> DEFINE d == Dedupe(b)
<1>3. PICK q \in NewIDs(Len(d), EventIDs) : ids' = [ids EXCEPT ![s] = q] BY <1>2
<1>4. d \in Seq(Envelopes) /\ Deduped(d)
  <2>1. b \in Seq(Envelopes) OBVIOUS
  <2> QED BY <2>1, DedupeKeeps
<1>5. /\ q \in Seq(IDs) /\ Len(q) = Len(d) /\ DOMAIN q = 1..Len(d)
      /\ ~MayCollide => IsInjective(q) /\ Range(q) \cap EventIDs = {}
  <2>1. Len(d) \in Nat BY <1>4
  <2> HIDE DEF d
  <2> QED BY <2>1, NewIDsType
<1> HIDE DEF d
<1>6. /\ pc[s] = "idle" /\ pc'[s] = "events" /\ batch'[s] = d /\ ids'[s] = q
      /\ at'[s] = 1 /\ newEvents'[s] = {} /\ newOutbox'[s] = {}
      /\ UNCHANGED <<events, outbox, acked, faults, plan, at, newEvents, newOutbox>>
      /\ \A t \in Savers \ {s} : Same(t)
  BY <1>1, <1>2, <1>3 DEF SaveEvents, Goto, TypeOK, SaverInv, CallInv, Same, dbVars, d
<1>7. TypeOK'
  <2>1. pc' \in [Savers -> {"idle", "events", "select", "outbox", "commit"}]
    BY <1>1 DEF TypeOK, SaveEvents, Goto
  <2>2. batch' \in [Savers -> Seq(Envelopes)] /\ ids' \in [Savers -> Seq(IDs)]
    BY <1>1, <1>2, <1>3, <1>4, <1>5 DEF TypeOK, d
  <2>3. \A t \in Savers : Deduped(batch'[t]) BY <1>1, <1>4, <1>6 DEF TypeOK, Same
  <2>4. \A t \in Savers : at'[t] \in 1..(Len(ids'[t]) + 1)
    BY <1>1, <1>4, <1>5, <1>6 DEF TypeOK, Same
  <2> QED BY <1>1, <1>6, <2>1, <2>2, <2>3, <2>4 DEF TypeOK
<1>8. \A t \in Savers : SaverInv(t)'
  <2>1. CallInv(s)' BY <1>2, <1>5, <1>6 DEF CallInv, d
  <2>2. SavedInv(s)' BY <1>6 DEF SavedInv
  <2>3. PlanInv(s)' BY <1>6 DEF PlanInv
  <2> QED BY <1>6, <2>1, <2>2, <2>3, SameKeeps DEF IndInv, SaverInv
<1>9. KeysInv' BY <1>6 DEF IndInv, KeysInv, AllEvents
<1>10. ASSUME ~MayCollide PROVE FreshInv'
  <2>1. AllEvents' = AllEvents BY <1>6 DEF AllEvents
  <2>2. \A r \in AllEvents : r.id \in EventIDs
    BY <1>1 DEF AllEvents, EventIDs, Range, TypeOK
  <2>3. \A t \in Savers : pc[t] = "events" => Range(ids[t]) \subseteq EventIDs BY DEF EventIDs
  <2>4. IsInjective(q) /\ Range(q) \cap EventIDs = {} BY <1>5, <1>10
  <2>5. \A i \in DOMAIN q : q[i] \notin EventIDs BY <2>4 DEF Range
  <2> SUFFICES ASSUME NEW t \in Savers, pc'[t] = "events"
               PROVE  /\ IsInjective(ids'[t])
                      /\ \A i \in at'[t]..Len(ids'[t]) : \A r \in AllEvents : r.id # ids'[t][i]
                      /\ \A u \in Savers \ {t} : pc'[u] = "events" =>
                            Range(ids'[t]) \cap Range(ids'[u]) = {}
    BY <2>1 DEF FreshInv
  <2>6. CASE t = s
    <3>1. \A i \in at'[t]..Len(ids'[t]) : i \in DOMAIN q BY <1>4, <1>5, <1>6, <2>6
    <3>2. \A u \in Savers \ {s} : pc'[u] = "events" => Range(ids'[u]) \subseteq EventIDs
      BY <1>6, <2>3 DEF Same
    <3> QED BY <1>6, <2>2, <2>4, <2>5, <2>6, <3>1, <3>2
  <2>7. CASE t # s
    <3>1. Same(t) /\ pc[t] = "events" BY <1>6, <2>7 DEF Same
    <3>2. /\ IsInjective(ids[t])
          /\ \A i \in at[t]..Len(ids[t]) : \A r \in AllEvents : r.id # ids[t][i]
          /\ \A u \in Savers \ {t} : pc[u] = "events" => Range(ids[t]) \cap Range(ids[u]) = {}
      BY <1>10, <3>1 DEF IndInv, FreshInv
    <3>3. Range(ids[t]) \cap Range(q) = {} BY <2>3, <2>4, <3>1
    <3>4. \A u \in Savers \ {t} : pc'[u] = "events" => Range(ids[t]) \cap Range(ids'[u]) = {}
      BY <1>6, <3>2, <3>3 DEF Same
    <3> QED BY <3>1, <3>2, <3>4 DEF Same
  <2> QED BY <2>6, <2>7
<1>11. OutboxMatchesEvents' /\ (Accounted => Stored')
  BY <1>6 DEF IndInv, OutboxMatchesEvents, Stored
<1> QED BY <1>7, <1>8, <1>9, <1>10, <1>11 DEF IndInv, Accounted, FreshInv

\* The row that is inserted next is one of the batch, with an ID of its own.
LEMMA NextRow ==
  ASSUME NEW s \in Savers, TypeOK, SaverInv(s), pc[s] = "events", Inserting(s)
  PROVE  /\ at[s] \in DOMAIN ids[s] /\ at[s] \in 1..Len(batch[s])
         /\ EventRow(s) \in EventRows
         /\ EventRow(s).id = ids[s][at[s]]
         /\ EventRow(s).key = batch[s][at[s]].key
         /\ batch[s][at[s]] \in Range(batch[s])
<1>1. /\ ids[s] \in Seq(IDs) /\ batch[s] \in Seq(Envelopes)
      /\ Len(ids[s]) = Len(batch[s]) /\ at[s] \in 1..Len(ids[s])
  BY DEF TypeOK, SaverInv, CallInv, Inserting
<1>2. at[s] \in DOMAIN ids[s] /\ at[s] \in DOMAIN batch[s] /\ at[s] \in 1..Len(batch[s]) BY <1>1
<1>3. ids[s][at[s]] \in IDs /\ batch[s][at[s]] \in Envelopes BY <1>1, <1>2
<1>4. EventRow(s) \in EventRows BY <1>3 DEF EventRow, EventRows, Envelopes
<1> QED BY <1>2, <1>4 DEF EventRow, Range

LEMMA InsertEventInd ==
  ASSUME NEW s \in Savers, IndInv, InsertEvent(s)
  PROVE  IndInv'
<1> DEFINE row == EventRow(s)
<1>1. TypeOK /\ SaverInv(s) BY DEF IndInv
<1>2. pc[s] = "events" /\ Inserting(s) /\ WaitsFor(s) = {} BY DEF InsertEvent
<1>3. /\ at[s] \in DOMAIN ids[s] /\ at[s] \in 1..Len(batch[s])
      /\ row \in EventRows /\ row.id = ids[s][at[s]] /\ row.key = batch[s][at[s]].key
      /\ batch[s][at[s]] \in Range(batch[s])
  BY <1>1, <1>2, NextRow
<1> HIDE DEF row
<1>4. /\ UNCHANGED <<events, outbox, acked, faults, pc, batch, ids, plan, newOutbox>>
      /\ at' = [at EXCEPT ![s] = @ + 1]
      /\ newEvents' = [newEvents EXCEPT ![s] =
                           IF \E r \in events \cup @ : SameEvent(r, row)
                           THEN @ ELSE @ \cup {row}]
  BY DEF InsertEvent, dbVars, row
<1>5. /\ at'[s] = at[s] + 1
      /\ \A t \in Savers \ {s} : Same(t)
      /\ \/ newEvents'[s] = newEvents[s] /\ \E r \in InTable(s) : SameEvent(r, row)
         \/ newEvents'[s] = newEvents[s] \cup {row} /\ \A r \in InTable(s) : ~SameEvent(r, row)
  BY <1>1, <1>4 DEF TypeOK, Same, InTable
<1>6. TypeOK'
  <2>1. newEvents'[s] \subseteq EventRows BY <1>1, <1>3, <1>5 DEF TypeOK
  <2>2. newEvents' \in [Savers -> SUBSET EventRows] BY <1>1, <1>4, <2>1 DEF TypeOK
  <2>3. at' \in [Savers -> Nat] BY <1>1, <1>4 DEF TypeOK
  <2>4. \A t \in Savers : at'[t] \in 1..(Len(ids'[t]) + 1)
    BY <1>1, <1>2, <1>4, <1>5 DEF TypeOK, Inserting, Same
  <2> QED BY <1>1, <1>4, <2>2, <2>3, <2>4 DEF TypeOK
<1>7. /\ InTable(s) \subseteq InTable(s)' /\ InOutbox(s)' = InOutbox(s)
      /\ \A e : HasEvent(s, e) => HasEvent(s, e)'
      /\ \A o : NotificationOf(s, o) => NotificationOf(s, o)'
  <2>1. InTable(s) \subseteq InTable(s)' /\ InOutbox(s)' = InOutbox(s)
    BY <1>4, <1>5 DEF InTable, InOutbox
  <2> QED BY <1>4, <2>1 DEF HasEvent, NotificationOf, BelongsTo, Announces
<1>8. CallInv(s)'
  BY <1>1, <1>2, <1>3, <1>4, <1>5 DEF SaverInv, CallInv
<1>9. SavedInv(s)'
  <2> SUFFICES ASSUME ~MayCollide, NEW i \in 1..(at'[s] - 1) PROVE HasEvent(s, batch[s][i])'
    BY <1>2, <1>4 DEF SavedInv
  <2>1. CASE i = at[s]
    <3>1. CASE \E r \in InTable(s) : SameEvent(r, row)
      <4>1. PICK r \in InTable(s) : SameEvent(r, row) BY <3>1
      <4>2. r \in AllEvents BY DEF InTable, AllEvents
      <4>3. at[s] \in at[s]..Len(ids[s]) BY <1>1, <1>2 DEF TypeOK, Inserting
      <4>4. r.id # ids[s][at[s]] BY <1>2, <4>2, <4>3 DEF IndInv, FreshInv
      <4>5. r.key = batch[s][i].key BY <1>3, <2>1, <4>1, <4>4 DEF SameEvent
      <4> QED BY <1>4, <1>7, <4>5 DEF HasEvent
    <3>2. CASE newEvents'[s] = newEvents[s] \cup {row}
      BY <1>3, <1>4, <2>1, <3>2 DEF HasEvent, InTable
    <3> QED BY <1>5, <3>1, <3>2
  <2>2. CASE i # at[s]
    <3>1. i \in 1..(at[s] - 1) BY <1>1, <1>5, <2>2 DEF TypeOK
    <3>2. HasEvent(s, batch[s][i]) BY <1>1, <1>2, <3>1 DEF SaverInv, SavedInv
    <3> QED BY <1>4, <1>7, <3>2 DEF HasEvent
  <2> QED BY <2>1, <2>2
<1>10. PlanInv(s)' BY <1>1, <1>2, <1>4, <1>7 DEF SaverInv, PlanInv
<1>11. \A t \in Savers : SaverInv(t)'
  BY <1>4, <1>5, <1>8, <1>9, <1>10, SameKeeps DEF IndInv, SaverInv
<1>12. /\ \/ AllEvents' = AllEvents
          \/ AllEvents' = AllEvents \cup {row} /\ \A r \in AllEvents : r.key # row.key
  <2>1. \A t \in Savers \ {s} : newEvents'[t] = newEvents[t] BY <1>5 DEF Same
  <2>2. \A t \in Savers \ {s} : \A r \in newEvents[t] : ~SameEvent(r, row)
    BY <1>2 DEF WaitsFor, row
  <2>3. CASE newEvents'[s] = newEvents[s]
    <3>1. \A t \in Savers : newEvents'[t] = newEvents[t] BY <2>1, <2>3
    <3> QED BY <1>4, <3>1 DEF AllEvents
  <2>4. CASE newEvents'[s] = newEvents[s] \cup {row} /\ \A r \in InTable(s) : ~SameEvent(r, row)
    <3>1. \A r \in AllEvents : ~SameEvent(r, row) BY <2>2, <2>4 DEF AllEvents, InTable
    <3>2. UNION {newEvents'[t] : t \in Savers} = (UNION {newEvents[t] : t \in Savers}) \cup {row}
      BY <2>1, <2>4
    <3> QED BY <1>4, <3>1, <3>2 DEF AllEvents, SameEvent
  <2> QED BY <1>5, <2>3, <2>4
<1>13. KeysInv' BY <1>12 DEF IndInv, KeysInv
<1>14. ASSUME ~MayCollide PROVE FreshInv'
  <2> SUFFICES ASSUME NEW t \in Savers, pc[t] = "events"
               PROVE  /\ IsInjective(ids[t])
                      /\ \A i \in at'[t]..Len(ids[t]) : \A r \in AllEvents' : r.id # ids[t][i]
                      /\ \A u \in Savers \ {t} : pc[u] = "events" =>
                            Range(ids[t]) \cap Range(ids[u]) = {}
    BY <1>4 DEF FreshInv
  <2>1. /\ IsInjective(ids[t])
        /\ \A i \in at[t]..Len(ids[t]) : \A r \in AllEvents : r.id # ids[t][i]
        /\ \A u \in Savers \ {t} : pc[u] = "events" => Range(ids[t]) \cap Range(ids[u]) = {}
    BY <1>14 DEF IndInv, FreshInv
  <2>2. ASSUME NEW i \in at'[t]..Len(ids[t]) PROVE i \in at[t]..Len(ids[t]) /\ row.id # ids[t][i]
    <3>1. at[t] \in Nat \ {0} /\ ids[t] \in Seq(IDs) BY <1>1 DEF TypeOK
    <3>2. CASE t = s
      BY <1>3, <1>5, <2>1, <3>1, <3>2 DEF IsInjective
    <3>3. CASE t # s
      <4>1. at'[t] = at[t] BY <1>5, <3>3 DEF Same
      <4>2. i \in DOMAIN ids[t] BY <3>1, <4>1
      <4>3. Range(ids[t]) \cap Range(ids[s]) = {} BY <1>2, <2>1, <3>3
      <4> QED BY <1>3, <4>1, <4>2, <4>3 DEF Range
    <3> QED BY <3>2, <3>3
  <2> QED BY <1>12, <2>1, <2>2
<1>15. OutboxMatchesEvents' /\ (Accounted => Stored')
  BY <1>4 DEF IndInv, OutboxMatchesEvents, Stored
<1> QED BY <1>6, <1>11, <1>13, <1>14, <1>15 DEF IndInv, Accounted, FreshInv

\* No other saver is past its rows.
LEMMA AtBounds ==
  ASSUME TypeOK, NEW s \in Savers, \A t \in Savers \ {s} : Same(t),
         at'[s] \in 1..(Len(ids'[s]) + 1)
  PROVE  \A t \in Savers : at'[t] \in 1..(Len(ids'[t]) + 1)
<1>1. ASSUME NEW t \in Savers \ {s} PROVE at'[t] \in 1..(Len(ids'[t]) + 1)
  BY DEF TypeOK, Same
<1> QED BY <1>1

\* A step that inserts no event and commits nothing is the business of its saver.
LEMMA OwnStep ==
  ASSUME NEW s \in Savers, IndInv, UNCHANGED <<events, outbox, newEvents, acked>>,
         \A t \in Savers \ {s} : Same(t), pc'[s] # "events", TypeOK', SaverInv(s)'
  PROVE  IndInv'
<1>1. \A t \in Savers : SaverInv(t)' BY SameKeeps DEF IndInv
<1>2. AllEvents' = AllEvents BY DEF AllEvents
<1>3. KeysInv' /\ FreshInv' BY <1>2, NoNewEvents DEF IndInv, Same
<1>4. OutboxMatchesEvents' /\ (Accounted => Stored')
  BY DEF IndInv, OutboxMatchesEvents, Stored
<1> QED BY <1>1, <1>3, <1>4 DEF IndInv, Accounted

LEMMA EventsInsertedInd ==
  ASSUME NEW s \in Savers, IndInv, EventsInserted(s)
  PROVE  IndInv'
<1>1. TypeOK /\ SaverInv(s) BY DEF IndInv
<1>2. /\ UNCHANGED <<events, outbox, newEvents, newOutbox, acked, faults, batch, plan>>
      /\ pc[s] = "events" /\ ~Inserting(s)
      /\ pc'[s] = (IF Planner THEN "select" ELSE "commit") /\ ids'[s] = <<>> /\ at'[s] = 1
      /\ \A t \in Savers \ {s} : Same(t)
  BY <1>1 DEF EventsInserted, TypeOK, Same, Goto, dbVars
<1>3. TypeOK'
  <2>1. pc' \in [Savers -> {"idle", "events", "select", "outbox", "commit"}]
    BY <1>1 DEF TypeOK, EventsInserted, Goto
  <2>2. ids' \in [Savers -> Seq(IDs)] /\ at' \in [Savers -> Nat]
    BY <1>1 DEF TypeOK, EventsInserted
  <2>3. \A t \in Savers : at'[t] \in 1..(Len(ids'[t]) + 1)
    <3>1. at'[s] \in 1..(Len(ids'[s]) + 1) BY <1>2
    <3> QED BY <1>1, <1>2, <3>1, AtBounds
  <2> QED BY <1>1, <1>2, <2>1, <2>2, <2>3 DEF TypeOK
<1>4. CallInv(s)' BY <1>1, <1>2 DEF SaverInv, CallInv
<1>5. SavedInv(s)'
  <2> SUFFICES ASSUME ~MayCollide, NEW e \in Range(batch[s]) PROVE HasEvent(s, e)
    BY <1>2 DEF SavedInv, HasEvent, InTable, Accounted
  <2> DEFINE b == batch[s]
  <2>0. DOMAIN b = 1..Len(b)
    <3>1. b \in Seq(Envelopes) BY <1>1 DEF TypeOK
    <3> QED BY <3>1
  <2>1. PICK i \in 1..Len(b) : b[i] = e BY <2>0 DEF Range
  <2>2. i \in 1..(at[s] - 1) BY <1>1, <1>2 DEF TypeOK, SaverInv, CallInv, Inserting
  <2> QED BY <1>1, <1>2, <2>1, <2>2 DEF SaverInv, SavedInv
<1>6. PlanInv(s)' BY <1>1, <1>2 DEF SaverInv, CallInv, PlanInv
<1> QED BY <1>2, <1>3, <1>4, <1>5, <1>6, OwnStep DEF SaverInv

LEMMA PlanOutboxInd ==
  ASSUME NEW s \in Savers, IndInv, PlanOutbox(s)
  PROVE  IndInv'
<1>1. TypeOK /\ SaverInv(s) BY DEF IndInv
<1> DEFINE n == Len(batch[s]) * Len(Routes)
<1>2. PICK q \in NewIDs(n, OutboxIDs) :
         /\ ids' = [ids EXCEPT ![s] = q]
         /\ plan' = [plan EXCEPT ![s] = [j \in DOMAIN q |-> PlannedRow(s, q, j)]]
  BY DEF PlanOutbox
<1>3. pc[s] = "select" /\ Planner /\ \A e \in Range(batch[s]) : Found(s, e)
  BY <1>1 DEF PlanOutbox, SaverInv, CallInv
<1>4. q \in Seq(IDs) /\ Len(q) = n
  <2>1. n \in Nat BY <1>1 DEF TypeOK
  <2> HIDE DEF n
  <2> QED BY <2>1, NewIDsType
<1> DEFINE p == [j \in DOMAIN q |-> PlannedRow(s, q, j)]
<1>5. /\ p \in Seq(OutboxRows) /\ Len(p) = Len(q)
      /\ \A j \in DOMAIN p : NotificationOf(s, p[j])
      /\ \A e \in Range(batch[s]), r \in Range(Routes) : \E j \in DOMAIN p : Announces(p[j], e, r)
  BY <1>1, <1>3, <1>4, PlannedRows
<1>6. plan' = [plan EXCEPT ![s] = p] BY <1>2
<1> HIDE DEF p, n
<1>7. /\ UNCHANGED <<events, outbox, newEvents, newOutbox, acked, faults, batch, at>>
      /\ pc'[s] = "outbox" /\ ids'[s] = q /\ plan'[s] = p /\ at[s] = 1 /\ newOutbox[s] = {}
      /\ \A t \in Savers \ {s} : Same(t)
  BY <1>1, <1>2, <1>3, <1>6 DEF PlanOutbox, TypeOK, Same, Goto, dbVars, SaverInv, CallInv
<1>8. TypeOK'
  <2>1. pc' \in [Savers -> {"idle", "events", "select", "outbox", "commit"}]
    BY <1>1 DEF TypeOK, PlanOutbox, Goto
  <2>2. ids' \in [Savers -> Seq(IDs)] /\ plan' \in [Savers -> Seq(OutboxRows)]
    BY <1>1, <1>2, <1>4, <1>5, <1>6 DEF TypeOK
  <2>3. \A t \in Savers : at'[t] \in 1..(Len(ids'[t]) + 1)
    <3>1. at'[s] \in 1..(Len(ids'[s]) + 1) BY <1>4, <1>7
    <3> QED BY <1>1, <1>7, <3>1, AtBounds
  <2> QED BY <1>1, <1>7, <2>1, <2>2, <2>3 DEF TypeOK
<1>9. CallInv(s)' BY <1>1, <1>3, <1>5, <1>7 DEF SaverInv, CallInv
<1>10. SavedInv(s)'
  <2> SUFFICES ASSUME NEW e \in Range(batch[s]) PROVE HasEvent(s, e)
    BY <1>7 DEF SavedInv, HasEvent, InTable
  <2> QED BY <1>3 DEF Found, Persisted, HasEvent, InTable
<1>11. PlanInv(s)'
  BY <1>5, <1>7 DEF PlanInv, NotificationOf, InTable, BelongsTo, Announces
<1> QED BY <1>7, <1>8, <1>9, <1>10, <1>11, OwnStep DEF SaverInv

LEMMA InsertOutboxInd ==
  ASSUME NEW s \in Savers, IndInv, InsertOutbox(s)
  PROVE  IndInv'
<1> DEFINE row == plan[s][at[s]]
<1>1. TypeOK /\ SaverInv(s) BY DEF IndInv
<1>2. pc[s] = "outbox" /\ Inserting(s) BY DEF InsertOutbox
<1>3. at[s] \in DOMAIN plan[s] /\ row \in OutboxRows
  BY <1>1, <1>2 DEF TypeOK, SaverInv, CallInv, Inserting
<1>4. /\ UNCHANGED <<events, outbox, newEvents, acked, faults, pc, batch, ids, plan>>
      /\ at' = [at EXCEPT ![s] = @ + 1]
      /\ \/ newOutbox' = [newOutbox EXCEPT ![s] = @ \cup {row}]
         \/ newOutbox' = newOutbox /\ \E r \in InOutbox(s) : SameDelivery(r, row)
  BY DEF InsertOutbox, dbVars, OutboxRow, InOutbox
<1> HIDE DEF row
<1>5. /\ at'[s] = at[s] + 1
      /\ \A t \in Savers \ {s} : Same(t)
      /\ newOutbox[s] \subseteq newOutbox'[s] /\ newOutbox'[s] \subseteq newOutbox[s] \cup {row}
      /\ \E o \in InOutbox(s)' : SameDelivery(o, row)
  <2>1. at'[s] = at[s] + 1 /\ \A t \in Savers \ {s} : Same(t)
    BY <1>1, <1>4 DEF TypeOK, Same
  <2>2. CASE newOutbox' = [newOutbox EXCEPT ![s] = @ \cup {row}]
    BY <1>1, <2>1, <2>2 DEF TypeOK, InOutbox, SameDelivery
  <2>3. CASE newOutbox' = newOutbox /\ \E r \in InOutbox(s) : SameDelivery(r, row)
    BY <1>4, <2>1, <2>3 DEF InOutbox
  <2> QED BY <1>4, <2>2, <2>3
<1>6. TypeOK'
  <2>1. newOutbox' \in [Savers -> SUBSET OutboxRows]
    <3>1. newOutbox \in [Savers -> SUBSET OutboxRows] BY <1>1 DEF TypeOK
    <3>2. newOutbox[s] \cup {row} \in SUBSET OutboxRows BY <1>3, <3>1
    <3> QED BY <1>4, <3>1, <3>2
  <2>2. at' \in [Savers -> Nat] BY <1>1, <1>4 DEF TypeOK
  <2>3. \A t \in Savers : at'[t] \in 1..(Len(ids'[t]) + 1)
    <3>1. at'[s] \in 1..(Len(ids'[s]) + 1) BY <1>1, <1>2, <1>4, <1>5 DEF TypeOK, Inserting
    <3> QED BY <1>1, <1>5, <3>1, AtBounds
  <2> QED BY <1>1, <1>4, <2>1, <2>2, <2>3 DEF TypeOK
<1>7. CallInv(s)' BY <1>1, <1>2, <1>4 DEF SaverInv, CallInv
<1>8. SavedInv(s)' BY <1>1, <1>2, <1>4 DEF SaverInv, SavedInv, HasEvent, InTable
<1>9. PlanInv(s)'
  <2>1. ASSUME NEW o PROVE NotificationOf(s, o)' <=> NotificationOf(s, o)
    BY <1>4 DEF NotificationOf, BelongsTo, Announces, InTable
  <2>2. NotificationOf(s, row) BY <1>1, <1>2, <1>3 DEF SaverInv, PlanInv, row
  <2>3. \A o \in newOutbox'[s] : NotificationOf(s, o)'
    BY <1>1, <1>5, <2>1, <2>2 DEF SaverInv, PlanInv
  <2>4. ASSUME NEW j \in 1..(at'[s] - 1) PROVE \E o \in InOutbox(s)' : SameDelivery(o, plan[s][j])
    <3>1. CASE j = at[s] BY <1>5, <3>1 DEF row
    <3>2. CASE j # at[s]
      <4>1. j \in 1..(at[s] - 1) BY <1>1, <1>5, <3>2 DEF TypeOK
      <4>2. InOutbox(s) \subseteq InOutbox(s)' BY <1>4, <1>5 DEF InOutbox
      <4> QED BY <1>1, <1>2, <4>1, <4>2 DEF SaverInv, PlanInv
    <3> QED BY <3>1, <3>2
  <2> QED BY <1>1, <1>2, <1>4, <2>1, <2>3, <2>4 DEF SaverInv, PlanInv, SameDelivery
<1> QED BY <1>2, <1>4, <1>5, <1>6, <1>7, <1>8, <1>9, OwnStep DEF SaverInv

LEMMA OutboxInsertedInd ==
  ASSUME NEW s \in Savers, IndInv, OutboxInserted(s)
  PROVE  IndInv'
<1>1. TypeOK /\ SaverInv(s) BY DEF IndInv
<1>2. /\ UNCHANGED <<events, outbox, newEvents, newOutbox, acked, faults, batch>>
      /\ pc[s] = "outbox" /\ ~Inserting(s)
      /\ pc'[s] = "commit" /\ ids'[s] = <<>> /\ plan'[s] = <<>> /\ at'[s] = 1
      /\ \A t \in Savers \ {s} : Same(t)
  BY <1>1 DEF OutboxInserted, TypeOK, Same, Goto, dbVars
<1>3. TypeOK'
  <2>1. pc' \in [Savers -> {"idle", "events", "select", "outbox", "commit"}]
    BY <1>1 DEF TypeOK, OutboxInserted, Goto
  <2>2. /\ ids' \in [Savers -> Seq(IDs)] /\ at' \in [Savers -> Nat]
        /\ plan' \in [Savers -> Seq(OutboxRows)]
    BY <1>1 DEF TypeOK, OutboxInserted
  <2>3. \A t \in Savers : at'[t] \in 1..(Len(ids'[t]) + 1)
    <3>1. at'[s] \in 1..(Len(ids'[s]) + 1) BY <1>2
    <3> QED BY <1>1, <1>2, <3>1, AtBounds
  <2> QED BY <1>1, <1>2, <2>1, <2>2, <2>3 DEF TypeOK
<1>4. CallInv(s)' BY <1>1, <1>2 DEF SaverInv, CallInv
<1>5. SavedInv(s)' BY <1>1, <1>2 DEF SaverInv, SavedInv, HasEvent, InTable
<1>6. PlanInv(s)'
  <2>1. \A o \in newOutbox'[s] : NotificationOf(s, o)'
    BY <1>1, <1>2 DEF SaverInv, PlanInv, NotificationOf, BelongsTo, Announces, InTable
  <2>2. ASSUME NEW e \in Range(batch[s]), NEW r \in Range(Routes)
        PROVE  \E o \in InOutbox(s) : Announces(o, e, r)
    <3>1. PICK j \in DOMAIN plan[s] : Announces(plan[s][j], e, r)
      BY <1>1, <1>2 DEF SaverInv, PlanInv
    <3>2. j \in 1..(at[s] - 1)
      BY <1>1, <1>2 DEF TypeOK, SaverInv, CallInv, Inserting
    <3>3. PICK o \in InOutbox(s) : SameDelivery(o, plan[s][j])
      BY <1>1, <1>2, <3>2 DEF SaverInv, PlanInv
    <3> QED BY <3>1, <3>3 DEF SameDelivery, Announces
  <2> QED BY <1>2, <2>1, <2>2 DEF PlanInv, InOutbox, Announces
<1> QED BY <1>2, <1>3, <1>4, <1>5, <1>6, OwnStep DEF SaverInv

LEMMA NextInd == IndInv /\ [Next]_vars => IndInv'
<1> SUFFICES ASSUME IndInv, [Next]_vars PROVE IndInv' OBVIOUS
<1>1. faults \in 0..MaxFaults /\ (Fault => faults' \in 0..MaxFaults)
  BY DEF IndInv, TypeOK, Fault
<1>2. CASE UNCHANGED vars
  <2> USE <1>2 DEF vars, dbVars, saverVars
  <2>1. TypeOK' /\ KeysInv' /\ FreshInv' /\ OutboxMatchesEvents' /\ (Accounted => Stored')
    BY DEF IndInv, TypeOK, KeysInv, FreshInv, OutboxMatchesEvents, Stored, AllEvents
  <2>2. \A s \in Savers : Same(s) BY DEF Same
  <2>3. \A s \in Savers : SaverInv(s)' BY <2>2, SameKeeps DEF IndInv
  <2> QED BY <2>1, <2>3 DEF IndInv, Accounted
<1>3. ASSUME NEW s \in Savers, SaveEvents(s) PROVE IndInv' BY <1>3, SaveEventsInd
<1>4. ASSUME NEW s \in Savers, InsertEvent(s) PROVE IndInv' BY <1>4, InsertEventInd
<1>5. ASSUME NEW s \in Savers, EventsInserted(s) PROVE IndInv' BY <1>5, EventsInsertedInd
<1>6. ASSUME NEW s \in Savers, PlanOutbox(s) PROVE IndInv' BY <1>6, PlanOutboxInd
<1>7. ASSUME NEW s \in Savers, EventMissing(s) PROVE IndInv'
  BY <1>1, <1>7, RollbackInd DEF EventMissing
<1>8. ASSUME NEW s \in Savers, InsertOutbox(s) PROVE IndInv' BY <1>8, InsertOutboxInd
<1>9. ASSUME NEW s \in Savers, OutboxRefused(s) PROVE IndInv'
  BY <1>1, <1>9, RollbackInd DEF OutboxRefused
<1>10. ASSUME NEW s \in Savers, OutboxInserted(s) PROVE IndInv' BY <1>10, OutboxInsertedInd
<1>11. ASSUME NEW s \in Savers, Commit(s) PROVE IndInv'
  BY <1>1, <1>11, CommitInd DEF Commit
<1>12. ASSUME NEW s \in Savers, CommitLost(s) PROVE IndInv'
  BY <1>1, <1>12, CommitInd DEF CommitLost
<1>13. ASSUME NEW s \in Savers, Fails(s) PROVE IndInv' BY <1>1, <1>13, RollbackInd DEF Fails
<1>14. ASSUME NEW s \in Savers, DeadlockAbort(s) PROVE IndInv'
  BY <1>1, <1>14, RollbackInd DEF DeadlockAbort
<1> QED BY <1>2, <1>3, <1>4, <1>5, <1>6, <1>7, <1>8, <1>9, <1>10, <1>11, <1>12, <1>13, <1>14
        DEF Next, Step

\* In every state the tables and the calls agree as IndInv says: what a call has
\* inserted, what it has planned, and the IDs it has left.
THEOREM Invariance == Spec => []IndInv
BY InitInd, NextInd, PTL DEF Spec

\* The variables of SaveEvents and the tables keep their types, and no batch has a
\* key twice once dedupeEvents is through with it.
THEOREM TypeCorrect == Spec => []TypeOK
<1>1. IndInv => TypeOK BY DEF IndInv
<1> QED BY Invariance, <1>1, PTL

\* Whatever fails and whatever transactions meet, an event and its notifications
\* are recorded together, and a notification refers to the row that is there.
THEOREM OutboxMatchesEventsHolds == Spec => []OutboxMatchesEvents
<1>1. IndInv => OutboxMatchesEvents BY DEF IndInv
<1> QED BY Invariance, <1>1, PTL

\* What SaveEvents reported as saved is in chain_events, as long as the events are
\* read back or their IDs are unique.
THEOREM StoredHolds == ASSUME Accounted PROVE Spec => []Stored
<1>1. IndInv => Stored BY DEF IndInv
<1> QED BY Invariance, <1>1, PTL

-----------------------------------------------------------------------------
\* SaveEvents does what EventLedger says.

Recorded == {e.key : e \in events}
Notes    == {<<o.key, o.name, o.route>> : o \in outbox}

\* What the ledger records of a batch, in terms of what is left of the batch.
LEMMA LedgerOf ==
  ASSUME NEW b \in Batches
  PROVE  /\ Ledger!KeysOf(b) = {e.key : e \in Range(Dedupe(b))}
         /\ Planner => Ledger!NotesOf(b) =
               {<<e.key, e.name, r>> : e \in Range(Dedupe(b)), r \in Range(Routes)}
         /\ ~Planner => Ledger!NotesOf(b) = {}
<1>1. b \in Seq(Envelopes) OBVIOUS
<1>2. Range(Dedupe(b)) = Firsts(b) BY <1>1, DedupeKeeps
<1>3. Ledger!KeysOf(b) = {e.key : e \in Range(Dedupe(b))}
  <2>1. Ledger!KeysOf(b) = {e.key : e \in Range(b)} BY DEF Ledger!KeysOf, Ledger!Members, Range
  <2> QED BY <1>1, <2>1, DedupeKeeps
<1>4. ASSUME Planner
      PROVE  Ledger!NotesOf(b) =
                {<<e.key, e.name, r>> : e \in Firsts(b), r \in Range(Routes)}
  <2> DEFINE All == Ledger!Members(IF Planner THEN Routes ELSE <<>>)
             Fst == {j \in DOMAIN b : \A k \in DOMAIN b : k < j => b[k].key # b[j].key}
  <2>1. All = Range(Routes) BY <1>4 DEF Ledger!Members, Range
  <2>2. Firsts(b) = {b[i] : i \in Fst} BY DEF Firsts
  <2>3. \A x : x \in Ledger!NotesOf(b)
           <=> \E i \in Fst, r \in All : x = <<b[i].key, b[i].name, r>>
    BY DEF Ledger!NotesOf
  <2> HIDE DEF Fst, All
  <2>4. ASSUME NEW x \in Ledger!NotesOf(b)
        PROVE  x \in {<<e.key, e.name, r>> : e \in Firsts(b), r \in Range(Routes)}
    BY <2>1, <2>2, <2>3
  <2>5. ASSUME NEW e \in Firsts(b), NEW r \in Range(Routes)
        PROVE  <<e.key, e.name, r>> \in Ledger!NotesOf(b)
    BY <2>1, <2>2, <2>3
  <2> QED BY <2>4, <2>5
<1>5. ~Planner => Ledger!NotesOf(b) = {} BY DEF Ledger!NotesOf, Ledger!Members
<1> QED BY <1>2, <1>3, <1>4, <1>5

\* A commit adds the events of a batch and their notifications, all of them and
\* nothing else.
LEMMA CommitSaves ==
  ASSUME Accounted, IndInv, NEW s \in Savers, CommitRows(s)
  PROVE  \E b \in Batches : /\ Recorded' = Recorded \cup Ledger!KeysOf(b)
                            /\ Notes' = Notes \cup Ledger!NotesOf(b)
                            /\ Ledger!KeysOf(b) = {e.key : e \in Range(batch[s])}
<1>1. TypeOK /\ SaverInv(s) BY DEF IndInv
<1>2. pc[s] = "commit" /\ events' = InTable(s) /\ outbox' = InOutbox(s)
  BY DEF CommitRows, InTable, InOutbox
<1>3. PICK b \in Batches : batch[s] = Dedupe(b) BY <1>1, <1>2 DEF SaverInv, CallInv
<1>4. Ledger!KeysOf(b) = {e.key : e \in Range(batch[s])} BY <1>3, LedgerOf
<1>5. Recorded' = Recorded \cup Ledger!KeysOf(b)
  <2>1. \A e \in Range(batch[s]) : \E r \in InTable(s) : r.key = e.key
    BY <1>1, <1>2 DEF SaverInv, SavedInv, HasEvent
  <2>2. \A r \in newEvents[s] : \E e \in Range(batch[s]) : e.key = r.key
    BY <1>1 DEF SaverInv, CallInv
  <2> QED BY <1>2, <1>4, <2>1, <2>2 DEF Recorded, InTable
<1>6. Notes' = Notes \cup Ledger!NotesOf(b)
  <2>1. CASE Planner
    <3>1. Ledger!NotesOf(b) = {<<e.key, e.name, r>> : e \in Range(batch[s]), r \in Range(Routes)}
      BY <1>3, <2>1, LedgerOf
    <3>2. ASSUME NEW x \in Ledger!NotesOf(b) PROVE x \in Notes'
      <4>1. PICK e \in Range(batch[s]), r \in Range(Routes) : x = <<e.key, e.name, r>> BY <3>1
      <4>2. PICK o \in InOutbox(s) : Announces(o, e, r)
        BY <1>1, <1>2, <2>1 DEF SaverInv, PlanInv
      <4> QED BY <1>2, <4>1, <4>2 DEF Notes, Announces
    <3>3. ASSUME NEW o \in newOutbox[s] PROVE <<o.key, o.name, o.route>> \in Ledger!NotesOf(b)
      <4>1. PICK e \in Range(batch[s]) : Announces(o, e, o.route)
        BY <1>1 DEF SaverInv, PlanInv, NotificationOf
      <4>2. o.route \in Range(Routes) BY <1>1 DEF TypeOK, OutboxRows
      <4> QED BY <3>1, <4>1, <4>2 DEF Announces
    <3> QED BY <1>2, <3>2, <3>3 DEF Notes, InOutbox
  <2>2. CASE ~Planner
    <3>1. newOutbox[s] = {} BY <1>1, <2>2 DEF SaverInv, CallInv
    <3>2. Ledger!NotesOf(b) = {} BY <2>2, LedgerOf
    <3> QED BY <1>2, <3>1, <3>2 DEF Notes, InOutbox
  <2> QED BY <2>1, <2>2
<1> QED BY <1>4, <1>5, <1>6

\* The other steps change nothing that the ledger shows.
LEMMA OtherSteps ==
  ASSUME NEW s \in Savers, SaveEvents(s) \/ Step(s) \/ CommitLost(s) \/ Fails(s) \/ DeadlockAbort(s)
  PROVE  UNCHANGED <<events, outbox, acked>> \/ Commit(s) \/ CommitLost(s)
BY DEF SaveEvents, Step, Fails, DeadlockAbort, InsertEvent, EventsInserted, PlanOutbox,
       EventMissing, InsertOutbox, OutboxRefused, OutboxInserted, Rollback, dbVars

\* As long as the events are read back or their IDs are unique, concurrent calls of
\* SaveEvents behave as if each recorded its batch and the notifications at once,
\* or nothing.
THEOREM Refinement == ASSUME Accounted PROVE Spec => Implements
<1>1. Init => Ledger!Init
  BY DEF Init, Ledger!Init
<1>2. IndInv /\ [Next]_vars => [Ledger!Next]_(Ledger!vars)
  <2> SUFFICES ASSUME IndInv, [Next]_vars PROVE [Ledger!Next]_(Ledger!vars) OBVIOUS
  <2>1. CASE UNCHANGED <<events, outbox, acked>> BY <2>1 DEF Ledger!vars
  <2>2. ASSUME NEW s \in Savers, Commit(s) \/ CommitLost(s) PROVE Ledger!Next
    <3>1. CommitRows(s) BY <2>2 DEF Commit, CommitLost
    <3>2. PICK b \in Batches : /\ Recorded' = Recorded \cup Ledger!KeysOf(b)
                               /\ Notes' = Notes \cup Ledger!NotesOf(b)
                               /\ Ledger!KeysOf(b) = {e.key : e \in Range(batch[s])}
      BY <3>1, CommitSaves
    <3>3. acked' = acked \cup Ledger!KeysOf(b) \/ acked' = acked
      BY <2>2, <3>2 DEF Commit, CommitLost
    <3>4. Ledger!Save(b) BY <3>2, <3>3 DEF Ledger!Save, Recorded, Notes
    <3> QED BY <3>4 DEF Ledger!Next
  <2> QED BY <2>1, <2>2, OtherSteps DEF Next, vars, dbVars
<1> QED BY <1>1, <1>2, Invariance, PTL DEF Spec, Implements, Ledger!Spec
=============================================================================
