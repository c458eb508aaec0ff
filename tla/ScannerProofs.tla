---------------------------- MODULE ScannerProofs ----------------------------
(***************************************************************************)
(* What holds of Scanner for every value of its constants.                 *)
(***************************************************************************)
EXTENDS Scanner, TLAPS

USE ChainAssumption, ScannerAssumption

\* The bounds of the chunks of a round are block heights.
LEMMA ChunkBounds ==
  ASSUME next \in [Scanners -> Nat], safe \in [Scanners -> Nat],
         NEW s \in Scanners, NEW i \in ChunkIndex
  PROVE  ChunkFrom(s, i) \in Nat /\ ChunkTo(s, i) \in Nat
<1>1. i \in Nat /\ i * ChunkSize \in Nat
  BY DEF ChunkIndex
<1>2. ChunkFrom(s, i) \in Nat
  BY <1>1 DEF ChunkFrom
<1> QED
  BY <1>2 DEF ChunkTo, Least

\* Every log is of a block, in a fork, returned by a query.
LEMMA LogType ==
  ASSUME NEW l \in Logs
  PROVE  l[1] \in Blocks /\ l[2] \in Forks /\ l[3] \in 1..NumQueries
OBVIOUS

\* The initial job of a chunk is a job.
LEMMA NoJobType == NoJob \in Jobs
BY DEF NoJob, Jobs, JobStates

\* The end of a round leaves its variables well typed.
LEMMA EndRoundType ==
  ASSUME TypeOK, NEW s \in Scanners, EndRound(s)
  PROVE  /\ latest' \in [Scanners -> Nat]
         /\ safe' \in [Scanners -> Nat]
         /\ next' \in [Scanners -> Nat]
         /\ adv' \in [Scanners -> Nat]
         /\ job' \in [Scanners -> [ChunkIndex -> Jobs]]
BY NoJobType DEF TypeOK, EndRound

\* TypeOK: every step of the program keeps every variable in its domain.
LEMMA TypeStep == TypeOK /\ [Next]_vars => TypeOK'
<1> SUFFICES ASSUME TypeOK, [Next]_vars PROVE TypeOK'
  OBVIOUS
<1> USE DEF TypeOK
<1>1. CASE ChainStep
  <2>1. ChainTypeOK'
    <3>1. CASE Extend BY <3>1 DEF Extend, ChainTypeOK, Blocks
    <3>2. CASE Reorg
      <4>1. fork[MaxHead] + 1 \in Forks
        BY <3>2 DEF Reorg, ChainTypeOK, Forks, Blocks
      <4> QED BY <3>2, <4>1 DEF Reorg, ChainTypeOK
    <3> QED BY <1>1, <3>1, <3>2 DEF ChainStep
  <2> QED BY <1>1, <2>1 DEF ChainStep, dbVars, roundVars, procVars
<1>2. ASSUME NEW s \in Scanners, Step(s) \/ RoundFault(s) \/ Process(s)
                \/ \E i \in ChunkIndex : ChunkFault(s, i)
      PROVE  TypeOK'
  <2> USE DEF chainVars, ChainTypeOK, dbVars, roundVars, procVars, Goto, Fault
  <2>1. CASE BlockNumber(s)
    BY <2>1 DEF BlockNumber, HasSafeBlock, SafeBlock, EndpointHeads, Blocks
  <2>2. CASE GetCursor(s) BY <2>2 DEF GetCursor, Frontier
  <2>3. CASE CaughtUp(s) BY <2>3, EndRoundType DEF CaughtUp
  <2>4. CASE GetCursorErr(s) BY <2>4, EndRoundType DEF GetCursorErr
  <2>5. CASE ComputeCommitPoint(s)
    <3>1. PICK k \in 0..MaxInflightChunks :
             /\ CommitPoint(s, k)
             /\ IF k > 0
                THEN /\ adv' = [adv EXCEPT ![s] = ChunkTo(s, k - 1) + 1]
                     /\ job' = [job EXCEPT ![s] = [i \in ChunkIndex |-> NoJob]]
                     /\ Goto(s, "save")
                     /\ UNCHANGED <<latest, safe, next>>
                ELSE Goto(s, "poll") /\ EndRound(s)
      BY <2>5 DEF ComputeCommitPoint
    <3>2. CASE k > 0
      <4>1. k - 1 \in ChunkIndex BY <3>2 DEF ChunkIndex
      <4>2. ChunkTo(s, k - 1) + 1 \in Nat BY <4>1, ChunkBounds
      <4>3. job' \in [Scanners -> [ChunkIndex -> Jobs]]
        BY <3>1, <3>2, NoJobType
      <4>4. adv' \in [Scanners -> Nat]
        BY <3>1, <3>2, <4>2
      <4>5. pc' \in [Scanners -> {"poll", "cursor", "run", "save", "down"}]
        BY <3>1, <3>2
      <4>6. UNCHANGED <<chainVars, dbVars, stop, faults, latest, safe, next>>
        BY <2>5, <3>1, <3>2 DEF ComputeCommitPoint
      <4> QED BY <4>3, <4>4, <4>5, <4>6
    <3>3. CASE ~(k > 0) BY <2>5, <3>1, <3>3, EndRoundType DEF ComputeCommitPoint
    <3> QED BY <3>2, <3>3
  <2>6. CASE SaveCursor(s)
    BY <2>6, EndRoundType DEF SaveCursor, UpsertCursor, Greatest
  <2>7. CASE SaveCursorErr(s) BY <2>7, EndRoundType DEF SaveCursorErr
  <2>8. CASE SaveCursorLost(s)
    BY <2>8, EndRoundType DEF SaveCursorLost, UpsertCursor, Greatest
  <2>9. ASSUME NEW i \in ChunkIndex, Chunk(s, i) \/ ChunkFault(s, i)
        PROVE  TypeOK'
    <3> USE DEF SetJob, Finish, Is, NoJob, Jobs, JobStates, SaveEvents
    <3>1. CASE FeedJob(s, i) BY <3>1 DEF FeedJob
    <3>2. CASE FilterLogs(s, i)
      <4>1. PICK h \in EndpointHeads :
              LET q == job[s][i].q + 1
              IN  SetJob(s, i, [st   |-> IF q = NumQueries THEN "handle" ELSE "fetch",
                                q    |-> q,
                                logs |-> Collected(s, i, q, h)])
        BY <3>2 DEF FilterLogs
      <4> DEFINE q == job[s][i].q + 1
                 r == [st   |-> IF q = NumQueries THEN "handle" ELSE "fetch",
                       q    |-> q,
                       logs |-> job[s][i].logs \cup LogsOf(s, i, q, h)]
      <4>2. job[s][i].q < NumQueries
        BY <3>2 DEF FilterLogs
      <4>3. job[s][i].logs \cup LogsOf(s, i, q, h) \in SUBSET Logs
        BY DEF LogsOf
      <4>4. r \in Jobs
        BY <4>2, <4>3
      <4> HIDE DEF r
      <4>5. job' = [job EXCEPT ![s][i] = r]
        BY <4>1 DEF r, Collected
      <4> QED BY <3>2, <4>4, <4>5 DEF FilterLogs
    <3>3. CASE ChunkErr(s, i) BY <3>3 DEF ChunkErr
    <3>4. CASE ChunkAborted(s, i) BY <3>4 DEF ChunkAborted
    <3>5. CASE HandleLogs(s, i) BY <3>5 DEF HandleLogs
    <3>6. CASE HandleLogsLost(s, i) BY <3>6 DEF HandleLogsLost
    <3>7. CASE HandleLogsCut(s, i) BY <3>7 DEF HandleLogsCut
    <3> QED BY <2>9, <3>1, <3>2, <3>3, <3>4, <3>5, <3>6, <3>7 DEF Chunk, ChunkFault
  <2>10. CASE Cancel(s) BY <2>10 DEF Cancel
  <2>11. CASE RunReturns(s) BY <2>11, EndRoundType DEF RunReturns
  <2>12. CASE Crash(s) BY <2>12, EndRoundType DEF Crash
  <2>13. CASE Restart(s) BY <2>13 DEF Restart
  <2> QED
    BY <1>2, <2>1, <2>2, <2>3, <2>4, <2>5, <2>6, <2>7, <2>8, <2>9, <2>10,
       <2>11, <2>12, <2>13 DEF Step, Round, RoundFault, Process
<1>3. CASE UNCHANGED vars
  BY <1>3 DEF vars, chainVars, dbVars, roundVars, procVars, ChainTypeOK
<1> QED BY <1>1, <1>2, <1>3 DEF Next

\* The type invariant holds in every reachable state.
THEOREM TypeCorrect == Spec => []TypeOK
<1>1. Init => TypeOK
  BY NoJobType DEF Init, ChainInit, ChainTypeOK, Blocks, Forks, TypeOK, NoCursor
<1> QED BY <1>1, TypeStep, PTL DEF Spec

-----------------------------------------------------------------------------
\* Arithmetic of the chunks.

\* Integer division by the chunk size, as the provers need to be told of it.
LEMMA DivCover ==
  ASSUME NEW c \in Nat \ {0}, NEW x \in Nat
  PROVE  /\ x \div c \in Nat
         /\ (x \div c) * c <= x
         /\ x < (x \div c) * c + c
OBVIOUS

LEMMA DivBelow ==
  ASSUME NEW c \in Nat \ {0}, NEW x \in Nat, NEW k \in Nat, x < k * c
  PROVE  x \div c < k
<1> DEFINE d == x \div c
<1>1. d \in Nat /\ d * c <= x
  BY DivCover
<1>2. ASSUME d >= k PROVE FALSE
  <2>1. PICK e \in Nat : d = k + e
    BY <1>1, <1>2
  <2>2. d * c = k * c + e * c
    BY <2>1
  <2>3. e * c >= 0
    OBVIOUS
  <2> QED BY <1>1, <2>2, <2>3
<1> QED BY <1>1, <1>2

\* The first k chunks of a round leave no block out: computeCommitPoint may
\* move the cursor to the end of the k-th when all of them are done.
LEMMA ChunksCover ==
  ASSUME next \in [Scanners -> Nat], safe \in [Scanners -> Nat],
         NEW s \in Scanners, NEW k \in 1..MaxInflightChunks,
         NEW b \in Nat, next[s] <= b, b <= ChunkTo(s, k - 1)
  PROVE  \E i \in 0..(k - 1) : InChunk(s, i, b)
<1> DEFINE x == b - next[s]
           i == x \div ChunkSize
<1>1. x \in Nat
  OBVIOUS
<1>2. /\ i \in Nat
      /\ i * ChunkSize <= x
      /\ x < i * ChunkSize + ChunkSize
  BY <1>1, DivCover
<1>3. b <= next[s] + (k - 1) * ChunkSize + ChunkSize - 1 /\ b <= safe[s]
  <2>1. (k - 1) * ChunkSize \in Nat
    OBVIOUS
  <2> QED BY <2>1 DEF ChunkTo, ChunkFrom, Least
<1>4. (k - 1) * ChunkSize + ChunkSize = k * ChunkSize
  OBVIOUS
<1>5. x < k * ChunkSize
  <2>1. (k - 1) * ChunkSize \in Nat
    OBVIOUS
  <2> QED BY <2>1, <1>3, <1>4
<1>6. i < k
  BY <1>1, <1>5, DivBelow
<1>7. i \in 0..(k - 1)
  BY <1>2, <1>6
<1>8. InChunk(s, i, b)
  <2>1. i * ChunkSize \in Nat
    BY <1>2
  <2> HIDE DEF i
  <2> QED BY <1>2, <1>3, <2>1 DEF InChunk, ChunkFrom, ChunkTo, Least
<1> QED BY <1>7, <1>8

\* The blocks of a chunk are blocks of the round.
LEMMA ChunkInRound ==
  ASSUME next \in [Scanners -> Nat], safe \in [Scanners -> Nat],
         NEW s \in Scanners, NEW i \in ChunkIndex, NEW b \in Nat, InChunk(s, i, b)
  PROVE  next[s] <= b /\ b <= safe[s]
<1>1. i * ChunkSize \in Nat
  BY DEF ChunkIndex
<1> QED BY <1>1 DEF InChunk, ChunkFrom, ChunkTo, Least

\* A planned chunk ends where it starts or later, and within the round.
LEMMA ChunkEnd ==
  ASSUME next \in [Scanners -> Nat], safe \in [Scanners -> Nat],
         NEW s \in Scanners, NEW i \in Planned(s)
  PROVE  next[s] <= ChunkTo(s, i) /\ ChunkTo(s, i) <= safe[s]
<1>1. i \in Nat /\ i * ChunkSize \in Nat
  BY DEF ChunkIndex, Planned
<1> QED BY <1>1 DEF ChunkFrom, ChunkTo, Least, Planned

-----------------------------------------------------------------------------
\* The induction.

\* What the rest of the system may do while a scanner rests: the chain grows
\* without changing its confirmed blocks, events are added, the cursor moves on.
Advances ==
    /\ head <= head'
    /\ \A b \in Blocks : Deep(b) => fork'[b] = fork[b]
    /\ events \subseteq events'
    /\ Frontier <= Frontier'

Rests(s) ==
    /\ pc'[s] = pc[s]
    /\ stop'[s] = stop[s]
    /\ latest'[s] = latest[s]
    /\ safe'[s] = safe[s]
    /\ next'[s] = next[s]
    /\ adv'[s] = adv[s]
    /\ job'[s] = job[s]

\* A reorganisation no deeper than the confirmations leaves confirmed blocks.
LEMMA ChainAdvances ==
  ASSUME SafeDepth, TypeOK, ChainStep
  PROVE  Advances
<1> USE DEF TypeOK, ChainTypeOK, Blocks, SafeDepth
<1>1. CASE Extend
  BY <1>1 DEF ChainStep, Extend, Advances, Frontier, dbVars
<1>2. CASE Reorg
  <2>1. PICK d \in 1..ReorgDepth :
          fork' = [b \in Blocks |-> IF b > head - d THEN fork[MaxHead] + 1
                                                     ELSE fork[b]]
    BY <1>2 DEF Reorg
  <2>2. \A b \in Blocks : Deep(b) => fork'[b] = fork[b]
    BY <2>1 DEF Deep
  <2> QED BY <1>2, <2>2 DEF ChainStep, Reorg, Advances, Frontier, dbVars
<1> QED BY <1>1, <1>2 DEF ChainStep

\* A scanner that rests keeps its part of the invariant.
LEMMA RestKeeps ==
  ASSUME ScanInv, TypeOK', Advances, NEW s \in Scanners, Rests(s)
  PROVE  ScannerInv(s)'
<1> USE DEF Rests
<1>0. TypeOK /\ ScannerInv(s)
  BY DEF ScanInv
<1>1. \A b \in Nat : \A i \in ChunkIndex : InChunk(s, i, b)' <=> InChunk(s, i, b)
  BY DEF InChunk, ChunkFrom, ChunkTo
<1>2. \A l \in Logs : Deep(l[1]) => (Canonical(l)' <=> Canonical(l))
  BY LogType DEF Advances, Canonical
<1>3. RoundInv(s)'
  BY <1>0 DEF ScannerInv, RoundInv, Advances, TypeOK, ChainTypeOK, Blocks, Frontier
<1>4. ASSUME pc[s] \in {"run", "save"}, NEW b \in Nat, b <= safe[s]
      PROVE  Deep(b)
  <2>1. safe[s] \in Nat /\ latest[s] \in Nat
    BY <1>0 DEF TypeOK
  <2>2. head \in Nat
    BY <1>0 DEF TypeOK, ChainTypeOK, Blocks
  <2>3. safe[s] + Confirmations = latest[s] /\ latest[s] <= head
    BY <1>0, <1>4 DEF ScannerInv, RoundInv
  <2> QED BY <1>4, <2>1, <2>2, <2>3 DEF Deep
<1>5. ASSUME pc[s] = "run", NEW i \in ChunkIndex PROVE ChunkInv(s, i)'
  <2>1. \A l \in Logs : InChunk(s, i, l[1]) => Deep(l[1])
    BY <1>0, <1>4, <1>5, LogType, ChunkInRound DEF TypeOK, Blocks
  <2>2. \A l \in Logs : (InChunk(s, i, l[1]) /\ Canonical(l))'
                          <=> InChunk(s, i, l[1]) /\ Canonical(l)
    BY <1>1, <1>2, <2>1, LogType DEF Blocks
  <2>3. ChunkInv(s, i)
    BY <1>0, <1>5 DEF ScannerInv
  <2> QED BY <2>2, <2>3 DEF ChunkInv, Is, Advances
<1>6. SaveInv(s)'
  <2> SUFFICES ASSUME pc[s] = "save" PROVE SaveInv(s)'
    BY DEF SaveInv
  <2>1. SaveInv(s)
    BY <1>0 DEF ScannerInv
  <2>2. \A l \in Logs : l[1] < adv[s] => Deep(l[1])
    BY <1>0, <1>4, <2>1, LogType DEF SaveInv, TypeOK, Blocks
  <2> QED BY <1>2, <2>1, <2>2 DEF SaveInv, Advances
<1> QED BY <1>3, <1>5, <1>6 DEF ScannerInv

\* When the tables and the chain are left alone so are the facts about them.
LEMMA QuietKeeps ==
  ASSUME ScanInv, UNCHANGED <<chainVars, dbVars>>
  PROVE  Advances /\ CursorInv' /\ EventsInv' /\ NoGap'
<1>1. Advances
  BY DEF ScanInv, TypeOK, ChainTypeOK, Blocks, chainVars, dbVars, Advances, Frontier
<1>2. CursorInv'
  BY DEF ScanInv, CursorInv, CursorConfirmed, chainVars, dbVars
<1>3. EventsInv' /\ NoGap'
  BY DEF ScanInv, EventsInv, NoGap, Frontier, Canonical, Deep, chainVars, dbVars
<1> QED BY <1>1, <1>2, <1>3

\* A scanner whose round is over has nothing left to keep.
LEMMA IdleScanner ==
  ASSUME TypeOK, NEW s \in Scanners, EndRound(s),
         NEW where \in {"poll", "down"}, Goto(s, where)
  PROVE  ScannerInv(s)'
BY DEF TypeOK, EndRound, Goto, ScannerInv, RoundInv, SaveInv

\* The round of a scanner, up to the commit point.
LEMMA BlockNumberKeeps ==
  ASSUME ScanInv, NEW s \in Scanners, BlockNumber(s)
  PROVE  ScannerInv(s)'
<1> USE DEF ScanInv, TypeOK, ChainTypeOK, Blocks
<1>1. PICK h \in EndpointHeads :
        /\ h > Confirmations
        /\ latest' = [latest EXCEPT ![s] = h]
        /\ safe' = [safe EXCEPT ![s] = h - Confirmations]
  BY DEF BlockNumber, HasSafeBlock, SafeBlock
<1>2. latest'[s] = h /\ safe'[s] = h - Confirmations /\ h <= head /\ head' = head
  BY <1>1 DEF BlockNumber, EndpointHeads, chainVars
<1>3. pc'[s] = "cursor" /\ job'[s] = [i \in ChunkIndex |-> NoJob]
  BY DEF BlockNumber, Goto, ScannerInv, RoundInv
<1> QED BY <1>2, <1>3 DEF EndpointHeads, ScannerInv, RoundInv, SaveInv

LEMMA GetCursorKeeps ==
  ASSUME ScanInv, NEW s \in Scanners, GetCursor(s)
  PROVE  ScannerInv(s)'
<1> USE DEF ScanInv, TypeOK, ChainTypeOK, Blocks
<1>1. /\ pc'[s] = "run"
      /\ next'[s] = Frontier
      /\ UNCHANGED <<latest, safe, job, stop, head, fork, cursor, events>>
      /\ Frontier <= safe[s]
  <2>1. next' = [next EXCEPT ![s] = Frontier] /\ pc[s] = "cursor"
    BY DEF GetCursor
  <2>2. UNCHANGED <<latest, safe, job, stop, head, fork, cursor, events>>
    BY DEF GetCursor, chainVars, dbVars
  <2>3. Frontier \in Nat /\ Frontier <= safe[s]
    BY DEF GetCursor, NothingNew, Frontier
  <2> QED BY <2>1, <2>2, <2>3 DEF GetCursor, Goto
<1>2. StartBlock <= Frontier
  BY DEF Frontier, CursorInv
<1>3. RoundInv(s)'
  <2>1. safe[s] + Confirmations = latest[s] /\ latest[s] <= head
    BY DEF ScannerInv, RoundInv, GetCursor
  <2> QED BY <1>1, <1>2, <2>1 DEF RoundInv, Frontier
<1>4. \A i \in ChunkIndex : job'[s][i] = NoJob
  <2>1. pc[s] = "cursor"
    BY DEF GetCursor
  <2>2. job[s] = [i \in ChunkIndex |-> NoJob]
    BY <2>1 DEF ScannerInv, RoundInv
  <2> QED BY <1>1, <2>2
<1>5. \A i \in ChunkIndex : ChunkInv(s, i)'
  BY <1>4 DEF ChunkInv, Is, NoJob
<1> QED BY <1>1, <1>3, <1>5 DEF ScannerInv, SaveInv

LEMMA ComputeCommitPointKeeps ==
  ASSUME ScanInv, NEW s \in Scanners, ComputeCommitPoint(s)
  PROVE  ScannerInv(s)'
<1> USE DEF ScanInv
<1>0. TypeOK /\ ScannerInv(s) /\ pc[s] = "run"
  BY DEF ComputeCommitPoint
<1>1. PICK k \in 0..MaxInflightChunks :
        /\ CommitPoint(s, k)
        /\ IF k > 0
           THEN /\ adv' = [adv EXCEPT ![s] = ChunkTo(s, k - 1) + 1]
                /\ job' = [job EXCEPT ![s] = [i \in ChunkIndex |-> NoJob]]
                /\ Goto(s, "save")
                /\ UNCHANGED <<latest, safe, next>>
           ELSE Goto(s, "poll") /\ EndRound(s)
  BY DEF ComputeCommitPoint
<1>2. CASE k > 0
  <2>1. /\ adv'[s] = ChunkTo(s, k - 1) + 1
        /\ job'[s] = [i \in ChunkIndex |-> NoJob]
        /\ pc'[s] = "save"
        /\ UNCHANGED <<latest, safe, next, head, fork, cursor, events, stop>>
    BY <1>0, <1>1, <1>2 DEF ComputeCommitPoint, Goto, TypeOK, chainVars, dbVars
  <2>2. RoundInv(s)'
    BY <1>0, <2>1 DEF ScannerInv, RoundInv, Frontier
  <2>3. k - 1 \in Planned(s) /\ k - 1 \in ChunkIndex
    BY <1>1, <1>2 DEF CommitPoint, Planned
  <2>4. ChunkTo(s, k - 1) \in Nat
    BY <1>0, <2>3, ChunkBounds DEF TypeOK
  <2>5. next[s] < adv'[s] /\ adv'[s] <= safe[s] + 1
    BY <1>0, <2>1, <2>3, <2>4, ChunkEnd DEF TypeOK
  <2>6. ASSUME ~stop[s], NEW l \in Logs,
               next[s] <= l[1], l[1] < adv'[s], Canonical(l)
        PROVE  l \in events
    <3>1. l[1] \in Nat /\ l[1] <= ChunkTo(s, k - 1)
      BY <2>1, <2>4, <2>6, LogType DEF Blocks
    <3>2. PICK i \in 0..(k - 1) : InChunk(s, i, l[1])
      BY <1>0, <1>2, <2>6, <3>1, ChunksCover DEF TypeOK
    <3>3. i \in ChunkIndex /\ Is(s, i, "ok")
      BY <1>1 DEF CommitPoint, Planned
    <3>4. ChunkInv(s, i)
      BY <1>0, <3>3 DEF ScannerInv
    <3> QED BY <2>6, <3>2, <3>3, <3>4, LogType DEF ChunkInv
  <2>7. SaveInv(s)'
    BY <2>1, <2>5, <2>6 DEF SaveInv, Canonical
  <2> QED BY <2>1, <2>2, <2>7 DEF ScannerInv
<1>3. CASE ~(k > 0)
  BY <1>0, <1>1, <1>3, IdleScanner
<1> QED BY <1>2, <1>3

\* The chunks of a scanner, each on its own.
LEMMA OtherChunks ==
  ASSUME ScanInv, NEW s \in Scanners, pc[s] = "run", NEW i \in ChunkIndex,
         NEW r \in Jobs, SetJob(s, i, r),
         UNCHANGED <<chainVars, cursor, latest, safe, next, adv, procVars>>,
         events \subseteq events',
         ChunkInv(s, i)'
  PROVE  ScannerInv(s)'
<1> USE DEF ScanInv, chainVars, procVars
<1>0. TypeOK /\ ScannerInv(s)
  OBVIOUS
<1>1. \A j \in ChunkIndex : j # i => job'[s][j] = job[s][j]
  BY <1>0 DEF SetJob, TypeOK
<1>2. ASSUME NEW j \in ChunkIndex PROVE ChunkInv(s, j)'
  <2>1. CASE j = i
    BY <2>1
  <2>2. CASE j # i
    <3>1. ChunkInv(s, j)
      BY <1>0 DEF ScannerInv
    <3>2. job'[s][j] = job[s][j] /\ stop'[s] = stop[s]
      BY <1>1, <2>2
    <3>3. \A l \in Logs : (InChunk(s, j, l[1]) /\ Canonical(l))'
                            <=> InChunk(s, j, l[1]) /\ Canonical(l)
      BY DEF InChunk, ChunkFrom, ChunkTo, Canonical
    <3> QED BY <3>1, <3>2, <3>3 DEF ChunkInv, Is
  <2> QED BY <2>1, <2>2
<1>3. RoundInv(s)' /\ SaveInv(s)'
  BY <1>0 DEF ScannerInv, RoundInv, SaveInv, Frontier
<1> QED BY <1>2, <1>3 DEF ScannerInv

\* A finished chunk: with an error nothing is claimed of it, otherwise its logs
\* are recorded or the context is done.
LEMMA FinishKeeps ==
  ASSUME ScanInv, NEW s \in Scanners, pc[s] = "run", NEW i \in ChunkIndex,
         NEW st \in {"ok", "err"}, Finish(s, i, st),
         UNCHANGED <<chainVars, cursor, latest, safe, next, adv, procVars>>,
         events \subseteq events',
         st = "err" \/ stop[s]
           \/ \A l \in Logs : InChunk(s, i, l[1]) /\ Canonical(l) => l \in events'
  PROVE  ScannerInv(s)'
<1> DEFINE r == [st |-> st, q |-> 0, logs |-> {}]
<1>1. r \in Jobs /\ SetJob(s, i, r)
  BY DEF Finish, Jobs, JobStates
<1>2. job'[s][i] = r
  BY <1>1 DEF SetJob, ScanInv, TypeOK
<1>3. \A l \in Logs : (InChunk(s, i, l[1]) /\ Canonical(l))'
                        <=> InChunk(s, i, l[1]) /\ Canonical(l)
  BY DEF InChunk, ChunkFrom, ChunkTo, Canonical, chainVars
<1>4. stop'[s] = stop[s]
  BY DEF procVars
<1>5. ChunkInv(s, i)'
  BY <1>2, <1>3, <1>4 DEF ChunkInv, Is
<1> QED BY <1>1, <1>5, OtherChunks

LEMMA FeedJobKeeps ==
  ASSUME ScanInv, NEW s \in Scanners, NEW i \in ChunkIndex, FeedJob(s, i)
  PROVE  ScannerInv(s)'
<1> DEFINE r == [st |-> "fetch", q |-> 0, logs |-> {}]
<1>1. r \in Jobs /\ SetJob(s, i, r) /\ pc[s] = "run"
  BY DEF FeedJob, Jobs, JobStates
<1>2. job'[s][i] = r
  BY <1>1 DEF SetJob, ScanInv, TypeOK
<1>3. ChunkInv(s, i)'
  BY <1>2, LogType DEF ChunkInv, Is
<1> QED BY <1>1, <1>3, OtherChunks DEF FeedJob, dbVars

\* FilterLogs misses nothing as long as no endpoint lacks a confirmed block.
LEMMA FilterLogsKeeps ==
  ASSUME ScanInv, SafeDepth, NEW s \in Scanners, NEW i \in ChunkIndex, FilterLogs(s, i)
  PROVE  ScannerInv(s)'
<1> DEFINE q == job[s][i].q + 1
           st == IF q = NumQueries THEN "handle" ELSE "fetch"
<1>0. /\ TypeOK /\ pc[s] = "run" /\ Is(s, i, "fetch") /\ q \in 1..NumQueries
      /\ ChunkInv(s, i)
  <2>1. TypeOK /\ pc[s] = "run" /\ Is(s, i, "fetch") /\ job[s][i].q < NumQueries
    BY DEF FilterLogs, ScanInv
  <2>2. job[s][i] \in Jobs
    BY <2>1 DEF TypeOK
  <2>3. q \in 1..NumQueries
    BY <2>1, <2>2 DEF Jobs
  <2> QED BY <2>1, <2>3 DEF ScanInv, ScannerInv
<1>1. PICK h \in EndpointHeads :
        SetJob(s, i, [st |-> st, q |-> q, logs |-> job[s][i].logs \cup LogsOf(s, i, q, h)])
  BY DEF FilterLogs, Collected
<1> DEFINE r == [st |-> st, q |-> q, logs |-> job[s][i].logs \cup LogsOf(s, i, q, h)]
<1>2. r \in Jobs
  <2>1. job[s][i].logs \subseteq Logs
    BY <1>0 DEF TypeOK, Jobs
  <2> QED BY <1>0, <2>1 DEF LogsOf, Jobs, JobStates
<1>3. job'[s][i] = r
  BY <1>0, <1>1, <1>2 DEF SetJob, TypeOK
<1>4. ASSUME NEW l \in Logs, InChunk(s, i, l[1]) PROVE l[1] <= h
  <2>1. l[1] \in Nat /\ l[1] <= safe[s]
    BY <1>0, <1>4, LogType, ChunkInRound DEF TypeOK, Blocks
  <2>2. safe[s] + Confirmations <= head
    BY <1>0 DEF ScanInv, ScannerInv, RoundInv
  <2>3. h \in Int /\ head \in Int /\ h >= head - Confirmations
    BY <1>0 DEF EndpointHeads, SafeDepth, TypeOK, ChainTypeOK, Blocks
  <2>4. safe[s] \in Int BY <1>0 DEF TypeOK, Blocks
  <2> QED BY <2>1, <2>2, <2>3, <2>4
<1>5. \A l \in Logs : (InChunk(s, i, l[1]) /\ Canonical(l))'
                        <=> InChunk(s, i, l[1]) /\ Canonical(l)
  BY DEF InChunk, ChunkFrom, ChunkTo, Canonical, FilterLogs, chainVars
<1>6. ChunkInv(s, i)'
  <2>1. \A l \in r.logs : l \in Logs /\ InChunk(s, i, l[1]) /\ Canonical(l)
    BY <1>0 DEF ChunkInv, LogsOf
  <2>2. \A l \in Logs : InChunk(s, i, l[1]) /\ Canonical(l) /\ l[3] <= q => l \in r.logs
    <3> SUFFICES ASSUME NEW l \in Logs, InChunk(s, i, l[1]), Canonical(l), l[3] <= q
                 PROVE  l \in r.logs
      OBVIOUS
    <3>1. CASE l[3] = q
      BY <1>4, <3>1 DEF LogsOf
    <3>2. CASE l[3] # q
      <4>1. l[3] <= job[s][i].q
        BY <1>0, <3>2, LogType DEF TypeOK, Jobs
      <4> QED BY <1>0, <4>1 DEF ChunkInv
    <3> QED BY <3>1, <3>2
  <2>3. \A l \in r.logs : l[3] <= NumQueries
    BY <2>1, LogType
  <2>4. r.st = st /\ r.q = q
    OBVIOUS
  <2> HIDE DEF r
  <2> QED BY <1>3, <1>5, <2>1, <2>2, <2>3, <2>4 DEF ChunkInv, Is
<1> QED BY <1>0, <1>1, <1>2, <1>6, OtherChunks DEF FilterLogs, dbVars

\* The logs a worker hands to SaveEvents are canonical and confirmed, and all
\* the chunk has.
LEMMA HandledLogs ==
  ASSUME ScanInv, NEW s \in Scanners, NEW i \in ChunkIndex,
         pc[s] = "run", Is(s, i, "handle")
  PROVE  /\ job[s][i].logs \subseteq Logs
         /\ \A l \in job[s][i].logs : Canonical(l) /\ Deep(l[1])
         /\ \A l \in Logs : InChunk(s, i, l[1]) /\ Canonical(l) => l \in job[s][i].logs
<1>0. TypeOK /\ ChunkInv(s, i) /\ RoundInv(s)
  BY DEF ScanInv, ScannerInv
<1>1. \A l \in job[s][i].logs : l \in Logs /\ InChunk(s, i, l[1]) /\ Canonical(l)
  BY <1>0 DEF ChunkInv
<1>2. ASSUME NEW l \in job[s][i].logs PROVE Deep(l[1])
  <2>1. l[1] \in Nat /\ l[1] <= safe[s]
    BY <1>0, <1>1, LogType, ChunkInRound DEF TypeOK, Blocks
  <2> QED BY <1>0, <2>1 DEF RoundInv, Deep, TypeOK, ChainTypeOK, Blocks
<1>3. \A l \in Logs : InChunk(s, i, l[1]) /\ Canonical(l) => l \in job[s][i].logs
  BY <1>0, LogType DEF ChunkInv
<1> QED BY <1>1, <1>2, <1>3

\* What saving them does to the tables: more events, all of them sound.
LEMMA SaveEventsKeeps ==
  ASSUME ScanInv, NEW L \in SUBSET Logs, SaveEvents(L),
         \A l \in L : Canonical(l) /\ Deep(l[1]),
         UNCHANGED <<chainVars, cursor>>
  PROVE  Advances /\ CursorInv' /\ EventsInv' /\ NoGap'
<1> USE DEF SaveEvents, chainVars
<1>1. Advances
  BY DEF ScanInv, TypeOK, ChainTypeOK, Blocks, Advances, Frontier, CursorInv
<1>2. CursorInv'
  BY DEF ScanInv, CursorInv, CursorConfirmed
<1>3. EventsInv' /\ NoGap'
  BY DEF ScanInv, EventsInv, NoGap, Frontier, Canonical, Deep
<1> QED BY <1>1, <1>2, <1>3

\* SaveCursor is the only step that moves the cursor; with the context alive all
\* it moves over is recorded.
LEMMA UpsertKeeps ==
  ASSUME ScanInv, NEW s \in Scanners, pc[s] = "save", ~stop[s],
         UpsertCursor(s), UNCHANGED <<chainVars, events>>
  PROVE  Advances /\ CursorInv' /\ EventsInv' /\ NoGap'
<1> USE DEF chainVars
<1>0. TypeOK /\ CursorInv /\ RoundInv(s) /\ SaveInv(s)
  BY DEF ScanInv, ScannerInv
<1>1. /\ cursor'.exists
      /\ cursor'.next = Greatest(cursor.next, adv[s])
      /\ cursor'.safe = Greatest(cursor.safe, safe[s])
      /\ cursor'.latest = Greatest(cursor.latest, latest[s])
  BY DEF UpsertCursor
<1>2. /\ cursor.next \in Nat /\ cursor.safe \in Nat /\ cursor.latest \in Nat
      /\ adv[s] \in Nat /\ safe[s] \in Nat /\ latest[s] \in Nat /\ next[s] \in Nat
      /\ head \in Nat
  BY <1>0 DEF TypeOK, ChainTypeOK, Blocks
<1>3. /\ StartBlock <= next[s] /\ next[s] <= Frontier /\ next[s] < adv[s]
      /\ adv[s] <= safe[s] + 1 /\ safe[s] + Confirmations = latest[s]
      /\ latest[s] <= head
  BY <1>0 DEF RoundInv, SaveInv
<1>4. ASSUME cursor.exists
      PROVE  CursorInv' /\ Frontier' = Greatest(Frontier, adv[s])
  <2>1. CursorInv'
    BY <1>0, <1>1, <1>2, <1>3, <1>4 DEF CursorInv, CursorConfirmed, Greatest
  <2>2. Frontier' = Greatest(Frontier, adv[s])
    BY <1>1, <1>4 DEF Frontier
  <2> QED BY <2>1, <2>2
<1>5. ASSUME ~cursor.exists
      PROVE  CursorInv' /\ Frontier' = Greatest(Frontier, adv[s])
  <2>1. cursor.next = 0 /\ cursor.safe = 0 /\ cursor.latest = 0
    BY <1>0, <1>5 DEF CursorInv, NoCursor
  <2>2. CursorInv'
    BY <1>1, <1>2, <1>3, <2>1 DEF CursorInv, CursorConfirmed, Greatest
  <2>3. Frontier = StartBlock /\ Frontier' = adv[s]
    BY <1>1, <1>2, <1>5, <2>1 DEF Frontier, Greatest
  <2>4. Frontier' = Greatest(Frontier, adv[s])
    BY <1>2, <1>3, <2>3 DEF Greatest
  <2> QED BY <2>2, <2>4
<1>6. CursorInv' /\ Frontier' = Greatest(Frontier, adv[s]) /\ Frontier \in Nat
  BY <1>2, <1>4, <1>5 DEF Frontier
<1>7. Advances
  BY <1>2, <1>6 DEF Advances, Greatest
<1>8. EventsInv'
  BY DEF ScanInv, EventsInv, Canonical, Deep
<1>9. NoGap'
  <2> SUFFICES ASSUME NEW l \in Logs,
                      StartBlock <= l[1], l[1] < Frontier', Canonical(l)
               PROVE  l \in events
    BY DEF NoGap, Canonical
  <2>1. CASE l[1] < Frontier
    BY <2>1 DEF ScanInv, NoGap
  <2>2. CASE ~(l[1] < Frontier)
    <3>1. l[1] \in Nat
      BY LogType DEF Blocks
    <3>2. next[s] <= l[1] /\ l[1] < adv[s]
      BY <1>2, <1>3, <1>6, <2>2, <3>1 DEF Greatest
    <3> QED BY <1>0, <3>2 DEF SaveInv
  <2> QED BY <2>1, <2>2
<1> QED BY <1>6, <1>7, <1>8, <1>9

\* Every step of a scanner keeps the part of the invariant that is its own and
\* the facts about the tables, and touches no other scanner.
LEMMA ScannerStep ==
  ASSUME SafeDepth, ScanInv, NEW s \in Scanners,
         Step(s) \/ RoundFault(s) \/ Process(s) \/ \E i \in ChunkIndex : ChunkFault(s, i)
  PROVE  /\ Advances /\ CursorInv' /\ EventsInv' /\ NoGap'
         /\ ScannerInv(s)'
         /\ \A t \in Scanners : t # s => Rests(t)
<1> DEFINE Goal == /\ Advances /\ CursorInv' /\ EventsInv' /\ NoGap'
                   /\ ScannerInv(s)'
                   /\ \A t \in Scanners : t # s => Rests(t)
<1>0. TypeOK /\ ScannerInv(s)
  BY DEF ScanInv
<1> USE DEF Goto, EndRound, procVars, roundVars
<1>1. CASE BlockNumber(s)
  <2>1. \A t \in Scanners : t # s => Rests(t)
    BY <1>0, <1>1 DEF BlockNumber, Rests, TypeOK
  <2> QED BY <1>1, <2>1, BlockNumberKeeps, QuietKeeps DEF BlockNumber
<1>2. CASE GetCursor(s)
  <2>1. \A t \in Scanners : t # s => Rests(t)
    BY <1>0, <1>2 DEF GetCursor, Rests, TypeOK
  <2> QED BY <1>2, <2>1, GetCursorKeeps, QuietKeeps DEF GetCursor
<1>3. CASE ComputeCommitPoint(s)
  <2>1. \A t \in Scanners : t # s => Rests(t)
    BY <1>0, <1>3 DEF ComputeCommitPoint, Rests, TypeOK
  <2> QED BY <1>3, <2>1, ComputeCommitPointKeeps, QuietKeeps DEF ComputeCommitPoint
<1>4. CASE CaughtUp(s) \/ GetCursorErr(s) \/ SaveCursorErr(s) \/ RunReturns(s) \/ Crash(s)
  <2>1. /\ UNCHANGED <<chainVars, dbVars, stop>>
        /\ EndRound(s)
        /\ \E where \in {"poll", "down"} : Goto(s, where)
    BY <1>4 DEF CaughtUp, GetCursorErr, SaveCursorErr, RunReturns, Crash
  <2>2. \A t \in Scanners : t # s => Rests(t)
    BY <1>0, <2>1 DEF Rests, TypeOK
  <2> QED BY <1>0, <2>1, <2>2, IdleScanner, QuietKeeps
<1>5. CASE SaveCursor(s) \/ SaveCursorLost(s)
  <2>1. /\ pc[s] = "save" /\ ~stop[s] /\ UpsertCursor(s)
        /\ UNCHANGED <<chainVars, events, stop>>
        /\ EndRound(s)
        /\ Goto(s, "poll")
    BY <1>5 DEF SaveCursor, SaveCursorLost
  <2>2. \A t \in Scanners : t # s => Rests(t)
    BY <1>0, <2>1 DEF Rests, TypeOK
  <2> QED BY <1>0, <2>1, <2>2, IdleScanner, UpsertKeeps
<1>6. ASSUME NEW i \in ChunkIndex, Chunk(s, i) \/ ChunkFault(s, i)
      PROVE  Goal
  <2>0. /\ pc[s] = "run" /\ UNCHANGED <<chainVars, cursor, latest, safe, next, adv, procVars>>
        /\ \E r : SetJob(s, i, r)
    BY <1>6 DEF Chunk, ChunkFault, FeedJob, FilterLogs, HandleLogs, ChunkAborted,
                HandleLogsCut, ChunkErr, HandleLogsLost, Finish, dbVars
  <2>1. \A t \in Scanners : t # s => Rests(t)
    BY <1>0, <2>0 DEF SetJob, Rests, TypeOK
  <2>2. CASE FeedJob(s, i)
    BY <2>1, <2>2, FeedJobKeeps, QuietKeeps DEF FeedJob
  <2>3. CASE FilterLogs(s, i)
    BY <2>1, <2>3, FilterLogsKeeps, QuietKeeps DEF FilterLogs
  <2>4. CASE ChunkErr(s, i) \/ ChunkAborted(s, i) \/ HandleLogsCut(s, i)
    <3>1. /\ UNCHANGED <<chainVars, dbVars>>
          /\ \E st \in {"ok", "err"} : Finish(s, i, st) /\ (st = "err" \/ stop[s])
      BY <2>4 DEF ChunkErr, ChunkAborted, HandleLogsCut
    <3>2. ScannerInv(s)'
      BY <2>0, <3>1, FinishKeeps DEF dbVars
    <3> QED BY <2>1, <3>1, <3>2, QuietKeeps
  <2>5. CASE HandleLogs(s, i) \/ HandleLogsLost(s, i)
    <3>1. /\ Is(s, i, "handle")
          /\ SaveEvents(job[s][i].logs)
          /\ \E st \in {"ok", "err"} : Finish(s, i, st)
      BY <2>5 DEF HandleLogs, HandleLogsLost
    <3>2. events \subseteq events'
      BY <3>1 DEF SaveEvents
    <3>3. ScannerInv(s)'
      BY <2>0, <3>1, <3>2, HandledLogs, FinishKeeps DEF SaveEvents
    <3>4. Advances /\ CursorInv' /\ EventsInv' /\ NoGap'
      BY <2>0, <3>1, HandledLogs, SaveEventsKeeps
    <3> QED BY <2>1, <3>3, <3>4
  <2> QED BY <1>6, <2>2, <2>3, <2>4, <2>5 DEF Chunk, ChunkFault
<1>7. CASE Cancel(s)
  <2>1. /\ UNCHANGED <<chainVars, dbVars, roundVars, pc>>
        /\ stop' = [stop EXCEPT ![s] = TRUE]
    BY <1>7 DEF Cancel
  <2>2. stop'[s] /\ \A t \in Scanners : t # s => Rests(t)
    BY <1>0, <2>1 DEF Rests, TypeOK
  <2>3. RoundInv(s)' /\ SaveInv(s)'
    BY <1>0, <2>1, <2>2
       DEF ScannerInv, RoundInv, SaveInv, Frontier, chainVars, dbVars
  <2>4. ASSUME pc[s] = "run", NEW i \in ChunkIndex PROVE ChunkInv(s, i)'
    <3>1. \A l \in Logs : (InChunk(s, i, l[1]) /\ Canonical(l))'
                            <=> InChunk(s, i, l[1]) /\ Canonical(l)
      BY <2>1 DEF InChunk, ChunkFrom, ChunkTo, Canonical, chainVars
    <3>2. ChunkInv(s, i)
      BY <1>0, <2>4 DEF ScannerInv
    <3> QED BY <2>1, <2>2, <3>1, <3>2 DEF ChunkInv, Is
  <2>5. ScannerInv(s)'
    BY <2>1, <2>3, <2>4 DEF ScannerInv
  <2> QED BY <2>1, <2>2, <2>5, QuietKeeps
<1>8. CASE Restart(s)
  <2>1. /\ UNCHANGED <<chainVars, dbVars, roundVars>>
        /\ pc[s] = "down" /\ Goto(s, "poll")
        /\ stop' = [stop EXCEPT ![s] = FALSE]
    BY <1>8 DEF Restart
  <2>2. \A t \in Scanners : t # s => Rests(t)
    BY <1>0, <2>1 DEF Rests, TypeOK
  <2>3. ScannerInv(s)'
    BY <1>0, <2>1 DEF ScannerInv, RoundInv, SaveInv, TypeOK
  <2> QED BY <2>1, <2>2, <2>3, QuietKeeps
<1> QED
  BY <1>1, <1>2, <1>3, <1>4, <1>5, <1>6, <1>7, <1>8
     DEF Step, Round, RoundFault, Process

\* The invariant holds in every reachable state.
LEMMA Inductive ==
  ASSUME SafeDepth
  PROVE  ScanInv /\ [Next]_vars => ScanInv'
<1> SUFFICES ASSUME ScanInv, [Next]_vars PROVE ScanInv'
  OBVIOUS
<1>0. TypeOK'
  BY TypeStep DEF ScanInv
<1>1. CASE ChainStep
  <2>1. Advances
    BY <1>1, ChainAdvances DEF ScanInv
  <2>2. \A s \in Scanners : ScannerInv(s)'
    BY <1>0, <1>1, <2>1, RestKeeps DEF ChainStep, Rests, roundVars, procVars
  <2>3. \A l \in Logs : Deep(l[1]) => (Canonical(l)' <=> Canonical(l)) /\ Deep(l[1])'
    <3>1. head \in Int /\ head' \in Int /\ head <= head'
      BY <1>0, <2>1 DEF ScanInv, Advances, TypeOK, ChainTypeOK, Blocks
    <3>2. ASSUME NEW l \in Logs, Deep(l[1]) PROVE fork'[l[1]] = fork[l[1]] /\ Deep(l[1])'
      <4>1. l[1] \in Blocks /\ l[1] \in Int BY LogType DEF Blocks
      <4> QED BY <2>1, <3>1, <3>2, <4>1 DEF Advances, Deep
    <3> QED BY <3>2 DEF Canonical
  <2>4. CursorInv'
    <3>1. CursorInv /\ cursor' = cursor BY <1>1 DEF ChainStep, dbVars, ScanInv
    <3>2. head \in Int /\ head' \in Int /\ head <= head'
      BY <1>0, <2>1 DEF ScanInv, Advances, TypeOK, ChainTypeOK, Blocks
    <3>3. cursor.exists => cursor.latest \in Int
      BY DEF ScanInv, TypeOK, Blocks
    <3> QED BY <3>1, <3>2, <3>3 DEF CursorInv, CursorConfirmed
  <2>5. EventsInv'
    BY <1>1, <2>3 DEF ChainStep, dbVars, ScanInv, EventsInv, TypeOK
  <2>6. NoGap'
    <3> SUFFICES ASSUME NEW l \in Logs,
                        StartBlock <= l[1], l[1] < Frontier, Canonical(l)'
                 PROVE  l \in events
      BY <1>1 DEF ChainStep, dbVars, NoGap, Frontier
    <3>1. Deep(l[1])
      BY LogType DEF ScanInv, CursorInv, CursorConfirmed, Frontier, Deep, TypeOK,
                     ChainTypeOK, Blocks
    <3> QED BY <2>3, <3>1 DEF ScanInv, NoGap
  <2> QED BY <1>0, <2>2, <2>4, <2>5, <2>6 DEF ScanInv
<1>2. ASSUME NEW s \in Scanners,
             Step(s) \/ RoundFault(s) \/ Process(s)
               \/ \E i \in ChunkIndex : ChunkFault(s, i)
      PROVE  ScanInv'
  <2>1. \A t \in Scanners : ScannerInv(t)'
    BY <1>0, <1>2, ScannerStep, RestKeeps
  <2> QED BY <1>0, <1>2, <2>1, ScannerStep DEF ScanInv
<1>3. CASE UNCHANGED vars
  <2>1. UNCHANGED <<chainVars, dbVars>>
    BY <1>3 DEF vars
  <2>2. \A s \in Scanners : Rests(s)
    BY <1>3 DEF vars, Rests, roundVars, procVars
  <2> QED BY <1>0, <2>1, <2>2, QuietKeeps, RestKeeps DEF ScanInv
<1> QED BY <1>1, <1>2, <1>3 DEF Next

LEMMA Initial == Init => ScanInv
<1> SUFFICES ASSUME Init PROVE ScanInv
  OBVIOUS
<1>1. TypeOK
  BY NoJobType DEF Init, ChainInit, ChainTypeOK, Blocks, Forks, TypeOK, NoCursor
<1>2. CursorInv /\ EventsInv
  BY DEF Init, NoCursor, CursorInv, CursorConfirmed, EventsInv
<1>3. NoGap
  BY LogType DEF Init, NoCursor, NoGap, Frontier, Blocks
<1>4. \A s \in Scanners : ScannerInv(s)
  BY DEF Init, ScannerInv, RoundInv, SaveInv
<1> QED BY <1>1, <1>2, <1>3, <1>4 DEF ScanInv

-----------------------------------------------------------------------------
\* The results.

\* The inductive invariant.
THEOREM Invariance == ASSUME SafeDepth PROVE Spec => []ScanInv
<1>1. Init => ScanInv
  BY Initial
<1>2. ScanInv /\ [Next]_vars => ScanInv'
  BY Inductive
<1> QED BY <1>1, <1>2, PTL DEF Spec

\* No log below the persisted cursor is missing from chain_events, however many
\* scanners share the cursor, whatever fails, crashes or is cancelled.
THEOREM NoGapHolds == ASSUME SafeDepth PROVE Spec => []NoGap
<1>1. ScanInv => NoGap
  BY DEF ScanInv
<1> QED BY <1>1, Invariance, PTL

\* Only logs of blocks that stay canonical are recorded.
THEOREM NoOrphanHolds == ASSUME SafeDepth PROVE Spec => []NoOrphan
<1>1. ScanInv => NoOrphan
  BY DEF ScanInv, EventsInv, NoOrphan
<1> QED BY <1>1, Invariance, PTL

\* The persisted row is consistent although each column is maximised on its own.
THEOREM CursorConfirmedHolds == ASSUME SafeDepth PROVE Spec => []CursorConfirmed
<1>1. ScanInv => CursorConfirmed
  BY DEF ScanInv, CursorInv
<1> QED BY <1>1, Invariance, PTL

\* What a step of a scanner may do to the tables.
LEMMA ScannerWrites ==
  ASSUME NEW s \in Scanners,
         Step(s) \/ RoundFault(s) \/ Process(s) \/ \E i \in ChunkIndex : ChunkFault(s, i)
  PROVE  /\ UNCHANGED chainVars
         /\ \/ UNCHANGED dbVars
            \/ UNCHANGED cursor /\ events \subseteq events'
            \/ UNCHANGED events /\ cursor'.exists
<1> DEFINE Goal == /\ UNCHANGED chainVars
                   /\ \/ UNCHANGED dbVars
                      \/ UNCHANGED cursor /\ events \subseteq events'
                      \/ UNCHANGED events /\ cursor'.exists
<1>1. CASE Round(s) \/ RoundFault(s)
  BY <1>1 DEF Round, RoundFault, BlockNumber, GetCursor, CaughtUp, ComputeCommitPoint,
              SaveCursor, GetCursorErr, SaveCursorErr, SaveCursorLost, UpsertCursor
<1>2. ASSUME NEW i \in ChunkIndex, Chunk(s, i) \/ ChunkFault(s, i) PROVE Goal
  BY <1>2 DEF Chunk, ChunkFault, FeedJob, FilterLogs, HandleLogs, HandleLogsCut,
              ChunkErr, ChunkAborted, HandleLogsLost, SaveEvents
<1>3. CASE Process(s) \/ RunReturns(s)
  BY <1>3 DEF Process, RunReturns, Cancel, Crash, Restart
<1> QED BY <1>1, <1>2, <1>3 DEF Step

\* The scanners implement the index: recording logs is Record, moving the cursor
\* is Advance, and everything else they do leaves the index as it is.
THEOREM Refinement == ASSUME SafeDepth PROVE Spec => Implements
<1> USE DEF Index!vars, Index!indexVars, Index!chainVars
<1>1. Init => Index!Init
  BY DEF Init, ChainInit, NoCursor, Frontier, Index!Init, Index!ChainInit,
         Blocks, Index!Blocks
<1>2. ScanInv /\ ScanInv' /\ [Next]_vars => [Index!Next]_(Index!vars)
  <2> SUFFICES ASSUME ScanInv, ScanInv', [Next]_vars
               PROVE  [Index!Next]_(Index!vars)
    OBVIOUS
  <2>1. CASE ChainStep
    <3>1. UNCHANGED <<events, Frontier>>
      BY <2>1 DEF ChainStep, dbVars, Frontier
    <3>2. Index!Extend \/ Index!Reorg
      BY <2>1 DEF ChainStep, Extend, Reorg, Index!Extend, Index!Reorg, Blocks, Index!Blocks
    <3> QED BY <3>1, <3>2 DEF Index!Next
  <2>2. ASSUME NEW s \in Scanners,
               Step(s) \/ RoundFault(s) \/ Process(s)
                 \/ \E i \in ChunkIndex : ChunkFault(s, i)
        PROVE  [Index!Next]_(Index!vars)
    <3>0. UNCHANGED chainVars
      BY <2>2, ScannerWrites
    <3>1. CASE UNCHANGED dbVars
      BY <3>0, <3>1 DEF chainVars, dbVars, Frontier
    <3>2. CASE UNCHANGED cursor /\ events \subseteq events'
      <4>1. UNCHANGED Frontier
        BY <3>2 DEF Frontier
      <4>2. \A l \in events' : l \in Logs /\ Canonical(l) /\ Deep(l[1])
        BY <3>0 DEF ScanInv, TypeOK, EventsInv, Canonical, Deep, chainVars
      <4>3. Index!Record
        BY <3>2, <4>1, <4>2
           DEF Index!Record, Index!Canonical, Index!Confirmed, Canonical, Deep
      <4> QED BY <3>0, <4>3 DEF Index!Next, chainVars
    <3>3. CASE UNCHANGED events /\ cursor'.exists
      <4>1. Frontier <= Frontier'
        BY <2>2, ScannerStep DEF Advances
      <4>2. Frontier' \in Nat /\ Frontier' - 1 + Confirmations <= head
        <5>1. CursorConfirmed' /\ TypeOK'
          BY DEF ScanInv, CursorInv
        <5>2. /\ cursor'.next \in Nat /\ cursor'.safe \in Nat /\ cursor'.latest \in Nat
              /\ head' \in Nat /\ head' = head
          BY <3>0, <5>1 DEF TypeOK, ChainTypeOK, Blocks, chainVars
        <5>3. Frontier' = cursor'.next
          BY <3>3 DEF Frontier
        <5> QED BY <3>3, <5>1, <5>2, <5>3 DEF CursorConfirmed
      <4>3. \A l \in Logs :
              StartBlock <= l[1] /\ l[1] < Frontier' /\ Canonical(l) => l \in events
        BY <3>0, <3>3 DEF ScanInv, NoGap, Canonical, chainVars
      <4>4. Index!Advance
        BY <3>3, <4>1, <4>2, <4>3
           DEF Index!Advance, Index!Canonical, Index!Confirmed, Canonical
      <4> QED BY <3>0, <4>4 DEF Index!Next, chainVars
    <3> QED BY <2>2, <3>1, <3>2, <3>3, ScannerWrites
  <2>3. CASE UNCHANGED vars
    BY <2>3 DEF vars, chainVars, dbVars, Frontier
  <2> QED BY <2>1, <2>2, <2>3 DEF Next
<1> QED BY <1>1, <1>2, Invariance, PTL DEF Spec, Implements, Index!Spec
=============================================================================
