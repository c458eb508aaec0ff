------------------------------ MODULE AppProofs ------------------------------
(***************************************************************************)
(* Proofs about the life of the process.                                   *)
(***************************************************************************)
EXTENDS App, FiniteSetTheorems, SequenceTheorems, TLAPS

USE AppAssumption, NoneAssumption

-----------------------------------------------------------------------------
\* Services and what they use.

\* A service is one worker or one scanner.
LEMMA NamesDiffer ==
  ASSUME NEW j \in Nat, NEW k \in Nat
  PROVE  /\ Worker(j) # Scanner(k)
         /\ Worker(j) = Worker(k) => j = k
         /\ Scanner(j) = Scanner(k) => j = k
         /\ Rpc(k) # DB
BY DEF Worker, Scanner, Rpc, DB

LEMMA ServiceNames ==
  /\ \A k \in 1..NumWorkers : Worker(k) \in Services
  /\ \A k \in 1..NumChains : Scanner(k) \in Services
BY DEF Services

LEMMA ResourceNames ==
  /\ DB \in Resources
  /\ \A k \in 1..NumChains : Rpc(k) \in Resources
BY DEF Resources

\* What a service uses exists; a worker uses the database, a scanner also the
\* endpoints of its chain.
LEMMA WhatIsUsed ==
  /\ \A s \in Services : Uses(s) \subseteq Resources
  /\ \A k \in 1..NumWorkers : Uses(Worker(k)) = {DB}
  /\ \A k \in 1..NumChains : Uses(Scanner(k)) = {DB, Rpc(k)}
<1>1. \A s \in Services : Uses(s) \subseteq Resources BY DEF Uses, Resources
<1>2. ASSUME NEW k \in 1..NumWorkers PROVE Uses(Worker(k)) = {DB}
  BY NamesDiffer DEF Uses
<1>3. ASSUME NEW k \in 1..NumChains PROVE Uses(Scanner(k)) = {DB, Rpc(k)}
  BY NamesDiffer DEF Uses
<1> QED BY <1>1, <1>2, <1>3

LEMMA ServicesFinite == IsFiniteSet(Services)
<1> DEFINE W == {Worker(k) : k \in 1..NumWorkers}
           C == {Scanner(k) : k \in 1..NumChains}
<1>1. IsFiniteSet(1..NumWorkers) /\ IsFiniteSet(1..NumChains) BY FS_Interval
<1>2. [k \in 1..NumWorkers |-> Worker(k)] \in Surjection(1..NumWorkers, W)
  BY DEF Surjection
<1>3. [k \in 1..NumChains |-> Scanner(k)] \in Surjection(1..NumChains, C)
  BY DEF Surjection
<1>4. IsFiniteSet(W) BY <1>1, <1>2, FS_Surjection
<1>5. IsFiniteSet(C) BY <1>1, <1>3, FS_Surjection
<1> QED BY <1>4, <1>5, FS_Union DEF Services

-----------------------------------------------------------------------------
\* The wait group.

LEMMA AliveFinite == IsFiniteSet(Alive) /\ Cardinality(Alive) \in Nat
<1>1. Alive \subseteq Services BY DEF Alive
<1> QED BY <1>1, ServicesFinite, FS_Subset, FS_CardinalityType

\* It stays right as long as no goroutine starts or ends.
LEMMA AliveSame ==
  ASSUME Counted, wg' = wg, \A s \in Services : svc'[s] \in Live <=> svc[s] \in Live
  PROVE  Counted'
<1>1. Alive' = Alive BY DEF Alive
<1> QED BY <1>1 DEF Counted

\* It stays right when a goroutine is started.
LEMMA Started ==
  ASSUME TypeOK, Counted, NEW s \in Services, svc[s] = "none", Go(s)
  PROVE  Counted'
<1>1. CASE running
  <2>1. Alive' = Alive \cup {s} BY <1>1 DEF Alive, Go, TypeOK, Live
  <2>2. s \notin Alive BY DEF Alive, Live
  <2>3. Cardinality(Alive') = Cardinality(Alive) + 1
    BY <2>1, <2>2, AliveFinite, FS_AddElement
  <2> QED BY <1>1, <2>3 DEF Counted, Go
<1>2. CASE ~running BY <1>2, AliveSame DEF Go
<1> QED BY <1>1, <1>2 DEF TypeOK

\* And when one has ended.
LEMMA Ended ==
  ASSUME TypeOK, Counted, NEW s \in Services, Leave(s)
  PROVE  Counted'
<1>1. Alive' = Alive \ {s} BY DEF Alive, Leave, In, TypeOK, Live
<1>2. s \in Alive BY DEF Alive, Leave, In, Live
<1>3. Cardinality(Alive') = Cardinality(Alive) - 1
  BY <1>1, <1>2, AliveFinite, FS_RemoveElement
<1> QED BY <1>3 DEF Counted, Leave

\* The wait group is empty only when no goroutine is left.
LEMMA EmptyGroup ==
  ASSUME Counted, wg = 0
  PROVE  Alive = {}
BY AliveFinite, FS_EmptySet DEF Counted
-----------------------------------------------------------------------------
\* What a step leaves as it is.

\* A step of the main goroutine, or a signal, that touches no service and opens
\* and closes nothing.
LEMMA OnlyMain ==
  ASSUME IndInv, UNCHANGED <<svc, using, open, cleanups, wg>>, main' = "open" => main = "open"
  PROVE  /\ Counted' /\ UsersAlive' /\ UsesItsOwn'
         /\ DatabaseFirst' /\ DatabaseLast' /\ StillToClose'
<1>1. Counted' BY AliveSame DEF IndInv
<1>2. UsersAlive' /\ UsesItsOwn' BY DEF IndInv, UsersAlive, UsesItsOwn
<1>3. DatabaseFirst' BY DEF IndInv, DatabaseFirst
<1>4. DatabaseLast' /\ StillToClose' BY DEF IndInv, DatabaseLast, StillToClose
<1> QED BY <1>1, <1>2, <1>3, <1>4

\* A step of a service that runs.
LEMMA OnlyService ==
  ASSUME IndInv, NEW s \in Services, svc[s] \in Live, proc = "up",
         svc' = [svc EXCEPT ![s] = svc'[s]], svc'[s] \in Live \cup {"ended"},
         using' = [using EXCEPT ![s] = using'[s]],
         UNCHANGED <<main, turn, cleanups, timedOut, open, proc>>
  PROVE  /\ NotYetStarted' /\ OpenFirst' /\ DrainedFirst'
         /\ DatabaseFirst' /\ DatabaseLast' /\ StillToClose'
         /\ ExitsDone' /\ DoneEmpty'
<1> USE DEF IndInv
<1>1. svc[s] # "none" BY DEF Live
<1>2. Alive' \subseteq Alive BY DEF Alive, TypeOK
<1>3. \A t \in Services : svc[t] = "none" => svc'[t] = "none" BY <1>1 DEF TypeOK
<1>4. NotYetStarted'
  <2> HIDE DEF IndInv
  <2>1. NotYetStarted BY DEF IndInv
  <2> QED BY <1>3, <2>1, ServiceNames DEF NotYetStarted
<1>5. OpenFirst' BY <1>2 DEF OpenFirst, Uses
<1>6. DrainedFirst' BY <1>2 DEF DrainedFirst
<1>7. DatabaseFirst' /\ DatabaseLast' /\ StillToClose'
  BY DEF DatabaseFirst, DatabaseLast, StillToClose
<1>8. ExitsDone' /\ DoneEmpty' BY DEF ExitsDone, DoneEmpty
<1> QED BY <1>4, <1>5, <1>6, <1>7, <1>8

-----------------------------------------------------------------------------
\* The steps of the main goroutine.

\* The steps that only move it on.
MovesOn ==
    \/ Migrate \/ Prepare \/ WorkersStarted \/ BuildScanner \/ ChainsStarted
    \/ StartupFails \/ Wait \/ ShutdownStop \/ ShutdownCancel \/ DrainTimesOut \/ Exit

LEMMA MovesOnStep ==
  ASSUME IndInv, MovesOn
  PROVE  IndInv'
<1> USE DEF MovesOn, Migrate, Prepare, WorkersStarted, BuildScanner, ChainsStarted,
            StartupFails, Wait, ShutdownStop, ShutdownCancel, CancelContext,
            DrainTimesOut, Exit, At, managerVars, serviceVars
<1>1. /\ Counted' /\ UsersAlive' /\ UsesItsOwn'
      /\ DatabaseFirst' /\ DatabaseLast' /\ StillToClose'
  BY OnlyMain
<1>2. TypeOK'
  <2>1. TypeOK BY DEF IndInv
  <2>2. main' \in Stages BY <2>1 DEF TypeOK, Stages, Startup
  <2>3. turn' \in Nat \ {0} BY <2>1 DEF TypeOK
  <2>4. ctxDone' \in BOOLEAN /\ running' \in BOOLEAN BY <2>1 DEF TypeOK
  <2>5. hooked' \in BOOLEAN /\ timedOut' \in BOOLEAN BY <2>1 DEF TypeOK
  <2>6. proc' \in {"up", "exited", "failed", "killed"} BY <2>1 DEF TypeOK
  <2>7. UNCHANGED <<cleanups, wg, svc, using, open, signals>> OBVIOUS
  <2> HIDE DEF MovesOn
  <2> QED BY <2>1, <2>2, <2>3, <2>4, <2>5, <2>6, <2>7 DEF TypeOK
<1>3. NotYetStarted'
  <2>1. TypeOK /\ NotYetStarted BY DEF IndInv
  <2> QED BY <2>1, ServiceNames DEF NotYetStarted, TypeOK
<1>4. OpenFirst'
  <2>1. OpenFirst BY DEF IndInv
  <2> QED BY <2>1 DEF OpenFirst, Alive
<1>5. DrainedFirst'
  <2>1. DrainedFirst /\ ExitsDone BY DEF IndInv
  <2> QED BY <2>1 DEF DrainedFirst, ExitsDone, Alive
<1>6. ExitsDone' /\ DoneEmpty'
  <2>1. ExitsDone /\ DoneEmpty BY DEF IndInv
  <2> QED BY <2>1 DEF ExitsDone, DoneEmpty
<1> QED BY <1>1, <1>2, <1>3, <1>4, <1>5, <1>6 DEF IndInv

LEMMA DrainedStep ==
  ASSUME IndInv, Drained
  PROVE  IndInv'
<1>1. /\ Counted' /\ UsersAlive' /\ UsesItsOwn'
      /\ DatabaseFirst' /\ DatabaseLast' /\ StillToClose'
  BY OnlyMain DEF Drained, At, managerVars, serviceVars
<1>2. TypeOK' BY DEF IndInv, TypeOK, Drained, At, managerVars, serviceVars, Stages
<1>3. NotYetStarted' BY DEF IndInv, NotYetStarted, Drained
<1>4. OpenFirst' BY DEF OpenFirst, Drained
<1>5. DrainedFirst'
  <2>1. Alive = {} BY EmptyGroup DEF IndInv, Drained
  <2> QED BY <2>1 DEF DrainedFirst, Drained, Alive, serviceVars
<1>6. ExitsDone' /\ DoneEmpty' BY DEF IndInv, ExitsDone, DoneEmpty, Drained, At
<1> QED BY <1>1, <1>2, <1>3, <1>4, <1>5, <1>6 DEF IndInv

LEMMA SignalStep ==
  ASSUME IndInv, Signal
  PROVE  IndInv'
<1>1. /\ Counted' /\ UsersAlive' /\ UsesItsOwn'
      /\ DatabaseFirst' /\ DatabaseLast' /\ StillToClose'
  BY OnlyMain DEF Signal, serviceVars
<1>2. TypeOK' BY DEF IndInv, TypeOK, Signal, serviceVars
<1>3. NotYetStarted' BY DEF IndInv, NotYetStarted, Signal, serviceVars
<1>4. OpenFirst' BY DEF IndInv, OpenFirst, Alive, Signal, serviceVars
<1>5. DrainedFirst' BY DEF IndInv, DrainedFirst, Alive, Signal, serviceVars
<1>6. ExitsDone' /\ DoneEmpty' BY DEF IndInv, ExitsDone, DoneEmpty, Signal
<1> QED BY <1>1, <1>2, <1>3, <1>4, <1>5, <1>6 DEF IndInv

\* The steps that open something: the database is the first.
LEMMA OpenDatabaseStep ==
  ASSUME IndInv, OpenDatabase
  PROVE  IndInv'
<1> USE DEF OpenDatabase, At, Opens, serviceVars
<1>1. Counted' BY AliveSame DEF IndInv
<1>2. UsersAlive' /\ UsesItsOwn' BY DEF IndInv, UsersAlive, UsesItsOwn
<1>3. cleanups = <<>> /\ cleanups' = <<DB>> BY DEF IndInv, DatabaseFirst
<1>4. Len(cleanups') = 1 /\ cleanups'[1] = DB BY <1>3
<1>5. DatabaseFirst' BY <1>4 DEF DatabaseFirst
<1>6. open' = {DB} BY <1>3 DEF IndInv, StillToClose
<1>7. DatabaseLast' /\ StillToClose' BY <1>4, <1>6 DEF DatabaseLast, StillToClose
<1>8. TypeOK' BY ResourceNames, <1>3, <1>6 DEF IndInv, TypeOK, Stages, Startup
<1>9. NotYetStarted' BY DEF IndInv, NotYetStarted
<1>10. OpenFirst' BY <1>6 DEF IndInv, OpenFirst, NotYetStarted, Alive, Live
<1>11. DrainedFirst' BY DEF DrainedFirst
<1>12. ExitsDone' /\ DoneEmpty' BY DEF IndInv, ExitsDone, DoneEmpty
<1> QED BY <1>1, <1>2, <1>5, <1>7, <1>8, <1>9, <1>10, <1>11, <1>12 DEF IndInv

LEMMA OpenRPCClientStep ==
  ASSUME IndInv, OpenRPCClient
  PROVE  IndInv'
<1> USE DEF OpenRPCClient, At, Opens, serviceVars
<1>1. Counted' BY AliveSame DEF IndInv
<1>2. UsersAlive' /\ UsesItsOwn' BY DEF IndInv, UsersAlive, UsesItsOwn
<1>0. turn \in 1..NumChains BY DEF IndInv, TypeOK
<1>3. Rpc(turn) \in Resources /\ Rpc(turn) # DB BY <1>0, ResourceNames, NamesDiffer
<1>4. DB \in open BY DEF IndInv, OpenFirst
<1> DEFINE n == Len(cleanups)
<1>5. cleanups \in Seq(Resources) /\ n \in Nat BY DEF IndInv, TypeOK
<1>6. /\ cleanups' \in Seq(Resources)
      /\ Len(cleanups') = n + 1
      /\ cleanups'[n + 1] = Rpc(turn)
      /\ \A i \in 1..n : cleanups'[i] = cleanups[i]
  BY <1>3, <1>5
<1>7. n > 0 BY <1>4, <1>5 DEF IndInv, StillToClose
<1>8. \A i \in 1..n : cleanups[i] = DB <=> i = 1 BY DEF IndInv, DatabaseFirst
<1>9. \A r \in open : \E i \in 1..n : r = cleanups[i] BY DEF IndInv, StillToClose
<1>10. open' = open \cup {Rpc(turn)} /\ main' = "build" OBVIOUS
<1> HIDE DEF n, OpenRPCClient, Opens
<1>11. DatabaseFirst'
  <2>1. \A i \in 1..(n + 1) : cleanups'[i] = DB <=> i = 1
    <3> SUFFICES ASSUME NEW i \in 1..(n + 1) PROVE cleanups'[i] = DB <=> i = 1
      OBVIOUS
    <3>1. CASE i = n + 1 BY <1>3, <1>5, <1>6, <1>7, <3>1
    <3>2. CASE i # n + 1
      <4>1. i \in 1..n BY <1>5, <3>2
      <4> QED BY <1>6, <1>8, <4>1
    <3> QED BY <3>1, <3>2
  <2> QED BY <1>6, <1>10, <2>1 DEF DatabaseFirst
<1>12. DatabaseLast' BY <1>4, <1>10 DEF DatabaseLast
<1>13. StillToClose'
  <2>1. \A r \in open' : \E i \in 1..(n + 1) : r = cleanups'[i]
    BY <1>5, <1>6, <1>9, <1>10
  <2> QED BY <1>6, <2>1 DEF StillToClose
<1> USE DEF OpenRPCClient, Opens
<1>14. TypeOK' BY <1>3, <1>6 DEF IndInv, TypeOK, Stages, Startup
<1>15. NotYetStarted' BY DEF IndInv, NotYetStarted
<1>16. OpenFirst' BY DEF IndInv, OpenFirst, Alive
<1>17. DrainedFirst' BY DEF DrainedFirst
<1>18. ExitsDone' /\ DoneEmpty' BY DEF IndInv, ExitsDone, DoneEmpty
<1> QED
  BY <1>1, <1>2, <1>11, <1>12, <1>13, <1>14, <1>15, <1>16, <1>17, <1>18 DEF IndInv

\* Manager.Go: what the service uses is open.
LEMMA Goes ==
  ASSUME IndInv, NEW s \in Services, svc[s] = "none", Uses(s) \subseteq open, Go(s),
         \A t \in Alive : Uses(t) \subseteq open, open' = open
  PROVE  /\ Counted' /\ UsersAlive' /\ UsesItsOwn'
         /\ wg' \in Nat /\ svc' \in [Services -> Live \cup {"none", "ended"}]
         /\ \A t \in Services : t # s => svc'[t] = svc[t]
         /\ \A t \in Alive' : Uses(t) \subseteq open'
<1>1. Counted' BY Started DEF IndInv
<1>2. UsersAlive' BY DEF IndInv, UsersAlive, Go, TypeOK
<1>3. UsesItsOwn' BY DEF IndInv, UsesItsOwn, Go
<1>4. wg' \in Nat BY DEF IndInv, TypeOK, Go
<1>5. svc' \in [Services -> Live \cup {"none", "ended"}]
  BY DEF IndInv, TypeOK, Go, Live
<1>6. \A t \in Services : t # s => svc'[t] = svc[t] BY DEF IndInv, TypeOK, Go
<1>7. \A t \in Alive' : t = s \/ t \in Alive BY <1>6 DEF Alive
<1>8. \A t \in Alive' : Uses(t) \subseteq open' BY <1>7
<1> QED BY <1>1, <1>2, <1>3, <1>4, <1>5, <1>6, <1>8

LEMMA StartWorkerStep ==
  ASSUME IndInv, StartWorker
  PROVE  IndInv'
<1> USE DEF StartWorker, At
<1>1. turn \in 1..NumWorkers BY DEF IndInv, TypeOK
<1>2. Worker(turn) \in Services BY <1>1, ServiceNames
<1>3. svc[Worker(turn)] = "none" BY <1>1 DEF IndInv, NotYetStarted
<1>4. DB \in open /\ \A t \in Alive : Uses(t) \subseteq open
  BY DEF IndInv, OpenFirst
<1>5. Uses(Worker(turn)) \subseteq open BY <1>1, <1>4, WhatIsUsed
<1>6. /\ Counted' /\ UsersAlive' /\ UsesItsOwn'
      /\ wg' \in Nat /\ svc' \in [Services -> Live \cup {"none", "ended"}]
      /\ \A t \in Services : t # Worker(turn) => svc'[t] = svc[t]
      /\ \A t \in Alive' : Uses(t) \subseteq open'
  BY <1>2, <1>3, <1>4, <1>5, Goes
<1>7. TypeOK' BY <1>1, <1>6 DEF IndInv, TypeOK, Go
<1>8. NotYetStarted'
  <2>1. \A k \in 1..NumWorkers : k >= turn + 1 => svc'[Worker(k)] = "none"
    <3> SUFFICES ASSUME NEW k \in 1..NumWorkers, k >= turn + 1
                 PROVE  svc'[Worker(k)] = "none"
      OBVIOUS
    <3>1. k >= turn /\ k # turn BY <1>1
    <3>2. Worker(k) # Worker(turn) BY <1>1, <3>1, NamesDiffer
    <3>3. svc[Worker(k)] = "none" BY <3>1 DEF IndInv, NotYetStarted
    <3> QED BY <1>6, <3>2, <3>3, ServiceNames
  <2>2. \A k \in 1..NumChains : svc'[Scanner(k)] = "none"
    BY <1>1, <1>6, NamesDiffer, ServiceNames DEF IndInv, NotYetStarted
  <2> QED BY <2>1, <2>2 DEF NotYetStarted
<1>9. OpenFirst' BY <1>4, <1>6 DEF OpenFirst
<1>10. DrainedFirst' BY DEF DrainedFirst
<1>11. DatabaseFirst' BY DEF IndInv, DatabaseFirst, Go
<1>12. DatabaseLast' /\ StillToClose' BY DEF IndInv, DatabaseLast, StillToClose, Go
<1>13. ExitsDone' /\ DoneEmpty' BY DEF IndInv, ExitsDone, DoneEmpty
<1> QED BY <1>6, <1>7, <1>8, <1>9, <1>10, <1>11, <1>12, <1>13 DEF IndInv

LEMMA StartScannerStep ==
  ASSUME IndInv, StartScanner
  PROVE  IndInv'
<1> USE DEF StartScanner, At
<1>1. turn \in 1..NumChains BY DEF IndInv, TypeOK, NotYetStarted
<1>2. Scanner(turn) \in Services BY <1>1, ServiceNames
<1>3. svc[Scanner(turn)] = "none" BY <1>1 DEF IndInv, NotYetStarted
<1>4. /\ DB \in open /\ Rpc(turn) \in open
      /\ \A t \in Alive : Uses(t) \subseteq open
  BY DEF IndInv, OpenFirst
<1>5. Uses(Scanner(turn)) \subseteq open BY <1>1, <1>4, WhatIsUsed
<1>6. /\ Counted' /\ UsersAlive' /\ UsesItsOwn'
      /\ wg' \in Nat /\ svc' \in [Services -> Live \cup {"none", "ended"}]
      /\ \A t \in Services : t # Scanner(turn) => svc'[t] = svc[t]
      /\ \A t \in Alive' : Uses(t) \subseteq open'
  BY <1>2, <1>3, <1>4, <1>5, Goes
<1>7. TypeOK' BY <1>1, <1>6 DEF IndInv, TypeOK, Go, Stages, Startup
<1>8. NotYetStarted'
  <2>1. \A k \in 1..NumChains : k >= turn + 1 => svc'[Scanner(k)] = "none"
    <3> SUFFICES ASSUME NEW k \in 1..NumChains, k >= turn + 1
                 PROVE  svc'[Scanner(k)] = "none"
      OBVIOUS
    <3>1. k >= turn /\ k # turn BY <1>1
    <3>2. Scanner(k) # Scanner(turn) BY <1>1, <3>1, NamesDiffer
    <3>3. svc[Scanner(k)] = "none" BY <3>1 DEF IndInv, NotYetStarted
    <3> QED BY <1>6, <3>2, <3>3, ServiceNames
  <2> QED BY <2>1 DEF NotYetStarted
<1>9. OpenFirst' BY <1>4, <1>6 DEF OpenFirst
<1>10. DrainedFirst' BY DEF DrainedFirst
<1>11. DatabaseFirst' BY DEF IndInv, DatabaseFirst, Go
<1>12. DatabaseLast' /\ StillToClose' BY DEF IndInv, DatabaseLast, StillToClose, Go
<1>13. ExitsDone' /\ DoneEmpty' BY DEF IndInv, ExitsDone, DoneEmpty
<1> QED BY <1>6, <1>7, <1>8, <1>9, <1>10, <1>11, <1>12, <1>13 DEF IndInv

\* runCleanups takes the last, which is the database only when it is the only one.
LEMMA RunCleanupStep ==
  ASSUME IndInv, RunCleanup
  PROVE  IndInv'
<1> USE DEF RunCleanup, At, serviceVars
<1> DEFINE n == Len(cleanups)
<1>1. Counted' BY AliveSame DEF IndInv
<1>2. UsersAlive' /\ UsesItsOwn' BY DEF IndInv, UsersAlive, UsesItsOwn
<1>3. cleanups \in Seq(Resources) /\ n \in Nat /\ n > 0 BY DEF IndInv, TypeOK
<1>4. /\ cleanups' \in Seq(Resources)
      /\ Len(cleanups') = n - 1
      /\ \A i \in 1..(n - 1) : cleanups'[i] = cleanups[i]
  <2>1. cleanups' = SubSeq(cleanups, 1, n - 1) OBVIOUS
  <2>2. n - 1 \in Int /\ 1 \in Int /\ \A i \in 1..(n - 1) : cleanups[i] \in Resources
    BY <1>3, ElementOfSeq
  <2> HIDE DEF n, RunCleanup
  <2> DEFINE m == n - 1
  <2>3. m \in Nat /\ m = n - 1 BY <1>3
  <2> HIDE DEF m
  <2>4. /\ SubSeq(cleanups, 1, m) \in Seq(Resources)
        /\ Len(SubSeq(cleanups, 1, m)) = (IF 1 <= m THEN m - 1 + 1 ELSE 0)
        /\ \A i \in 1..(m - 1 + 1) : SubSeq(cleanups, 1, m)[i] = cleanups[1 + i - 1]
    BY <2>2, <2>3, SubSeqProperties
  <2>5. m - 1 + 1 = m /\ \A i \in 1..m : 1 + i - 1 = i BY <2>3
  <2>6. (IF 1 <= m THEN m - 1 + 1 ELSE 0) = m BY <2>3
  <2> QED BY <2>1, <2>3, <2>4, <2>5, <2>6
<1>5. \A i \in 1..n : cleanups[i] = DB <=> i = 1 BY DEF IndInv, DatabaseFirst
<1>6. \A r \in open : \E i \in 1..n : r = cleanups[i] BY DEF IndInv, StillToClose
<1>7. open' = open \ {cleanups[n]} /\ main' = "cleanup" OBVIOUS
<1>8. open # {} => DB \in open BY DEF IndInv, DatabaseLast
<1> HIDE DEF n, RunCleanup
<1>9. DatabaseFirst'
  <2>1. \A i \in 1..(n - 1) : cleanups'[i] = DB <=> i = 1 BY <1>3, <1>4, <1>5
  <2> QED BY <1>4, <1>7, <2>1 DEF DatabaseFirst
<1>10. \A r \in open' : \E i \in 1..(n - 1) : r = cleanups'[i]
  <2> SUFFICES ASSUME NEW r \in open' PROVE \E i \in 1..(n - 1) : r = cleanups'[i]
    OBVIOUS
  <2>1. PICK i \in 1..n : r = cleanups[i] BY <1>6, <1>7
  <2>2. i # n BY <1>7, <2>1
  <2>3. i \in 1..(n - 1) BY <1>3, <2>2
  <2> QED BY <1>4, <2>1, <2>3
<1>11. StillToClose' BY <1>4, <1>10 DEF StillToClose
<1>12. DatabaseLast'
  <2> SUFFICES ASSUME open' # {} PROVE DB \in open' BY DEF DatabaseLast
  <2>1. DB \in open BY <1>7, <1>8
  <2>2. n # 1 BY <1>10
  <2>3. cleanups[n] # DB BY <1>3, <1>5, <2>2
  <2> QED BY <1>7, <2>1, <2>3
<1> USE DEF RunCleanup
<1>13. TypeOK' BY <1>4, <1>7 DEF IndInv, TypeOK
<1>14. NotYetStarted' BY DEF IndInv, NotYetStarted
<1>15. OpenFirst' BY DEF OpenFirst
<1>16. DrainedFirst' BY DEF IndInv, DrainedFirst, Alive
<1>17. ExitsDone' /\ DoneEmpty' BY DEF IndInv, ExitsDone, DoneEmpty
<1> QED
  BY <1>1, <1>2, <1>9, <1>11, <1>12, <1>13, <1>14, <1>15, <1>16, <1>17 DEF IndInv

-----------------------------------------------------------------------------
\* The steps of a service.

\* The step of a service that stays alive.
LEMMA StaysAlive ==
  ASSUME IndInv, TypeOK', UsesItsOwn', NEW s \in Services, svc[s] \in Live, proc = "up",
         svc' = [svc EXCEPT ![s] = svc'[s]], svc'[s] \in Live,
         using' = [using EXCEPT ![s] = using'[s]],
         svc'[s] # "run" => using'[s] = None,
         UNCHANGED <<main, turn, cleanups, wg, timedOut, open, proc>>
  PROVE  IndInv'
<1>1. /\ NotYetStarted' /\ OpenFirst' /\ DrainedFirst'
      /\ DatabaseFirst' /\ DatabaseLast' /\ StillToClose'
      /\ ExitsDone' /\ DoneEmpty'
  BY OnlyService
<1>2. \A t \in Services : svc'[t] \in Live <=> svc[t] \in Live
  BY DEF IndInv, TypeOK
<1>3. Counted' BY <1>2, AliveSame DEF IndInv
<1>4. UsersAlive' BY DEF IndInv, TypeOK, UsersAlive
<1> QED BY <1>1, <1>3, <1>4 DEF IndInv

LEMMA BeginUseStep ==
  ASSUME IndInv, NEW s \in Services, BeginUse(s)
  PROVE  IndInv'
<1> USE DEF BeginUse, In, managerVars
<1>1. PICK r \in Uses(s) : using' = [using EXCEPT ![s] = r] OBVIOUS
<1>2. r \in Resources BY <1>1, WhatIsUsed
<1>3. TypeOK' BY <1>1, <1>2 DEF IndInv, TypeOK
<1>4. using'[s] = r BY <1>1 DEF IndInv, TypeOK
<1>5. UsesItsOwn' BY <1>1 DEF IndInv, TypeOK, UsesItsOwn, Uses
<1>6. svc' = [svc EXCEPT ![s] = svc'[s]] /\ svc'[s] = "run" BY DEF IndInv, TypeOK
<1> QED BY <1>1, <1>3, <1>4, <1>5, <1>6, StaysAlive DEF Live

LEMMA EndUseStep ==
  ASSUME IndInv, NEW s \in Services, EndUse(s)
  PROVE  IndInv'
<1> USE DEF EndUse, In, managerVars
<1>1. TypeOK' BY DEF IndInv, TypeOK
<1>2. using'[s] = None BY DEF IndInv, TypeOK
<1>3. UsesItsOwn' BY DEF IndInv, TypeOK, UsesItsOwn, Uses
<1>4. svc' = [svc EXCEPT ![s] = svc'[s]] /\ svc'[s] = "run" BY DEF IndInv, TypeOK
<1> QED BY <1>1, <1>2, <1>3, <1>4, StaysAlive DEF Live

LEMMA ReturnStep ==
  ASSUME IndInv, NEW s \in Services, Return(s)
  PROVE  IndInv'
<1> USE DEF Return, In, managerVars
<1>1. TypeOK' BY DEF IndInv, TypeOK, Live
<1>2. svc'[s] = "leaving" BY DEF IndInv, TypeOK
<1>3. UsesItsOwn' BY DEF IndInv, UsesItsOwn, Uses
<1>4. using' = [using EXCEPT ![s] = using'[s]] /\ using'[s] = None
  BY DEF IndInv, TypeOK
<1> QED BY <1>1, <1>2, <1>3, <1>4, StaysAlive DEF Live

LEMMA PanicStep ==
  ASSUME IndInv, NEW s \in Services, Panic(s)
  PROVE  IndInv'
<1> USE DEF Panic, In
<1>1. TypeOK' BY DEF IndInv, TypeOK, Live
<1>2. svc'[s] \in {"stopping", "leaving"} /\ using'[s] = None BY DEF IndInv, TypeOK
<1>3. UsesItsOwn' BY DEF IndInv, TypeOK, UsesItsOwn, Uses
<1>4. svc' = [svc EXCEPT ![s] = svc'[s]] BY DEF IndInv, TypeOK
<1> QED BY <1>1, <1>2, <1>3, <1>4, StaysAlive DEF Live

LEMMA StopCancelsStep ==
  ASSUME IndInv, NEW s \in Services, StopCancels(s)
  PROVE  IndInv'
<1> USE DEF StopCancels, CancelContext, In
<1>1. TypeOK' BY DEF IndInv, TypeOK, Live
<1>2. svc'[s] = "leaving" BY DEF IndInv, TypeOK
<1>3. UsesItsOwn' BY DEF IndInv, UsesItsOwn, Uses
<1>4. using' = [using EXCEPT ![s] = using'[s]] /\ using'[s] = None
  BY DEF IndInv, TypeOK, UsersAlive
<1> QED BY <1>1, <1>2, <1>3, <1>4, StaysAlive DEF Live

\* The service that leaves was counted.
LEMMA LeaveStep ==
  ASSUME IndInv, NEW s \in Services, Leave(s)
  PROVE  IndInv'
<1> USE DEF Leave, In
<1>1. svc'[s] = "ended" BY DEF IndInv, TypeOK
<1>2. using' = [using EXCEPT ![s] = using'[s]] /\ using'[s] = None
  BY DEF IndInv, TypeOK, UsersAlive
<1>3. Counted' BY Ended DEF IndInv
<1>4. IsFiniteSet(Alive')
  <2>1. Alive' \subseteq Services BY DEF Alive
  <2> QED BY <2>1, ServicesFinite, FS_Subset
<1>5. wg' \in Nat BY <1>3, <1>4, FS_CardinalityType DEF Counted
<1>6. TypeOK' BY <1>5 DEF IndInv, TypeOK
<1>7. UsersAlive' BY <1>2 DEF IndInv, TypeOK, UsersAlive
<1>8. UsesItsOwn' BY DEF IndInv, UsesItsOwn, Uses
<1>9. /\ NotYetStarted' /\ OpenFirst' /\ DrainedFirst'
      /\ DatabaseFirst' /\ DatabaseLast' /\ StillToClose'
      /\ ExitsDone' /\ DoneEmpty'
  BY <1>1, <1>2, OnlyService DEF Live
<1> QED BY <1>3, <1>6, <1>7, <1>8, <1>9 DEF IndInv

LEMMA FetchPanicsStep ==
  ASSUME IndInv, NEW s \in Services, FetchPanics(s)
  PROVE  IndInv'
<1> USE DEF FetchPanics, In, managerVars, serviceVars
<1>1. /\ Counted' /\ UsersAlive' /\ UsesItsOwn'
      /\ DatabaseFirst' /\ DatabaseLast' /\ StillToClose'
  BY OnlyMain
<1>2. TypeOK' BY DEF IndInv, TypeOK
<1>3. NotYetStarted' BY DEF IndInv, NotYetStarted
<1>4. OpenFirst' BY DEF IndInv, OpenFirst, Alive
<1>5. DrainedFirst' BY DEF IndInv, DrainedFirst, Alive
<1>6. ExitsDone' /\ DoneEmpty' BY DEF IndInv, ExitsDone, DoneEmpty
<1> QED BY <1>1, <1>2, <1>3, <1>4, <1>5, <1>6 DEF IndInv

-----------------------------------------------------------------------------
\* The invariant.

LEMMA NothingChanges ==
  ASSUME IndInv, UNCHANGED vars
  PROVE  IndInv'
<1> USE DEF vars, managerVars, serviceVars
<1>1. /\ Counted' /\ UsersAlive' /\ UsesItsOwn'
      /\ DatabaseFirst' /\ DatabaseLast' /\ StillToClose'
  BY OnlyMain
<1>2. TypeOK' BY DEF IndInv, TypeOK
<1>3. NotYetStarted' BY DEF IndInv, NotYetStarted
<1>4. OpenFirst' BY DEF IndInv, OpenFirst, Alive
<1>5. DrainedFirst' BY DEF IndInv, DrainedFirst, Alive
<1>6. ExitsDone' /\ DoneEmpty' BY DEF IndInv, ExitsDone, DoneEmpty
<1> QED BY <1>1, <1>2, <1>3, <1>4, <1>5, <1>6 DEF IndInv

LEMMA Initial ==
  ASSUME Init
  PROVE  IndInv
<1> USE DEF Init
<1>1. Alive = {} BY DEF Alive, Live
<1>2. Counted BY <1>1, FS_EmptySet DEF Counted
<1>3. TypeOK
  <2>1. signals \in 0..MaxSignals BY DEF AppAssumption
  <2>2. cleanups \in Seq(Resources) OBVIOUS
  <2>3. svc \in [Services -> Live \cup {"none", "ended"}] OBVIOUS
  <2>4. using \in [Services -> Resources \cup {None}] OBVIOUS
  <2>5. main \in Stages BY DEF Stages, Startup
  <2>6. /\ turn \in Nat \ {0} /\ wg \in Nat /\ open \subseteq Resources
        /\ proc \in {"up", "exited", "failed", "killed"}
    OBVIOUS
  <2>7. /\ ctxDone \in BOOLEAN /\ running \in BOOLEAN /\ hooked \in BOOLEAN
        /\ timedOut \in BOOLEAN
    OBVIOUS
  <2> HIDE DEF Init
  <2> QED BY <2>1, <2>2, <2>3, <2>4, <2>5, <2>6, <2>7 DEF TypeOK
<1>4. NotYetStarted /\ OpenFirst /\ DrainedFirst
  BY <1>1 DEF NotYetStarted, OpenFirst, DrainedFirst
<1>5. UsersAlive /\ UsesItsOwn BY DEF UsersAlive, UsesItsOwn
<1>6. Len(cleanups) = 0 OBVIOUS
<1>7. DatabaseFirst /\ DatabaseLast /\ StillToClose
  BY <1>6 DEF DatabaseFirst, DatabaseLast, StillToClose
<1>8. ExitsDone /\ DoneEmpty BY DEF ExitsDone, DoneEmpty
<1> QED BY <1>2, <1>3, <1>4, <1>5, <1>7, <1>8 DEF IndInv

LEMMA NextStep ==
  ASSUME IndInv, [Next]_vars
  PROVE  IndInv'
<1>1. CASE Main
  BY <1>1, MovesOnStep, OpenDatabaseStep, StartWorkerStep, OpenRPCClientStep,
     StartScannerStep, DrainedStep, RunCleanupStep
  DEF Main, MovesOn
<1>2. ASSUME NEW s \in Services, Service(s) PROVE IndInv'
  BY <1>2, BeginUseStep, EndUseStep, ReturnStep, PanicStep, StopCancelsStep,
     LeaveStep, FetchPanicsStep DEF Service
<1>3. CASE Signal BY <1>3, SignalStep
<1>4. CASE UNCHANGED vars BY <1>4, NothingChanges
<1> QED BY <1>1, <1>2, <1>3, <1>4 DEF Next, Terminated

\* The parts of the invariant hold together: the wait group counts the
\* goroutines, and what they use is open (Manager.Go, runCleanups).
THEOREM Invariance == Spec => []IndInv
<1>1. Init => IndInv BY Initial
<1>2. IndInv /\ [Next]_vars => IndInv' BY NextStep
<1> QED BY <1>1, <1>2, PTL DEF Spec

\* The variables keep their types; above all the wait group is never negative,
\* which would be a panic of its own (Manager.Go).
THEOREM TypeCorrect == Spec => []TypeOK
<1>1. IndInv => TypeOK BY DEF IndInv
<1> QED BY <1>1, Invariance, PTL

\* Unless the drain timed out, no worker and no scanner ever uses a database
\* or an endpoint that is not open, however many there are (Run, Shutdown).
THEOREM UsesOnlyOpenHolds == Spec => []UsesOnlyOpen
<1>1. IndInv => UsesOnlyOpen
  <2> SUFFICES ASSUME IndInv, proc = "up", ~timedOut, NEW s \in Services,
                      using[s] # None
               PROVE  using[s] \in open
    BY DEF UsesOnlyOpen
  <2>1. s \in Alive BY DEF IndInv, UsersAlive, Alive, Live
  <2>2. using[s] \in Uses(s) BY DEF IndInv, UsesItsOwn
  <2>3. main \notin {"cleanup", "done"} BY <2>1 DEF IndInv, DrainedFirst
  <2> QED BY <2>1, <2>2, <2>3 DEF IndInv, OpenFirst
<1> QED BY <1>1, Invariance, PTL

\* The database is the last to be closed (Run, runCleanups).
THEOREM DatabaseLastHolds == Spec => []DatabaseLast
<1>1. IndInv => DatabaseLast BY DEF IndInv
<1> QED BY <1>1, Invariance, PTL

\* A process that shut down left nothing open and, unless the drain timed out,
\* no service behind (Shutdown, Wait).
THEOREM CleanExitHolds == Spec => []CleanExit
<1>1. IndInv => CleanExit
  <2> SUFFICES ASSUME IndInv, proc = "exited"
               PROVE  open = {} /\ (timedOut \/ Alive = {})
    BY DEF CleanExit
  <2>1. main = "done" BY DEF IndInv, ExitsDone
  <2>2. cleanups = <<>> BY <2>1 DEF IndInv, DoneEmpty
  <2>3. Len(cleanups) = 0 BY <2>2
  <2>4. open = {} BY <2>3 DEF IndInv, StillToClose
  <2>5. timedOut \/ Alive = {} BY <2>1 DEF IndInv, DrainedFirst, TypeOK
  <2> QED BY <2>4, <2>5
<1> QED BY <1>1, Invariance, PTL
=============================================================================
