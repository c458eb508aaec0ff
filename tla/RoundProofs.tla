------------------------------ MODULE RoundProofs ------------------------------
(***************************************************************************)
(* What holds of Round for every value of its constants.                   *)
(***************************************************************************)
EXTENDS Round, FiniteSetTheorems, SequenceTheorems, WellFoundedInduction, TLAPS

-----------------------------------------------------------------------------
\* Induction over the natural numbers, by the least number for which something
\* is not so.

LEMMA LeastNumber ==
  ASSUME NEW T, T \subseteq Nat, T # {}
  PROVE  \E x \in T : \A y \in T : x <= y
<1>1. PICK x \in T : \A y \in T : <<y, x>> \notin OpToRel(<, Nat)
  BY NatLessThanWellFounded, WFMin, Zenon
<1>2. \A y \in T : ~(y < x) BY <1>1 DEF OpToRel
<1> QED BY <1>2

LEMMA InductionOverNat ==
  ASSUME NEW S, 0 \in S, \A n \in Nat : n \in S => n + 1 \in S
  PROVE  Nat \subseteq S
<1> SUFFICES ASSUME Nat \ S # {} PROVE FALSE OBVIOUS
<1>1. PICK x \in Nat \ S : \A y \in Nat \ S : x <= y BY LeastNumber
<1>2. x - 1 \in Nat /\ x - 1 \in S BY <1>1
<1> QED BY <1>1, <1>2

\* A function that is defined by steps exists.
Steps(f, S, a, step, n) ==
    /\ f \in [0..n -> S] /\ f[0] = a
    /\ \A i \in 0..(n - 1) : f[i + 1] = step[i][f[i]]

LEMMA Recursion ==
  ASSUME NEW S, NEW a \in S, NEW step \in [Nat -> [S -> S]], NEW n \in Nat
  PROVE  \E f : Steps(f, S, a, step, n)
<1> DEFINE Is(f, k) == /\ f \in [0..k -> S] /\ f[0] = a
                       /\ \A i \in 0..(k - 1) : f[i + 1] = step[i][f[i]]
           T == {k \in Nat : \E f : Is(f, k)}
<1>1. 0 \in T
  <2>1. Is([i \in 0..0 |-> a], 0) OBVIOUS
  <2> QED BY <2>1
<1>2. ASSUME NEW k \in Nat, k \in T PROVE k + 1 \in T
  <2>1. PICK f : Is(f, k) BY <1>2
  <2> DEFINE g == [i \in 0..(k + 1) |-> IF i = k + 1 THEN step[k][f[k]] ELSE f[i]]
  <2>2. step[k][f[k]] \in S
    <3>1. f[k] \in S BY <2>1
    <3> QED BY <3>1
  <2>3. g \in [0..(k + 1) -> S] BY <2>1, <2>2
  <2>4. g[0] = a BY <2>1
  <2>5. ASSUME NEW i \in 0..k PROVE g[i + 1] = step[i][g[i]]
    <3>1. CASE i = k BY <3>1
    <3>2. CASE i # k
      <4>1. i \in 0..(k - 1) /\ g[i] = f[i] /\ g[i + 1] = f[i + 1] BY <3>2
      <4> QED BY <2>1, <4>1
    <3> QED BY <3>1, <3>2
  <2> HIDE DEF g
  <2>6. Is(g, k + 1) BY <2>3, <2>4, <2>5
  <2> HIDE DEF Is
  <2> QED BY <2>6
<1> HIDE DEF T
<1>3. n \in T BY <1>1, <1>2, InductionOverNat
<1> QED BY <1>3 DEF T, Steps

LEMMA UpTo ==
  ASSUME NEW n \in Nat
  PROVE  IsFiniteSet(1..n) /\ Cardinality(1..n) = n
<1>1. 1 \in Int /\ n \in Int OBVIOUS
<1>2. IsFiniteSet(1..n) /\ Cardinality(1..n) = IF 1 > n THEN 0 ELSE n - 1 + 1
  BY <1>1, FS_Interval, Zenon
<1> QED BY <1>2

\* A set of numbers that has with each the ones below it.
LEMMA Initial ==
  ASSUME NEW m \in Nat, NEW S \in SUBSET (1..m), \A n \in S : 1..n \subseteq S
  PROVE  Cardinality(S) \in 0..m /\ S = 1..Cardinality(S)
<1> DEFINE T == {k \in Nat : k + 1 \notin S}
<1>1. m \in T OBVIOUS
<1>2. PICK k \in T : \A j \in T : k <= j BY <1>1, LeastNumber
<1>3. \A i \in 1..k : i \in S
  <2> SUFFICES ASSUME NEW i \in 1..k, i \notin S PROVE FALSE OBVIOUS
  <2>1. i - 1 \in T OBVIOUS
  <2> QED BY <1>2, <2>1
<1>4. \A i \in S : i <= k
  <2> SUFFICES ASSUME NEW i \in S, i > k PROVE FALSE OBVIOUS
  <2>1. k + 1 \in 1..i OBVIOUS
  <2> QED BY <2>1
<1>5. S = 1..k
  <2>1. k \in Nat OBVIOUS
  <2>2. \A i \in S : i \in 1..k BY <1>4, <2>1
  <2> HIDE DEF T
  <2> QED BY <1>3, <2>2
<1>6. Cardinality(S) = k BY <1>5, UpTo
<1>7. k <= m BY <1>1, <1>2
<1> QED BY <1>5, <1>6, <1>7

-----------------------------------------------------------------------------
\* planChunks.

USE WordAssumption

LEMMA Modulo ==
  ASSUME NEW a \in Nat, NEW n \in Nat \ {0}
  PROVE  /\ a % n \in 0..(n - 1)
         /\ a < n => a % n = a
         /\ a \in n..(2 * n - 1) => a % n = a - n
<1>1. a % n \in 0..(n - 1) OBVIOUS
<1>2. a < n => a % n = a OBVIOUS
<1>3. ASSUME a \in n..(2 * n - 1) PROVE a % n = a - n
  <2>1. a = n * 1 + (a - n) /\ a - n \in 0..(n - 1) BY <1>3
  <2> QED BY <2>1
<1> QED BY <1>1, <1>2, <1>3

\* Where its chunks begin, as long as it plans any.
Starts(first, top, size, max) == CHOOSE from : from =
    [i \in 1..max |-> IF i = 1 THEN first
                      ELSE (NextToBlock(from[i - 1], top, size) + 1) % Word]
PlannedStarts(from, top, size, max) ==
    {n \in 1..max : \A i \in 1..n : /\ from[i] <= top
                                    /\ i < n => NextToBlock(from[i], top, size) # top}

AreStarts(from, first, top, size, max) ==
    /\ from \in [1..max -> Nat] /\ from[1] = first
    /\ \A i \in 1..(max - 1) :
          from[i + 1] = (NextToBlock(from[i], top, size) + 1) % Word

LEMMA StartsExist ==
  ASSUME NEW first \in Nat, NEW top \in Nat, NEW size \in Nat \ {0}, NEW max \in Nat \ {0}
  PROVE  AreStarts(Starts(first, top, size, max), first, top, size, max)
<1> DEFINE Next1(x) == (NextToBlock(x, top, size) + 1) % Word
           step == [i \in Nat |-> [x \in Nat |-> Next1(x)]]
           Is(g) == g = [i \in 1..max |-> IF i = 1 THEN first ELSE Next1(g[i - 1])]
<1>1. \A x \in Nat : Next1(x) \in Nat
  <2> SUFFICES ASSUME NEW x \in Nat PROVE Next1(x) \in Nat OBVIOUS
  <2>1. NextToBlock(x, top, size) \in Nat
    <3>1. (x + size - 1) % Word \in Nat BY Modulo
    <3> QED BY <3>1 DEF NextToBlock
  <2> QED BY <2>1, Modulo
<1> HIDE DEF Next1
<1>2. PICK f : Steps(f, Nat, first, step, max - 1)
  <2>1. step \in [Nat -> [Nat -> Nat]] BY <1>1
  <2>2. max - 1 \in Nat OBVIOUS
  <2> HIDE DEF step
  <2> QED BY <2>1, <2>2, Recursion, Zenon
<1> USE <1>2 DEF Steps
<1> DEFINE g == [i \in 1..max |-> f[i - 1]]
<1>3. ASSUME NEW i \in 1..max
      PROVE  g[i] = IF i = 1 THEN first ELSE Next1(g[i - 1])
  <2>1. CASE i = 1 BY <1>2, <2>1
  <2>2. CASE i # 1
    <3>1. i - 2 \in 0..((max - 1) - 1) /\ (i - 2) + 1 = i - 1 BY <2>2
    <3>2. f[i - 1] = step[i - 2][f[i - 2]] BY <1>2, <3>1
    <3>3. f[i - 2] \in Nat /\ g[i - 1] = f[i - 2] BY <2>2
    <3> QED BY <2>2, <3>1, <3>2, <3>3
  <2> QED BY <2>1, <2>2
<1>4. Is(g) BY <1>3
<1>5. Is(Starts(first, top, size, max))
  <2>1. \E h : Is(h) BY <1>4
  <2> QED BY <2>1, Zenon DEF Starts, Next1
<1> DEFINE from == Starts(first, top, size, max)
<1> HIDE DEF from, g
<1>6. \A i \in 1..max : from[i] = IF i = 1 THEN first ELSE Next1(from[i - 1])
  BY <1>5 DEF from
<1>7. \A i \in 1..(max - 1) : from[i + 1] = Next1(from[i])
  <2> SUFFICES ASSUME NEW i \in 1..(max - 1) PROVE from[i + 1] = Next1(from[i]) OBVIOUS
  <2>1. i + 1 \in 1..max /\ i + 1 # 1 /\ (i + 1) - 1 = i OBVIOUS
  <2> QED BY <1>6, <2>1
<1>8. from \in [1..max -> Nat]
  <2> DEFINE T == {i \in Nat : i + 1 <= max => from[i + 1] \in Nat}
  <2>1. 0 \in T BY <1>6
  <2>2. ASSUME NEW i \in Nat, i \in T PROVE i + 1 \in T
    <3> SUFFICES ASSUME (i + 1) + 1 <= max PROVE from[(i + 1) + 1] \in Nat OBVIOUS
    <3>1. i + 1 \in 1..(max - 1) OBVIOUS
    <3>2. from[i + 1] \in Nat BY <2>2
    <3>3. from[(i + 1) + 1] = Next1(from[i + 1]) BY <1>7, <3>1
    <3> QED BY <1>1, <3>2, <3>3
  <2> HIDE DEF T
  <2>3. \A i \in Nat : i \in T BY <2>1, <2>2, InductionOverNat
  <2>4. ASSUME NEW i \in 1..max PROVE from[i] \in Nat
    <3>1. i - 1 \in Nat /\ (i - 1) + 1 = i OBVIOUS
    <3>2. i - 1 \in T BY <2>3, <3>1
    <3> QED BY <3>1, <3>2 DEF T
  <2>5. from = [i \in 1..max |-> from[i]] BY <1>5 DEF from
  <2> QED BY <2>4, <2>5
<1> QED BY <1>6, <1>7, <1>8 DEF AreStarts, from, Next1

\* What a plan is: chunks from first on that end with top or before, each from
\* the block after the one before.
IsPlan(ch, first, top, size) ==
    /\ Len(ch) \in Nat /\ DOMAIN ch = 1..Len(ch)
    /\ Len(ch) # 0 => ch[1].from = first
    /\ \A i \in 1..Len(ch) : ch[i].from \in 0..top /\ ch[i].to = NextToBlock(ch[i].from, top, size)
    /\ \A i \in 1..(Len(ch) - 1) :
          ch[i].to # top /\ ch[i + 1].from = (ch[i].to + 1) % Word

LEMMA PlanIsPlan ==
  ASSUME NEW first \in Nat, NEW top \in Nat, NEW size \in Nat \ {0}, NEW max \in Nat \ {0}
  PROVE  IsPlan(PlanChunks(first, top, size, max), first, top, size)
<1> DEFINE from == Starts(first, top, size, max)
           planned == PlannedStarts(from, top, size, max)
           n == Cardinality(planned)
           ch == PlanChunks(first, top, size, max)
<1>1. /\ from \in [1..max -> Nat] /\ from[1] = first
      /\ \A i \in 1..(max - 1) : from[i + 1] = (NextToBlock(from[i], top, size) + 1) % Word
  <2>1. AreStarts(from, first, top, size, max) BY StartsExist, Zenon
  <2> QED BY <2>1, Zenon DEF AreStarts
<1>2. ch = [i \in 1..n |-> [from |-> from[i], to |-> NextToBlock(from[i], top, size)]]
  BY Zenon DEF PlanChunks, Starts, PlannedStarts
<1>3. n \in 0..max /\ planned = 1..n
  <2>1. planned \in SUBSET (1..max) BY DEF PlannedStarts
  <2>2. \A m \in planned : 1..m \subseteq planned
    <3> SUFFICES ASSUME NEW m \in planned, NEW k \in 1..m PROVE k \in planned OBVIOUS
    <3>1. m \in 1..max /\ \A i \in 1..m : /\ from[i] <= top
                                          /\ i < m => NextToBlock(from[i], top, size) # top
      BY DEF PlannedStarts
    <3>2. k \in 1..max /\ \A i \in 1..k : /\ from[i] <= top
                                          /\ i < k => NextToBlock(from[i], top, size) # top
      BY <3>1
    <3> QED BY <3>2 DEF PlannedStarts
  <2> HIDE DEF planned
  <2> QED BY <2>1, <2>2, Initial
<1>4. n # 0 => \A i \in 1..n : /\ from[i] <= top
                               /\ i < n => NextToBlock(from[i], top, size) # top
  <2> SUFFICES ASSUME n # 0
               PROVE  \A i \in 1..n : /\ from[i] <= top
                                      /\ i < n => NextToBlock(from[i], top, size) # top
    OBVIOUS
  <2>1. n \in planned
    <3> HIDE DEF n
    <3> QED BY <1>3
  <2> HIDE DEF n
  <2> QED BY <2>1 DEF PlannedStarts
<1> HIDE DEF from, planned, n, ch
<1>5. Len(ch) = n /\ DOMAIN ch = 1..n BY <1>2, <1>3
<1>6. \A i \in 1..n : ch[i].from = from[i] /\ ch[i].to = NextToBlock(from[i], top, size)
  BY <1>2, <1>3
<1>7. \A i \in 1..n : ch[i].from \in 0..top BY <1>1, <1>3, <1>4, <1>6
<1>8. ASSUME NEW i \in 1..(n - 1)
      PROVE  ch[i].to # top /\ ch[i + 1].from = (ch[i].to + 1) % Word
  <2>1. i \in 1..n /\ i < n /\ i + 1 \in 1..n /\ i \in 1..(max - 1) BY <1>3
  <2>2. NextToBlock(from[i], top, size) # top BY <1>3, <1>4, <2>1
  <2>3. from[i + 1] = (NextToBlock(from[i], top, size) + 1) % Word BY <1>1, <2>1
  <2> QED BY <1>6, <2>1, <2>2, <2>3
<1>9. n # 0 => ch[1].from = first BY <1>1, <1>3, <1>6
<1>10. IsPlan(ch, first, top, size) BY <1>3, <1>5, <1>6, <1>7, <1>8, <1>9 DEF IsPlan
<1> QED BY <1>10 DEF ch

\* Numbers that grow from one to the next.
LEMMA Ascending ==
  ASSUME NEW n \in Nat, NEW f \in [1..n -> Int], \A i \in 1..(n - 1) : f[i] < f[i + 1]
  PROVE  \A i, j \in 1..n : i < j => f[i] < f[j]
<1> DEFINE T == {d \in Nat : \A i \in 1..n : i + d \in 1..n /\ d # 0 => f[i] < f[i + d]}
<1>1. 0 \in T OBVIOUS
<1>2. ASSUME NEW d \in Nat, d \in T PROVE d + 1 \in T
  <2> SUFFICES ASSUME NEW i \in 1..n, i + (d + 1) \in 1..n PROVE f[i] < f[i + (d + 1)]
    OBVIOUS
  <2>1. i + d \in 1..(n - 1) /\ (i + d) + 1 = i + (d + 1) OBVIOUS
  <2>2. f[i + d] < f[i + (d + 1)] BY <2>1
  <2>3. CASE d = 0 BY <2>2, <2>3
  <2>4. CASE d # 0
    <3>1. f[i] < f[i + d] BY <1>2, <2>1, <2>4
    <3>2. f[i] \in Int /\ f[i + d] \in Int /\ f[i + (d + 1)] \in Int BY <2>1
    <3> QED BY <2>2, <3>1, <3>2
  <2> QED BY <2>3, <2>4
<1> HIDE DEF T
<1>3. \A d \in Nat : d \in T BY <1>1, <1>2, InductionOverNat
<1> SUFFICES ASSUME NEW i \in 1..n, NEW j \in 1..n, i < j PROVE f[i] < f[j] OBVIOUS
<1>4. j - i \in Nat /\ j - i # 0 /\ i + (j - i) = j OBVIOUS
<1> QED BY <1>3, <1>4 DEF T

\* A chunk ends at top or before.  When the sum does not wrap round and the chunk is
\* not the last, the next begins after it.
LEMMA ChunkEnds ==
  ASSUME NEW a \in Nat, NEW top \in Nat, a <= top, top + 1 < Word, NEW size \in 1..(Word - 1)
  PROVE  LET to == NextToBlock(a, top, size)
         IN  /\ to \in 0..top
             /\ (to + 1) % Word = to + 1
             /\ a + size <= Word => a <= to
             /\ a + size <= Word /\ to # top => to + 1 = a + size
             /\ a + size > Word /\ to # top => to + 1 = a + size - Word
<1> DEFINE sum == a + size - 1
           to == NextToBlock(a, top, size)
<1>1. to = IF sum % Word > top THEN top ELSE sum % Word BY Zenon DEF NextToBlock
<1>2. sum \in Nat /\ sum <= 2 * Word - 1 OBVIOUS
<1> HIDE DEF sum
<1>3. /\ sum % Word \in 0..(Word - 1)
      /\ sum < Word => sum % Word = sum
      /\ sum \in Word..(2 * Word - 1) => sum % Word = sum - Word
  BY <1>2, Modulo
<1> HIDE DEF to
<1>4. to \in 0..top BY <1>1, <1>3
<1>5. (to + 1) % Word = to + 1
  <2>1. to + 1 \in Nat /\ to + 1 < Word BY <1>4
  <2> QED BY <2>1, Modulo
<1>6. /\ a + size <= Word => a <= to
      /\ a + size <= Word /\ to # top => to + 1 = a + size
  <2> SUFFICES ASSUME a + size <= Word PROVE a <= to /\ (to # top => to + 1 = a + size)
    OBVIOUS
  <2>1. sum < Word /\ sum >= a BY DEF sum
  <2>2. sum % Word = sum BY <1>3, <2>1
  <2> QED BY <1>1, <1>2, <2>1, <2>2 DEF sum
<1>7. a + size > Word /\ to # top => to + 1 = a + size - Word
  <2> SUFFICES ASSUME a + size > Word, to # top PROVE to + 1 = a + size - Word
    OBVIOUS
  <2>1. sum \in Word..(2 * Word - 1) BY <1>2 DEF sum
  <2>2. sum % Word = sum - Word BY <1>3, <2>1
  <2> QED BY <1>1, <1>2, <2>2 DEF sum
<1> QED BY <1>4, <1>5, <1>6, <1>7 DEF to

\* What is proved of a plan needs heights that are small beside the word, and a
\* chunk size that is one.
FitsWord(first, top, size) ==
    first \in 0..top /\ top \in Nat /\ 2 * top < Word /\ top + 1 < Word /\ size \in 1..(Word - 1)

LEMMA PlannedChunk ==
  ASSUME NEW first, NEW top, NEW size, FitsWord(first, top, size),
         NEW ch, IsPlan(ch, first, top, size), NEW i \in 1..Len(ch)
  PROVE  /\ ch[i].from \in 0..top /\ ch[i].to \in 0..top
         /\ ch[i].from + size <= Word => ch[i].from <= ch[i].to
         /\ i # Len(ch) =>
               /\ ch[i + 1].from = ch[i].to + 1
               /\ ch[i].from + size <= Word => ch[i + 1].from = ch[i].from + size
               /\ ch[i].from + size > Word => ch[i + 1].from = ch[i].from + size - Word
<1> DEFINE a == ch[i].from
           to == NextToBlock(a, top, size)
<1>1. a \in Nat /\ a <= top /\ top \in Nat /\ top + 1 < Word /\ size \in 1..(Word - 1)
  BY DEF FitsWord, IsPlan
<1>2. ch[i].to = to BY DEF IsPlan
<1>3. i # Len(ch) => ch[i].to # top /\ ch[i + 1].from = (ch[i].to + 1) % Word
  <2>0. Len(ch) \in Nat BY Zenon DEF IsPlan
  <2>1. i # Len(ch) => i \in 1..(Len(ch) - 1) BY <2>0
  <2> HIDE DEF a, to
  <2> QED BY <2>1, Zenon DEF IsPlan
<1> HIDE DEF a
<1>4. /\ to \in 0..top
      /\ (to + 1) % Word = to + 1
      /\ a + size <= Word => a <= to
      /\ a + size <= Word /\ to # top => to + 1 = a + size
      /\ a + size > Word /\ to # top => to + 1 = a + size - Word
  BY <1>1, ChunkEnds
<1> HIDE DEF to
<1> QED BY <1>1, <1>2, <1>3, <1>4 DEF a

\* No two chunks begin at the same block.  When no sum can wrap round, each begins
\* above the one before; when one can, the size is above top, so that only a chunk
\* whose sum wraps is not the last, and each begins below the one before.
LEMMA StartsDiffer ==
  ASSUME NEW first, NEW top, NEW size, FitsWord(first, top, size),
         NEW ch, IsPlan(ch, first, top, size)
  PROVE  /\ \A i, j \in 1..Len(ch) : ch[i].from = ch[j].from => i = j
         /\ first + size <= Word /\ top + size <= Word =>
               \A i \in 1..Len(ch) : first <= ch[i].from
<1> DEFINE n == Len(ch)
           up == [i \in 1..n |-> ch[i].from]
           down == [i \in 1..n |-> -ch[i].from]
<1>1. /\ n \in Nat /\ top \in Nat /\ size \in 1..(Word - 1)
      /\ \A i \in 1..n : ch[i].from \in 0..top
      /\ n # 0 => ch[1].from = first
  BY DEF IsPlan, FitsWord
<1>2. ASSUME NEW i \in 1..(n - 1)
      PROVE  /\ ch[i].from + size <= Word => ch[i + 1].from = ch[i].from + size
             /\ ch[i].from + size > Word => ch[i + 1].from = ch[i].from + size - Word
             /\ ch[i + 1].from <= top
  <2>1. i \in 1..n /\ i + 1 \in 1..n /\ i # n BY <1>1
  <2> QED BY <1>1, <2>1, PlannedChunk
<1> HIDE DEF n
<1>3. up \in [1..n -> Int] /\ down \in [1..n -> Int] BY <1>1
<1>4. CASE top + size <= Word
  <2>1. \A i \in 1..(n - 1) : up[i] < up[i + 1]
    <3> SUFFICES ASSUME NEW i \in 1..(n - 1) PROVE ch[i].from < ch[i + 1].from
      BY <1>1
    <3>1. ch[i].from \in 0..top BY <1>1
    <3> QED BY <1>1, <1>2, <1>4, <3>1
  <2>2. \A i, j \in 1..n : i < j => ch[i].from < ch[j].from
    <3> HIDE DEF up
    <3>1. \A i, j \in 1..n : i < j => up[i] < up[j] BY <1>1, <1>3, <2>1, Ascending
    <3> QED BY <3>1 DEF up
  <2>3. \A i, j \in 1..n : ch[i].from = ch[j].from => i = j
    <3> SUFFICES ASSUME NEW i \in 1..n, NEW j \in 1..n, ch[i].from = ch[j].from PROVE i = j
      OBVIOUS
    <3>1. ~(i < j) /\ ~(j < i) BY <1>1, <2>2
    <3> QED BY <1>1, <3>1
  <2>4. \A i \in 1..n : first <= ch[i].from
    <3> SUFFICES ASSUME NEW i \in 1..n PROVE first <= ch[i].from OBVIOUS
    <3>1. 1 \in 1..n /\ ch[1].from = first BY <1>1
    <3>2. i # 1 => ch[1].from < ch[i].from BY <2>2, <3>1
    <3> QED BY <1>1, <3>1, <3>2
  <2> QED BY <2>3, <2>4 DEF n
<1>5. CASE top + size > Word
  <2>1. \A i \in 1..(n - 1) : down[i] < down[i + 1]
    <3> SUFFICES ASSUME NEW i \in 1..(n - 1) PROVE down[i] < down[i + 1] OBVIOUS
    <3>0. i \in 1..n /\ i + 1 \in 1..n BY <1>1
    <3>1. ch[i].from \in 0..top /\ ch[i + 1].from \in 0..top BY <1>1, <3>0
    <3>2. down[i] = -ch[i].from /\ down[i + 1] = -ch[i + 1].from BY <3>0
    <3> HIDE DEF down
    <3>3. ch[i + 1].from <= top /\ size > top BY <1>1, <1>2, <1>5 DEF FitsWord
    <3>4. ch[i].from + size > Word
      <4> SUFFICES ASSUME ch[i].from + size <= Word PROVE FALSE BY <1>1, <3>1
      <4>1. ch[i + 1].from = ch[i].from + size BY <1>2
      <4> QED BY <1>1, <3>1, <3>3, <4>1
    <3>5. ch[i + 1].from < ch[i].from BY <1>1, <1>2, <3>1, <3>4
    <3> QED BY <3>1, <3>2, <3>5
  <2>2. \A i, j \in 1..n : i < j => ch[j].from < ch[i].from
    <3> HIDE DEF down
    <3>1. \A i, j \in 1..n : i < j => down[i] < down[j] BY <1>1, <1>3, <2>1, Ascending
    <3> QED BY <1>1, <3>1 DEF down
  <2>3. \A i, j \in 1..n : ch[i].from = ch[j].from => i = j
    <3> SUFFICES ASSUME NEW i \in 1..n, NEW j \in 1..n, ch[i].from = ch[j].from PROVE i = j
      OBVIOUS
    <3>1. ~(i < j) /\ ~(j < i) BY <1>1, <2>2
    <3> QED BY <1>1, <3>1
  <2> QED BY <1>1, <1>5, <2>3 DEF n
<1> QED BY <1>1, <1>4, <1>5

\* Chunks that begin before they end, one after the other, leave no block out.
LEMMA ChunksCover ==
  ASSUME NEW first, NEW top, NEW size, FitsWord(first, top, size),
         NEW ch, IsPlan(ch, first, top, size),
         NEW k \in 1..Len(ch), NEW b \in Nat, first <= b, b <= ch[k].to
  PROVE  \E i \in 1..k : b \in ch[i].from..ch[i].to
<1> DEFINE T == {i \in 1..k : b <= ch[i].to}
<1>1. k \in T /\ T \subseteq Nat BY DEF IsPlan
<1>2. PICK i \in T : \A j \in T : i <= j BY <1>1, LeastNumber
<1>3. i \in 1..k /\ i \in 1..Len(ch) /\ b <= ch[i].to BY DEF IsPlan
<1>4. ch[i].from <= b
  <2>1. CASE i = 1 BY <2>1 DEF IsPlan
  <2>2. CASE i # 1
    <3>1. i - 1 \in 1..(Len(ch) - 1) /\ i - 1 \in 1..k /\ (i - 1) + 1 = i
      BY <1>3, <2>2 DEF IsPlan
    <3>2. i - 1 \notin T BY <1>2, <1>3
    <3>3. ~(b <= ch[i - 1].to) BY <3>1, <3>2
    <3>4. i - 1 \in 1..Len(ch) /\ i - 1 # Len(ch) BY <3>1 DEF IsPlan
    <3>5. ch[i - 1].to \in 0..top /\ ch[i].from = ch[i - 1].to + 1
      BY <3>1, <3>4, PlannedChunk
    <3> QED BY <3>3, <3>5
  <2> QED BY <2>1, <2>2
<1>5. ch[i].from \in 0..top /\ ch[i].to \in 0..top BY <1>3, PlannedChunk
<1> QED BY <1>3, <1>4, <1>5

\* A round gets to the end of a chunk that is done and has none before it that is
\* not.
GetsTo(b, first, ch, res) ==
    \/ b = first
    \/ \E k \in 1..Len(ch) :
          /\ b = ch[k].to + 1
          /\ \A i \in 1..k : ch[i].from \in DOMAIN res /\ res[ch[i].from] = "ok"

LEMMA CommitsDone ==
  ASSUME NEW first, NEW top, NEW size, FitsWord(first, top, size),
         NEW ch, IsPlan(ch, first, top, size), NEW res
  PROVE  GetsTo(CommitPoint(first, ch, res), first, ch, res)
<1> DEFINE Ok(i) == ch[i].from \in DOMAIN res /\ res[ch[i].from] = "ok"
           committed == {n \in DOMAIN ch : \A i \in 1..n : Ok(i)}
           k == Cardinality(committed)
<1>1. CommitPoint(first, ch, res) =
         IF committed = {} THEN first ELSE (ch[k].to + 1) % Word
  BY Zenon DEF CommitPoint
<1>2. Len(ch) \in Nat /\ DOMAIN ch = 1..Len(ch) BY Zenon DEF IsPlan
<1> HIDE DEF Ok
<1>3. k \in 0..Len(ch) /\ committed = 1..k
  <2>1. committed \in SUBSET (1..Len(ch)) BY <1>2
  <2>2. \A n \in committed : 1..n \subseteq committed BY <1>2
  <2> HIDE DEF committed
  <2> QED BY <1>2, <2>1, <2>2, Initial
<1>4. CASE committed # {}
  <2>1. k \in 1..Len(ch) /\ k \in committed
    <3> HIDE DEF k
    <3> QED BY <1>3, <1>4
  <2>2. \A i \in 1..k : Ok(i) BY <2>1
  <2> HIDE DEF k, committed
  <2>3. ch[k].to \in 0..top BY <2>1, PlannedChunk
  <2>4. (ch[k].to + 1) % Word = ch[k].to + 1
    <3>1. ch[k].to + 1 \in Nat /\ ch[k].to + 1 < Word BY <2>3 DEF FitsWord
    <3> QED BY <3>1, Modulo
  <2> QED BY <1>1, <1>4, <2>1, <2>2, <2>4 DEF Ok, GetsTo
<1> QED BY <1>1, <1>4 DEF GetsTo

-----------------------------------------------------------------------------
\* BuildQueries.

LEMMA Quotient ==
  ASSUME NEW a \in Nat, NEW n \in Nat \ {0}
  PROVE  /\ a \div n \in Nat /\ (a \div n) * n <= a /\ a < (a \div n) * n + n
         /\ \A q \in Nat : q * n <= a => q <= a \div n
<1> DEFINE d == a \div n
<1>1. d \in Int /\ a % n \in 0..(n - 1) /\ a = n * d + (a % n) OBVIOUS
<1> HIDE DEF d
<1>2. n * d = d * n BY <1>1
<1>3. d * n <= a /\ a < d * n + n BY <1>1, <1>2
<1>4. d >= 0
  <2> SUFFICES ASSUME d <= -1 PROVE FALSE BY <1>1
  <2>1. d * n <= (-1) * n BY <1>1
  <2> QED BY <1>1, <1>3, <2>1
<1>5. ASSUME NEW q \in Nat, q * n <= a PROVE q <= d
  <2> SUFFICES ASSUME d + 1 <= q PROVE FALSE BY <1>1
  <2>1. (d + 1) * n <= q * n BY <1>1
  <2>2. (d + 1) * n = d * n + n BY <1>1
  <2>3. q * n \in Int /\ d * n \in Int BY <1>1
  <2> QED BY <1>3, <1>5, <2>1, <2>2, <2>3
<1> QED BY <1>1, <1>3, <1>4, <1>5 DEF d

\* Each address is in a piece, and no piece is empty.
LEMMA Pieces ==
  ASSUME NEW S, NEW a \in Seq(S), NEW size \in Nat \ {0}
  PROVE  LET p == SplitAddresses(a, size)
         IN  /\ p \in Seq(Seq(S))
             /\ \A i \in DOMAIN p : p[i] # <<>> /\ ToSet(p[i]) \subseteq ToSet(a)
             /\ \A x \in ToSet(a) : \E i \in DOMAIN p : x \in ToSet(p[i])
<1> DEFINE L == Len(a)
           n == (L + size - 1) \div size
           lo(i) == (i - 1) * size + 1
           hi(i) == IF i * size <= L THEN i * size ELSE L
           p == SplitAddresses(a, size)
<1>1. p = [i \in 1..n |-> SubSeq(a, lo(i), hi(i))] BY DEF SplitAddresses
<1>2. L \in Nat /\ DOMAIN a = 1..L /\ n \in Nat /\ n * size <= L + size - 1
      /\ \A q \in Nat : q * size <= L + size - 1 => q <= n
  <2> DEFINE b == L + size - 1
  <2>1. L \in Nat /\ DOMAIN a = 1..L /\ b \in Nat OBVIOUS
  <2>2. n = b \div size OBVIOUS
  <2> HIDE DEF b
  <2>3. /\ b \div size \in Nat /\ (b \div size) * size <= b
        /\ \A q \in Nat : q * size <= b => q <= b \div size
    BY <2>1, Quotient
  <2> HIDE DEF n
  <2> QED BY <2>1, <2>2, <2>3 DEF b
<1> HIDE DEF n
<1>3. ASSUME NEW i \in 1..n
      PROVE  lo(i) \in 1..L /\ hi(i) \in 1..L /\ lo(i) <= hi(i)
  <2>1. i * size \in Int /\ (i - 1) * size = i * size - size OBVIOUS
  <2>2. (i - 1) * size >= 0 OBVIOUS
  <2>3. i * size <= n * size BY <1>2
  <2>4. n * size \in Int BY <1>2
  <2> QED BY <1>2, <2>1, <2>2, <2>3, <2>4
<1>4. ASSUME NEW k \in 1..L
      PROVE  \E i \in 1..n : k \in lo(i)..hi(i)
  <2> DEFINE d == (k - 1) \div size
             i == d + 1
  <2>1. d \in Nat /\ d * size <= k - 1 /\ k - 1 < d * size + size
    <3>1. k - 1 \in Nat OBVIOUS
    <3> QED BY <3>1, Quotient
  <2> HIDE DEF d
  <2>2. i \in Nat /\ i * size = d * size + size /\ d * size \in Int BY <2>1
  <2>3. i \in 1..n
    <3>1. i * size <= L + size - 1 BY <1>2, <2>1, <2>2
    <3>2. i \in Nat /\ i >= 1 BY <2>1
    <3> HIDE DEF i
    <3>3. i <= n BY <1>2, <3>1, <3>2
    <3> QED BY <1>2, <3>2, <3>3
  <2>4. (i - 1) * size = d * size BY <2>1
  <2>5. k \in lo(i)..hi(i) BY <1>2, <2>1, <2>2, <2>4
  <2> QED BY <2>3, <2>5
<1> HIDE DEF lo, hi, L
<1>5. ASSUME NEW i \in 1..n
      PROVE  /\ p[i] \in Seq(S) /\ Len(p[i]) = hi(i) - lo(i) + 1 /\ DOMAIN p[i] = 1..Len(p[i])
             /\ \A j \in 1..(hi(i) - lo(i) + 1) : p[i][j] = a[lo(i) + j - 1]
  <2>1. p[i] = SubSeq(a, lo(i), hi(i)) BY <1>1
  <2>2. lo(i) \in Int /\ hi(i) \in Int /\ lo(i) <= hi(i) /\ \A j \in lo(i)..hi(i) : a[j] \in S
    BY <1>2, <1>3 DEF L
  <2> HIDE DEF p
  <2> QED BY <2>1, <2>2, SubSeqProperties
<1> HIDE DEF p
<1>6. p \in Seq(Seq(S)) /\ DOMAIN p = 1..n BY <1>1, <1>2, <1>5
<1>7. ASSUME NEW i \in 1..n PROVE p[i] # <<>> /\ ToSet(p[i]) \subseteq ToSet(a)
  <2>1. Len(p[i]) >= 1 BY <1>2, <1>3, <1>5
  <2>2. ASSUME NEW x \in ToSet(p[i]) PROVE x \in ToSet(a)
    <3>1. PICK j \in 1..(hi(i) - lo(i) + 1) : x = p[i][j] BY <1>5 DEF ToSet
    <3>2. lo(i) + j - 1 \in 1..L BY <1>2, <1>3
    <3> QED BY <1>2, <1>5, <3>1, <3>2 DEF ToSet
  <2> QED BY <2>1, <2>2
<1>8. ASSUME NEW x \in ToSet(a) PROVE \E i \in 1..n : x \in ToSet(p[i])
  <2>1. PICK k \in 1..L : x = a[k] BY <1>2 DEF ToSet
  <2>2. PICK i \in 1..n : k \in lo(i)..hi(i) BY <1>4
  <2>3. k - lo(i) + 1 \in 1..(hi(i) - lo(i) + 1) /\ lo(i) + (k - lo(i) + 1) - 1 = k
    BY <1>2, <1>3, <2>2
  <2>4. p[i][k - lo(i) + 1] = a[k] /\ k - lo(i) + 1 \in DOMAIN p[i] BY <1>5, <2>3
  <2> QED BY <2>1, <2>4 DEF ToSet
<1> QED BY <1>6, <1>7, <1>8 DEF p

LEMMA Concatenated ==
  ASSUME NEW S, NEW s \in Seq(S), NEW t \in Seq(S)
  PROVE  s \o t \in Seq(S) /\ ToSet(s \o t) = ToSet(s) \cup ToSet(t)
<1>1. /\ s \o t \in Seq(S) /\ DOMAIN s = 1..Len(s) /\ DOMAIN t = 1..Len(t)
      /\ Len(s) \in Nat /\ Len(t) \in Nat
      /\ DOMAIN (s \o t) = 1..(Len(s) + Len(t))
      /\ \A i \in 1..Len(s) : (s \o t)[i] = s[i]
      /\ \A i \in 1..Len(t) : (s \o t)[Len(s) + i] = t[i]
  OBVIOUS
<1> DEFINE u == s \o t
<1> HIDE DEF u
<1>2. ASSUME NEW x \in ToSet(u) PROVE x \in ToSet(s) \cup ToSet(t)
  <2>1. PICK i \in 1..(Len(s) + Len(t)) : u[i] = x BY <1>1 DEF ToSet, u
  <2>2. CASE i \in 1..Len(s) BY <1>1, <2>1, <2>2 DEF ToSet, u
  <2>3. CASE i \notin 1..Len(s)
    <3>1. i - Len(s) \in 1..Len(t) /\ Len(s) + (i - Len(s)) = i BY <1>1, <2>3
    <3>2. t[i - Len(s)] = x BY <1>1, <2>1, <3>1 DEF u
    <3> QED BY <1>1, <3>1, <3>2 DEF ToSet
  <2> QED BY <2>2, <2>3
<1>3. ASSUME NEW x \in ToSet(s) PROVE x \in ToSet(u)
  <2>1. PICK i \in 1..Len(s) : s[i] = x BY <1>1 DEF ToSet
  <2>2. i \in DOMAIN u /\ u[i] = x BY <1>1, <2>1 DEF u
  <2> QED BY <2>2 DEF ToSet
<1>4. ASSUME NEW x \in ToSet(t) PROVE x \in ToSet(u)
  <2>1. PICK i \in 1..Len(t) : t[i] = x BY <1>1 DEF ToSet
  <2>2. Len(s) + i \in DOMAIN u /\ u[Len(s) + i] = x BY <1>1, <2>1 DEF u
  <2> QED BY <2>2 DEF ToSet
<1> QED BY <1>1, <1>2, <1>3, <1>4 DEF u

\* FlattenSeq, as it goes through the sequences.
Flat(seqs) == CHOOSE flatten : flatten =
    [i \in 1..Len(seqs) |-> IF i = 1 THEN seqs[i] ELSE flatten[i - 1] \o seqs[i]]

LEMMA Flattened ==
  ASSUME NEW S, NEW seqs \in Seq(Seq(S))
  PROVE  /\ FlattenSeq(seqs) \in Seq(S)
         /\ \A x : x \in ToSet(FlattenSeq(seqs)) <=> \E i \in DOMAIN seqs : x \in ToSet(seqs[i])
<1> DEFINE n == Len(seqs)
<1>1. n \in Nat /\ DOMAIN seqs = 1..n /\ \A i \in 1..n : seqs[i] \in Seq(S)
  OBVIOUS
<1>2. CASE n = 0
  <2>1. FlattenSeq(seqs) = seqs /\ seqs = <<>> BY <1>2 DEF FlattenSeq
  <2> QED BY <1>1, <1>2, <2>1 DEF ToSet
<1>3. CASE n # 0
  <2> DEFINE Is(g) == g = [i \in 1..n |-> IF i = 1 THEN seqs[i] ELSE g[i - 1] \o seqs[i]]
             step == [i \in Nat |-> [s \in Seq(S) |-> IF i + 2 \in 1..n THEN s \o seqs[i + 2] ELSE s]]
  <2>1. PICK f : Steps(f, Seq(S), seqs[1], step, n - 1)
    <3>1. step \in [Nat -> [Seq(S) -> Seq(S)]] BY <1>1
    <3>2. n - 1 \in Nat /\ seqs[1] \in Seq(S) BY <1>1, <1>3
    <3> HIDE DEF step, n
    <3> QED BY <3>1, <3>2, Recursion, Zenon
  <2>2. /\ f \in [0..(n - 1) -> Seq(S)] /\ f[0] = seqs[1]
        /\ \A i \in 0..((n - 1) - 1) : f[i + 1] = step[i][f[i]]
    BY <2>1, Zenon DEF Steps
  <2> DEFINE g == [i \in 1..n |-> f[i - 1]]
  <2>3. ASSUME NEW i \in 1..n
        PROVE  g[i] = IF i = 1 THEN seqs[i] ELSE g[i - 1] \o seqs[i]
    <3>1. CASE i = 1 BY <2>2, <3>1
    <3>2. CASE i # 1
      <4>1. i - 2 \in 0..((n - 1) - 1) /\ (i - 2) + 1 = i - 1 /\ (i - 2) + 2 = i /\ i - 2 \in Nat
        BY <1>1, <3>2
      <4>2. f[i - 1] = step[i - 2][f[i - 2]] BY <2>2, <4>1
      <4>3. f[i - 2] \in Seq(S) /\ g[i - 1] = f[i - 2]
        <5>1. i - 1 \in 1..n /\ i - 2 \in 0..(n - 1) /\ (i - 1) - 1 = i - 2 BY <1>1, <3>2
        <5> HIDE DEF n
        <5> QED BY <2>2, <5>1
      <4>4. step[i - 2][f[i - 2]] = f[i - 2] \o seqs[i] BY <4>1, <4>3
      <4> QED BY <3>2, <4>2, <4>3, <4>4
    <3> QED BY <3>1, <3>2
  <2>4. Is(g) BY <2>3
  <2> DEFINE fl == Flat(seqs)
  <2>5. Is(fl)
    <3>1. \E h : Is(h) BY <2>4
    <3> QED BY <3>1, Zenon DEF Flat
  <2>6. FlattenSeq(seqs) = fl[n] BY <1>3, Zenon DEF FlattenSeq, Flat
  <2> HIDE DEF fl, g, n
  <2>7. \A i \in 1..n : fl[i] = IF i = 1 THEN seqs[i] ELSE fl[i - 1] \o seqs[i] BY <2>5
  <2> DEFINE All(i) == /\ fl[i] \in Seq(S)
                       /\ \A x : x \in ToSet(fl[i]) <=> \E j \in 1..i : x \in ToSet(seqs[j])
             T == {i \in Nat : i + 1 <= n => All(i + 1)}
  <2>8. 0 \in T
    <3>1. fl[1] = seqs[1] /\ seqs[1] \in Seq(S) BY <1>1, <1>3, <2>7
    <3>2. 0 + 1 = 1 /\ 1..1 = {1} OBVIOUS
    <3>3. All(1) BY <3>1, <3>2
    <3> QED BY <3>3, <3>2
  <2>9. ASSUME NEW i \in Nat, i \in T PROVE i + 1 \in T
    <3> SUFFICES ASSUME (i + 1) + 1 <= n PROVE All((i + 1) + 1) OBVIOUS
    <3> DEFINE k == i + 1
    <3>1. k \in 1..n /\ k + 1 \in 1..n /\ k + 1 # 1 /\ (k + 1) - 1 = k BY <1>1
    <3>2. All(k) BY <1>1, <2>9
    <3> HIDE DEF k, T
    <3>3. fl[k + 1] = fl[k] \o seqs[k + 1] BY <2>7, <3>1
    <3>4. seqs[k + 1] \in Seq(S) BY <1>1, <3>1
    <3>5. fl[k] \in Seq(S) BY <3>2
    <3>6. fl[k + 1] \in Seq(S) /\ ToSet(fl[k + 1]) = ToSet(fl[k]) \cup ToSet(seqs[k + 1])
      BY <3>3, <3>4, <3>5, Concatenated
    <3>7. 1..(k + 1) = 1..k \cup {k + 1} BY <3>1
    <3>8. All(k + 1) BY <3>2, <3>6, <3>7
    <3> QED BY <3>8 DEF k
  <2> HIDE DEF T, All
  <2>10. Nat \subseteq T BY <2>8, <2>9, InductionOverNat
  <2>11. All(n)
    <3>1. n - 1 \in Nat /\ (n - 1) + 1 = n /\ n <= n BY <1>1, <1>3
    <3> QED BY <2>10, <3>1 DEF T
  <2> QED BY <1>1, <2>6, <2>11 DEF All
<1> QED BY <1>2, <1>3

\* The queries of a spec ask for what it asks for.
LEMMA SpecAsked ==
  ASSUME NEW c, c.max \in Int, NEW spec \in QuerySpecs
  PROVE  /\ SpecQueries(c, spec) \in Seq(QuerySpecs)
         /\ \A l : Matches(spec, l) <=> \E q \in ToSet(SpecQueries(c, spec)) : Matches(q, l)
<1> DEFINE A == spec.addresses
           size == MaxAddresses(c)
           p == SplitAddresses(A, size)
           qs == SpecQueries(c, spec)
           Query(i) == [addresses |-> p[i], topics |-> spec.topics]
<1>1. A \in Seq(STRING) /\ spec.topics \in Seq(SUBSET STRING) BY DEF QuerySpecs
<1>2. CASE A = <<>>
  <2>1. qs = <<spec>> BY <1>2 DEF SpecQueries
  <2>2. ToSet(qs) = {spec} BY <2>1 DEF ToSet
  <2> QED BY <2>1, <2>2
<1>3. CASE A # <<>>
  <2>1. size \in Nat \ {0} BY MaxAddressesAssumption DEF MaxAddresses
  <2>2. qs = [i \in DOMAIN p |-> Query(i)] BY <1>3 DEF SpecQueries
  <2> HIDE DEF A, size, qs
  <2>3. /\ p \in Seq(Seq(STRING))
        /\ \A i \in DOMAIN p : p[i] # <<>> /\ ToSet(p[i]) \subseteq ToSet(A)
        /\ \A x \in ToSet(A) : \E i \in DOMAIN p : x \in ToSet(p[i])
    BY <1>1, <2>1, Pieces
  <2> HIDE DEF p
  <2>4. qs \in Seq(QuerySpecs) /\ DOMAIN qs = DOMAIN p
    <3>1. \A i \in DOMAIN p : Query(i) \in QuerySpecs BY <1>1, <2>3 DEF QuerySpecs
    <3> QED BY <2>2, <2>3, <3>1
  <2>5. ASSUME NEW l, Matches(spec, l) PROVE \E q \in ToSet(qs) : Matches(q, l)
    <3>1. l.address \in ToSet(A) BY <1>3, <2>5 DEF Matches, A
    <3>2. PICK i \in DOMAIN p : l.address \in ToSet(p[i]) BY <2>3, <3>1
    <3>3. Matches(Query(i), l) BY <2>5, <3>2 DEF Matches
    <3>4. qs[i] = Query(i) /\ qs[i] \in ToSet(qs) BY <2>2, <2>4 DEF ToSet
    <3> HIDE DEF Query
    <3> QED BY <3>3, <3>4
  <2>6. ASSUME NEW l, NEW q \in ToSet(qs), Matches(q, l) PROVE Matches(spec, l)
    <3>1. PICK i \in DOMAIN p : q = Query(i) BY <2>2, <2>4 DEF ToSet
    <3>2. q.addresses = p[i] /\ q.topics = spec.topics BY <3>1
    <3>3. l.address \in ToSet(A) BY <2>3, <2>6, <3>2 DEF Matches
    <3> QED BY <2>6, <3>2, <3>3 DEF Matches, A
  <2> QED BY <2>4, <2>5, <2>6 DEF qs
<1> QED BY <1>2, <1>3

\* The queries of a chunk ask for what the configuration asks for.
LEMMA Asked ==
  ASSUME NEW c, c.max \in Int, c.specs \in Seq(QuerySpecs)
  PROVE  /\ BuildQueries(c) \in Seq(QuerySpecs)
         /\ \A l \in LogTypes :
               (c.specs = <<>> \/ \E spec \in ToSet(c.specs) : Matches(spec, l))
                  <=> \E q \in ToSet(BuildQueries(c)) : Matches(q, l)
<1> DEFINE sp == c.specs
           qs == BuildQueries(c)
<1>1. CASE sp = <<>>
  <2> DEFINE all == [addresses |-> <<>>, topics |-> <<>>]
  <2>1. qs = <<all>> BY <1>1 DEF BuildQueries
  <2>2. ToSet(qs) = {all} BY <2>1 DEF ToSet
  <2>3. all \in QuerySpecs
    <3>1. <<>> \in Seq(STRING) /\ <<>> \in Seq(SUBSET STRING) OBVIOUS
    <3> QED BY <3>1 DEF QuerySpecs
  <2>4. \A l \in LogTypes : Matches(all, l)
    <3> SUFFICES ASSUME NEW l \in LogTypes PROVE Matches(all, l) OBVIOUS
    <3>1. l.topics \in Seq(STRING) BY DEF LogTypes
    <3>2. Len(l.topics) \in Nat BY <3>1
    <3> QED BY <3>2 DEF Matches
  <2> HIDE DEF all
  <2>5. qs \in Seq(QuerySpecs) BY <2>1, <2>3
  <2> QED BY <1>1, <2>2, <2>4, <2>5
<1>2. CASE sp # <<>>
  <2> DEFINE parts == [i \in DOMAIN sp |-> SpecQueries(c, sp[i])]
  <2>1. qs = FlattenSeq(parts) BY <1>2 DEF BuildQueries
  <2>2. DOMAIN sp = 1..Len(sp) /\ Len(sp) \in Nat /\ \A i \in DOMAIN sp : sp[i] \in QuerySpecs
    OBVIOUS
  <2>3. \A i \in DOMAIN sp :
           /\ parts[i] \in Seq(QuerySpecs)
           /\ \A l : Matches(sp[i], l) <=> \E q \in ToSet(parts[i]) : Matches(q, l)
    BY <2>2, SpecAsked
  <2> HIDE DEF sp, qs
  <2>4. parts \in Seq(Seq(QuerySpecs)) /\ DOMAIN parts = DOMAIN sp BY <2>2, <2>3
  <2> HIDE DEF parts
  <2>5. /\ qs \in Seq(QuerySpecs)
        /\ \A x : x \in ToSet(qs) <=> \E i \in DOMAIN parts : x \in ToSet(parts[i])
    BY <2>1, <2>4, Flattened
  <2>6. ASSUME NEW l
        PROVE  (\E spec \in ToSet(sp) : Matches(spec, l)) <=> \E q \in ToSet(qs) : Matches(q, l)
    <3>1. (\E spec \in ToSet(sp) : Matches(spec, l)) <=> \E i \in DOMAIN sp : Matches(sp[i], l)
      BY DEF ToSet
    <3> QED BY <2>3, <2>4, <2>5, <3>1
  <2> QED BY <1>2, <2>5, <2>6 DEF sp, qs
<1> QED BY <1>1, <1>2

-----------------------------------------------------------------------------
\* The logs of a chunk.

LEMMA LogsType ==
  /\ Len(Logs) \in Nat /\ DOMAIN Logs = 1..Len(Logs)
  /\ \A i \in 1..Len(Logs) : Logs[i] \in LogTypes /\ Logs[i] \in ToSet(Logs)
  /\ ToSet(Logs) \subseteq LogTypes
<1>1. Logs \in Seq(LogTypes) BY RoundAssumption
<1>2. Len(Logs) \in Nat /\ DOMAIN Logs = 1..Len(Logs) BY <1>1
<1>3. \A i \in 1..Len(Logs) : Logs[i] \in LogTypes BY <1>1
<1> QED BY <1>2, <1>3 DEF ToSet

\* AddLogs, as it goes through the logs of the chain.
Found(query) == CHOOSE found : found =
    [n \in 0..Len(Logs) |-> IF n = 0 THEN logs ELSE AddLog(found[n - 1], query, Logs[n])]

LEMMA Fetched ==
  ASSUME logs \in Seq(ToSet(Logs)), NEW query
  PROVE  /\ AddLogs(query) \in Seq(ToSet(Logs))
         /\ \A l : l \in ToSet(AddLogs(query)) <=>
               l \in ToSet(logs) \/ (l \in ToSet(Logs) /\ InChunk(l, Chunk) /\ Matches(query, l))
<1> DEFINE S == ToSet(Logs)
           N == Len(Logs)
           New(l) == InChunk(l, Chunk) /\ Matches(query, l)
           Add(s, l) == AddLog(s, query, l)
           Is(g) == g = [n \in 0..N |-> IF n = 0 THEN logs ELSE Add(g[n - 1], Logs[n])]
           step == [i \in Nat |-> [s \in Seq(S) |-> IF i + 1 \in 1..N THEN Add(s, Logs[i + 1]) ELSE s]]
<1>1. N \in Nat /\ \A i \in 1..N : Logs[i] \in S BY LogsType
<1>2. ASSUME NEW s \in Seq(S), NEW l \in S
      PROVE  /\ Add(s, l) \in Seq(S)
             /\ \A x : x \in ToSet(Add(s, l)) <=> x \in ToSet(s) \/ (x = l /\ New(l))
  <2>1. CASE New(l) /\ l \notin ToSet(s)
    <3>1. Add(s, l) = Append(s, l) BY <2>1 DEF AddLog
    <3>2. <<l>> \in Seq(S) /\ Append(s, l) = s \o <<l>> OBVIOUS
    <3>3. ToSet(<<l>>) = {l} BY DEF ToSet
    <3> HIDE DEF Add, S, New
    <3>4. Append(s, l) \in Seq(S) /\ ToSet(Append(s, l)) = ToSet(s) \cup {l}
      <4> DEFINE u == <<l>>
      <4>1. u \in Seq(S) /\ ToSet(u) = {l} /\ Append(s, l) = s \o u BY <3>2, <3>3
      <4> HIDE DEF u
      <4>2. s \o u \in Seq(S) /\ ToSet(s \o u) = ToSet(s) \cup ToSet(u)
        BY <4>1, Concatenated
      <4> QED BY <4>1, <4>2
    <3> QED BY <2>1, <3>1, <3>4
  <2>2. CASE ~(New(l) /\ l \notin ToSet(s))
    <3>1. Add(s, l) = s BY <2>2 DEF AddLog
    <3> QED BY <2>2, <3>1
  <2> QED BY <2>1, <2>2
<1> HIDE DEF S, Add, New
<1>3. PICK f : Steps(f, Seq(S), logs, step, N)
  <2>1. step \in [Nat -> [Seq(S) -> Seq(S)]] BY <1>1, <1>2
  <2>2. logs \in Seq(S) BY DEF S
  <2> HIDE DEF step, N
  <2> QED BY <1>1, <2>1, <2>2, Recursion, Zenon
<1>4. /\ f \in [0..N -> Seq(S)] /\ f[0] = logs
      /\ \A i \in 0..(N - 1) : f[i + 1] = step[i][f[i]]
  BY <1>3, Zenon DEF Steps
<1> DEFINE g == [n \in 0..N |-> f[n]]
<1>5. ASSUME NEW n \in 0..N
      PROVE  g[n] = IF n = 0 THEN logs ELSE Add(g[n - 1], Logs[n])
  <2>1. CASE n = 0 BY <1>4, <2>1
  <2>2. CASE n # 0
    <3>1. n - 1 \in 0..(N - 1) /\ (n - 1) + 1 = n /\ n \in 1..N /\ n - 1 \in 0..N /\ n - 1 \in Nat
      BY <1>1, <2>2
    <3>2. f[n] = step[n - 1][f[n - 1]] BY <1>4, <3>1
    <3>3. f[n - 1] \in Seq(S) /\ g[n - 1] = f[n - 1] /\ g[n] = f[n] BY <1>4, <3>1
    <3>4. step[n - 1][f[n - 1]] = Add(f[n - 1], Logs[n]) BY <3>1, <3>3
    <3> QED BY <2>2, <3>2, <3>3, <3>4
  <2> QED BY <2>1, <2>2
<1>6. Is(g) BY <1>5
<1> DEFINE h == Found(query)
<1>7. Is(h)
  <2>1. \E u : Is(u) BY <1>6
  <2> QED BY <2>1, Zenon DEF Found, Add
<1>8. AddLogs(query) = h[N] BY Zenon DEF AddLogs, Found
<1> HIDE DEF h, g, N, step
<1>9. \A n \in 0..N : h[n] = IF n = 0 THEN logs ELSE Add(h[n - 1], Logs[n]) BY <1>7
<1> DEFINE All(n) ==
             /\ h[n] \in Seq(S)
             /\ \A x : x \in ToSet(h[n]) <=>
                   x \in ToSet(logs) \/ \E i \in 1..n : x = Logs[i] /\ New(x)
           T == {n \in Nat : n <= N => All(n)}
<1>10. 0 \in T
  <2>1. h[0] = logs /\ logs \in Seq(S) BY <1>1, <1>9 DEF S
  <2>2. All(0) BY <2>1
  <2> QED BY <2>2
<1>11. ASSUME NEW n \in Nat, n \in T PROVE n + 1 \in T
  <2> SUFFICES ASSUME n + 1 <= N PROVE All(n + 1) OBVIOUS
  <2>1. n \in 0..N /\ n + 1 \in 1..N /\ n + 1 \in 0..N /\ (n + 1) - 1 = n /\ n + 1 # 0 BY <1>1
  <2>2. All(n) BY <1>1, <1>11
  <2> DEFINE l == Logs[n + 1]
  <2>3. h[n + 1] = Add(h[n], l) BY <1>9, <2>1
  <2>4. l \in S BY <1>1, <2>1
  <2> HIDE DEF l
  <2>5. /\ h[n + 1] \in Seq(S)
        /\ \A x : x \in ToSet(h[n + 1]) <=> x \in ToSet(h[n]) \/ (x = l /\ New(l))
    BY <1>2, <2>2, <2>3, <2>4
  <2>6. 1..(n + 1) = 1..n \cup {n + 1} BY <2>1
  <2>7. \A x : (\E i \in 1..(n + 1) : x = Logs[i] /\ New(x))
                  <=> (\E i \in 1..n : x = Logs[i] /\ New(x)) \/ (x = l /\ New(l))
    BY <2>6 DEF l
  <2> QED BY <2>2, <2>5, <2>7
<1> HIDE DEF T, All
<1>12. Nat \subseteq T BY <1>10, <1>11, InductionOverNat
<1>13. All(N)
  <2>1. N <= N BY <1>1
  <2> QED BY <1>1, <1>12, <2>1 DEF T
<1>14. \A x : (\E i \in 1..N : x = Logs[i] /\ New(x)) <=> x \in S /\ New(x)
  BY LogsType DEF S, N, ToSet
<1>15. /\ h[N] \in Seq(S)
       /\ \A x : x \in ToSet(h[N]) <=> x \in ToSet(logs) \/ (x \in S /\ New(x))
  BY <1>13, <1>14 DEF All
<1> QED BY <1>8, <1>15 DEF S, New

-----------------------------------------------------------------------------
\* What does not change, or only grows.

LEMMA ConfigType ==
  ASSUME TypeOK
  PROVE  /\ cfg.startBlock \in Heights /\ cfg.confirmations \in Heights
         /\ cfg.confirmations # 0 /\ cfg.chunkSize \in 1..(Word - 1)
         /\ cfg.specs \in Seq(QuerySpecs) /\ cfg.max \in Int
         /\ cfg.decoders \in Seq(Decoding) /\ cfg.filters \in Seq(Components)
<1>1. PICK c \in Configs : cfg = WithDefaults(c) BY DEF TypeOK
<1>2. c \in ConfigTypes BY RoundAssumption
<1>3. DefaultConfirmations \in Heights \ {0} /\ DefaultChunkSize \in Heights \ {0}
  BY RoundAssumption
<1> QED BY <1>1, <1>2, <1>3 DEF WithDefaults, ConfigTypes, Heights

LEMMA ConfirmedBlock ==
  ASSUME TypeOK, NEW b, Confirmed(b)
  PROVE  /\ head \in Int /\ cfg.confirmations \in Int
         /\ b <= head - cfg.confirmations /\ head - cfg.confirmations + 1 <= MaxHead
<1>1. head \in 0..MaxHead /\ MaxHead \in Nat BY RoundAssumption DEF TypeOK
<1>2. cfg.confirmations \in Nat \ {0} BY ConfigType DEF Heights
<1>3. b <= head - cfg.confirmations BY DEF Confirmed, SafeBlock
<1> QED BY <1>1, <1>2, <1>3

Grows ==
    /\ cfg' = cfg /\ head <= head'
    /\ events \subseteq events'
    /\ seenFree \subseteq seenFree' /\ seenListed \subseteq seenListed'

LEMMA AllGrow ==
  ASSUME TypeOK, Grows, head' \in Int
  PROVE  /\ \A l : AskedFor(l)' <=> AskedFor(l)
         /\ \A b \in Int : Confirmed(b) => Confirmed(b)'
         /\ \A l : PassedOver(l) => PassedOver(l)'
         /\ \A l \in ToSet(Logs) : Wanted(l) => Wanted(l)'
         /\ \A c : Done(c) => Done(c)'
<1>1. head \in Int /\ cfg.confirmations \in Int /\ cfg' = cfg /\ head <= head'
  BY ConfigType DEF TypeOK, Heights, Grows
<1>2. \A l : AskedFor(l)' <=> AskedFor(l) BY <1>1 DEF AskedFor
<1>3. \A b \in Int : Confirmed(b) => Confirmed(b)'
  BY <1>1 DEF Confirmed, HasSafeBlock, SafeBlock
<1>4. ASSUME NEW l, PassedOver(l) PROVE PassedOver(l)'
  <2>1. CASE Decoders(l) = {} /\ ~cfg.failOnUnmatched
    BY <1>1, <2>1 DEF PassedOver, Decoders
  <2>2. CASE ~WellFormed(l) /\ cfg.ignoreDecodeError
    BY <1>1, <2>2 DEF PassedOver, WellFormed
  <2>3. CASE Screened(l) /\ l \in seenListed
    BY <1>1, <2>3 DEF PassedOver, Screened, Decoders, Grows
  <2> QED BY <1>4, <2>1, <2>2, <2>3 DEF PassedOver
<1>5. \A l \in ToSet(Logs) : l.block \in Int
  BY LogsType, RoundAssumption DEF LogTypes
<1>6. ASSUME NEW l \in ToSet(Logs), Wanted(l) PROVE Wanted(l)'
  <2>1. Confirmed(l.block) BY <1>6 DEF Wanted
  <2>2. Confirmed(l.block)' BY <1>3, <1>5, <2>1
  <2>3. (cfg.startBlock <= l.block \/ MayWrap)' BY <1>1, <1>6 DEF Wanted, MayWrap
  <2>4. AskedFor(l)' BY <1>2, <1>6 DEF Wanted
  <2>5. (Decoders(l) # {})' BY <1>1, <1>6 DEF Wanted, Decoders
  <2>6. WellFormed(l)' BY <1>6 DEF Wanted, WellFormed
  <2>7. (Screened(l) => l \in seenFree)'
    BY <1>1, <1>6 DEF Wanted, Screened, Decoders, Grows
  <2> QED BY <2>2, <2>3, <2>4, <2>5, <2>6, <2>7 DEF Wanted
<1>7. \A c : Done(c) => Done(c)'
  BY <1>2, <1>4 DEF Done, InChunk, Grows
<1> QED BY <1>2, <1>3, <1>4, <1>6, <1>7

-----------------------------------------------------------------------------
\* The chunks of a round.

LEMMA RoundFacts ==
  ASSUME TypeOK, RoundInv, pc \in InRound
  PROVE  /\ FitsWord(next, safe, cfg.chunkSize)
         /\ IsPlan(chunks, next, safe, cfg.chunkSize)
         /\ Len(chunks) \in Nat /\ DOMAIN chunks = 1..Len(chunks)
         /\ safe \in Nat /\ safe + 1 \in Heights
         /\ \A i \in 1..Len(chunks) : chunks[i].from \in 0..safe /\ chunks[i].to \in 0..safe
         /\ \A i, j \in 1..Len(chunks) : chunks[i].from = chunks[j].from => i = j
         /\ \A i \in 1..Len(chunks) : cfg.startBlock <= chunks[i].from \/ MayWrap
<1> DEFINE size == cfg.chunkSize
<1>1. /\ next = frontier /\ next <= safe /\ Confirmed(safe)
      /\ chunks = PlanChunks(next, safe, size, MaxInflightChunks)
      /\ cfg.startBlock <= frontier
  BY DEF RoundInv
<1>2. /\ size \in 1..(Word - 1) /\ next \in Heights /\ safe \in Heights
      /\ cfg.startBlock \in Heights /\ Word \in Nat
  BY <1>1, ConfigType DEF TypeOK
<1>3. /\ head \in Int /\ cfg.confirmations \in Int
      /\ safe <= head - cfg.confirmations /\ head - cfg.confirmations + 1 <= MaxHead
  BY <1>1, ConfirmedBlock
<1>4. MaxHead \in Nat /\ 2 * MaxHead < Word /\ MaxInflightChunks \in Nat \ {0}
  BY RoundAssumption
<1>5. next \in Nat /\ safe \in Nat /\ size \in Nat \ {0} BY <1>2 DEF Heights
<1>6. safe + 1 <= MaxHead BY <1>3, <1>4, <1>5
<1> HIDE DEF size
<1>7. FitsWord(next, safe, size)
  <2>1. 2 * safe < Word /\ safe + 1 < Word BY <1>4, <1>5, <1>6
  <2> QED BY <1>1, <1>2, <1>5, <2>1 DEF FitsWord
<1>8. IsPlan(chunks, next, safe, size) BY <1>1, <1>4, <1>5, PlanIsPlan, Zenon
<1>9. Len(chunks) \in Nat /\ DOMAIN chunks = 1..Len(chunks) BY <1>8, Zenon DEF IsPlan
<1>10. \A i \in 1..Len(chunks) : chunks[i].from \in 0..safe /\ chunks[i].to \in 0..safe
  BY <1>7, <1>8, PlannedChunk
<1>11. /\ \A i, j \in 1..Len(chunks) : chunks[i].from = chunks[j].from => i = j
       /\ next + size <= Word /\ safe + size <= Word =>
               \A i \in 1..Len(chunks) : next <= chunks[i].from
  BY <1>7, <1>8, StartsDiffer
<1>12. ASSUME NEW i \in 1..Len(chunks), ~MayWrap PROVE cfg.startBlock <= chunks[i].from
  <2>1. size + MaxHead <= Word BY <1>2, <1>4, <1>12 DEF MayWrap, size
  <2>2. next + size <= Word /\ safe + size <= Word
    BY <1>1, <1>2, <1>4, <1>5, <1>6, <2>1
  <2>3. next <= chunks[i].from BY <1>11, <2>2
  <2>4. cfg.startBlock \in Nat /\ chunks[i].from \in Nat BY <1>2, <1>10 DEF Heights
  <2> QED BY <1>1, <1>5, <2>3, <2>4
<1>13. safe + 1 \in Heights BY <1>5, <1>7 DEF FitsWord, Heights
<1> QED BY <1>5, <1>7, <1>8, <1>9, <1>10, <1>11, <1>12, <1>13 DEF size

LEMMA ConfirmedBelow ==
  ASSUME TypeOK, NEW a \in Int, NEW b \in Int, a <= b, Confirmed(b)
  PROVE  Confirmed(a)
<1>1. head \in Int /\ cfg.confirmations \in Int BY ConfirmedBlock
<1> QED BY <1>1 DEF Confirmed, SafeBlock

LEMMA ChunkConfirmed ==
  ASSUME TypeOK, RoundInv, pc \in InRound, NEW i \in 1..Len(chunks),
         NEW l \in ToSet(Logs), InChunk(l, chunks[i])
  PROVE  Confirmed(l.block) /\ (cfg.startBlock <= l.block \/ MayWrap)
<1>1. l.block \in Nat BY LogsType, RoundAssumption DEF LogTypes
<1>2. /\ safe \in Nat
      /\ chunks[i].from \in 0..safe /\ chunks[i].to \in 0..safe
      /\ cfg.startBlock <= chunks[i].from \/ MayWrap
  BY RoundFacts
<1>3. chunks[i].from <= l.block /\ l.block <= chunks[i].to BY DEF InChunk
<1>4. l.block <= safe BY <1>1, <1>2, <1>3
<1>5. Confirmed(l.block)
  <2>1. Confirmed(safe) BY DEF RoundInv
  <2> QED BY <1>1, <1>2, <1>4, <2>1, ConfirmedBelow
<1>6. cfg.startBlock \in Nat BY ConfigType DEF Heights
<1> QED BY <1>1, <1>2, <1>3, <1>5, <1>6

\* The results are those of as many chunks.
LEMMA TurnType ==
  ASSUME TypeOK, RoundInv, pc \in InRound
  PROVE  IsFiniteSet(DOMAIN results) /\ Turn \in Nat \ {0}
<1> DEFINE D == DOMAIN results
<1>1. /\ Turn - 1 \in 0..Len(chunks)
      /\ D = {chunks[i].from : i \in 1..(Turn - 1)}
  BY DEF RoundInv
<1>2. /\ safe \in Nat /\ Len(chunks) \in Nat
      /\ \A i \in 1..Len(chunks) : chunks[i].from \in 0..safe
  BY RoundFacts
<1> HIDE DEF Turn, D
<1>3. D \subseteq 0..safe
  <2>1. \A i \in 1..(Turn - 1) : i \in 1..Len(chunks) BY <1>1, <1>2
  <2> QED BY <1>1, <1>2, <2>1
<1>4. IsFiniteSet(0..safe)
  <2>1. 0 \in Int /\ safe \in Int BY <1>2
  <2> QED BY <2>1, FS_Interval, Zenon
<1>5. IsFiniteSet(D) BY <1>3, <1>4, FS_Subset, Zenon
<1>6. Cardinality(D) \in Nat BY <1>5, FS_CardinalityType
<1> QED BY <1>5, <1>6 DEF D, Turn

\* A chunk that finishes has its turn, and the next one is the one after it.
LEMMA FinishFacts ==
  ASSUME TypeOK, RoundInv, pc \in InRound, Turn <= Len(chunks), NEW r, Finish(r)
  PROVE  /\ Turn \in 1..Len(chunks)
         /\ Turn' = Turn + 1
         /\ DOMAIN results' = {chunks[i].from : i \in 1..Turn}
         /\ results'[chunks[Turn].from] = r
         /\ \A i \in 1..(Turn - 1) : results'[chunks[i].from] = results[chunks[i].from]
<1> DEFINE n == Cardinality(DOMAIN results)
           D == DOMAIN results
           x == chunks[Turn].from
<1>1. /\ n \in 0..Len(chunks) /\ Turn = n + 1
      /\ D = {chunks[i].from : i \in 1..n}
  <2>1. Turn = n + 1 BY DEF Turn
  <2>2. Turn - 1 \in 0..Len(chunks) /\ D = {chunks[i].from : i \in 1..(Turn - 1)}
    BY DEF RoundInv
  <2>3. Len(chunks) \in Nat BY RoundFacts
  <2> HIDE DEF n, D
  <2>4. n \in Int
    <3>1. IsFiniteSet(D) BY TurnType DEF D
    <3>2. Cardinality(D) \in Nat BY <3>1, FS_CardinalityType
    <3> QED BY <3>2 DEF n, D
  <2>5. Turn - 1 = n BY <2>1, <2>4
  <2> QED BY <2>1, <2>2, <2>5
<1> HIDE DEF n, D
<1>2. /\ Len(chunks) \in Nat
      /\ \A i \in 1..Len(chunks) : chunks[i].from \in 0..safe
      /\ \A i, j \in 1..Len(chunks) : chunks[i].from = chunks[j].from => i = j
  BY RoundFacts
<1>3. n + 1 \in 1..Len(chunks) BY <1>1, <1>2
<1>4. x \notin D
  <2> SUFFICES ASSUME x \in D PROVE FALSE OBVIOUS
  <2>1. PICK i \in 1..n : x = chunks[i].from BY <1>1
  <2>2. i \in 1..Len(chunks) /\ i # n + 1 BY <1>1, <1>2, <2>1
  <2> QED BY <1>1, <1>2, <1>3, <2>1, <2>2
<1>5. IsFiniteSet(D) /\ Cardinality(D) = n
  <2>1. IsFiniteSet(D) BY TurnType DEF D
  <2> QED BY <2>1 DEF n, D
<1>6. results' = [f \in D \cup {x} |-> IF f = x THEN r ELSE results[f]]
  BY DEF Finish, Chunk, D
<1> HIDE DEF x
<1>7. DOMAIN results' = D \cup {x} BY <1>6
<1>8. Cardinality(D \cup {x}) = n + 1
  <2>1. Cardinality(D \cup {x}) = IF x \in D THEN Cardinality(D) ELSE Cardinality(D) + 1
    BY <1>5, FS_AddElement, Zenon
  <2> QED BY <1>4, <1>5, <2>1
<1>9. Turn' = n + 1 + 1 BY <1>7, <1>8 DEF Turn
<1>10. D \cup {x} = {chunks[i].from : i \in 1..(n + 1)}
  <2>1. 1..(n + 1) = 1..n \cup {n + 1} BY <1>1
  <2> QED BY <1>1, <2>1 DEF x
<1>11. results'[x] = r BY <1>6
<1>12. \A i \in 1..n : results'[chunks[i].from] = results[chunks[i].from]
  BY <1>1, <1>4, <1>6
<1>13. Turn - 1 = n BY <1>1
<1> HIDE DEF Turn
<1> QED BY <1>1, <1>3, <1>7, <1>9, <1>10, <1>11, <1>12, <1>13 DEF x

-----------------------------------------------------------------------------
\* Every step keeps the invariant.

\* All that is recorded and all that a chunk accepted stays wanted.
LEMMA Kept ==
  ASSUME TypeOK, Grows, head' \in Int
  PROVE  /\ NothingSkipped /\ frontier' = frontier => NothingSkipped'
         /\ OnlyWanted /\ HandleInv /\ events' \subseteq events \cup batch
              => OnlyWanted'
<1>1. ASSUME NothingSkipped, frontier' = frontier PROVE NothingSkipped'
  <2> SUFFICES ASSUME NEW l \in ToSet(Logs), cfg.startBlock <= l.block, l.block < frontier,
                      AskedFor(l)'
               PROVE  l \in events' \/ PassedOver(l)'
    BY <1>1 DEF NothingSkipped, Grows
  <2>1. l \in events \/ PassedOver(l) BY <1>1, AllGrow DEF NothingSkipped
  <2> QED BY <2>1, AllGrow DEF Grows
<1>2. ASSUME OnlyWanted, HandleInv, events' \subseteq events \cup batch PROVE OnlyWanted'
  <2>1. \A l \in events \cup batch : Wanted(l) BY <1>2 DEF OnlyWanted, HandleInv
  <2>2. \A l \in events \cup batch : l \in ToSet(Logs)
    BY DEF TypeOK, ToSet
  <2> SUFFICES ASSUME NEW l \in events' PROVE Wanted(l)'
    BY DEF OnlyWanted
  <2> QED BY <1>2, <2>1, <2>2, AllGrow
<1> QED BY <1>1, <1>2

LEMMA Unwatched ==
  ASSUME WatchInv, UNCHANGED chainVars
  PROVE  WatchInv'
BY DEF WatchInv, chainVars, Confirmed, Creator

\* A chunk finishes.
LEMMA FinishInd ==
  ASSUME IndInv, pc \in InRound, Turn <= Len(chunks), NEW r, Finish(r),
         UNCHANGED chainVars, frontier' = frontier, faults' \in 0..MaxFaults,
         events' = events \/ events' = events \cup batch,
         r = "ok" => \A c : c = Chunk => Done(c)'
  PROVE  IndInv'
<1> USE DEF IndInv
<1>1. head \in Int /\ head' = head /\ cfg' = cfg BY DEF TypeOK, chainVars
<1>2. Grows BY <1>1 DEF Grows, chainVars
<1>3. /\ pc' = "chunk" /\ UNCHANGED <<safe, next, chunks>>
      /\ queries' = <<>> /\ logs' = <<>> /\ handled' = 0 /\ batch' = {}
  BY DEF Finish
<1>4. TypeOK'
  <2>1. batch \subseteq ToSet(Logs) BY DEF TypeOK, ToSet
  <2> QED BY <1>3, <2>1 DEF TypeOK, chainVars, InRound
<1>5. RoundInv'
  <2>1. /\ Turn \in 1..Len(chunks)
        /\ Turn' = Turn + 1
        /\ DOMAIN results' = {chunks[i].from : i \in 1..Turn}
        /\ results'[chunks[Turn].from] = r
        /\ \A i \in 1..(Turn - 1) : results'[chunks[i].from] = results[chunks[i].from]
    BY FinishFacts
  <2>2. /\ next = frontier /\ next <= safe /\ Confirmed(safe)
        /\ chunks = PlanChunks(next, safe, cfg.chunkSize, MaxInflightChunks)
        /\ cfg.startBlock <= frontier /\ Accepted(cfg)
        /\ \A i \in 1..(Turn - 1) : results[chunks[i].from] = "ok" => Done(chunks[i])
    BY DEF RoundInv, InRound
  <2>3. Len(chunks) \in Nat BY RoundFacts
  <2> DEFINE n == Turn
  <2> HIDE DEF n
  <2>4. ASSUME NEW c, NEW i \in 1..n, c = chunks[i], results'[c.from] = "ok" PROVE Done(c)'
    <3>1. CASE i = n BY <2>1, <2>4, <3>1 DEF n, Chunk
    <3>2. CASE i # n
      <4>1. i \in 1..(Turn - 1) BY <2>1, <3>2 DEF n
      <4>2. Done(c) BY <2>1, <2>2, <2>4, <4>1
      <4> QED BY <1>1, <1>2, <4>2, AllGrow
    <3> QED BY <3>1, <3>2
  <2>5. Confirmed(safe)' BY <1>1, <1>3, <2>2 DEF Confirmed
  <2>6. Turn' - 1 = n /\ n \in 0..Len(chunks) BY <2>1 DEF n
  <2>7. \A i \in 1..n : results'[chunks[i].from] = "ok" => Done(chunks[i])'
    <3> SUFFICES ASSUME NEW i \in 1..n, results'[chunks[i].from] = "ok"
                 PROVE  Done(chunks[i])'
      OBVIOUS
    <3> DEFINE c == chunks[i]
    <3> HIDE DEF c
    <3>1. Done(c)' BY <1>3, <2>4 DEF c
    <3> QED BY <1>3, <3>1 DEF c
  <2> QED BY <1>1, <1>3, <2>1, <2>2, <2>5, <2>6, <2>7 DEF RoundInv, InRound, n
<1>6. ChunkInv' BY <1>3 DEF ChunkInv
<1>7. HandleInv' BY <1>3 DEF HandleInv
<1>8. NothingSkipped' /\ OnlyWanted' BY <1>1, <1>2, Kept
<1>9. WatchInv' BY Unwatched
<1> QED BY <1>4, <1>5, <1>6, <1>7, <1>8, <1>9

\* A round ends, with the cursor where it was or further on.
LEMMA EndRoundInd ==
  ASSUME IndInv, pc # "refused", EndRound,
         UNCHANGED <<chainVars, events>>, faults' \in 0..MaxFaults,
         frontier' \in Heights, frontier <= frontier', NothingSkipped'
  PROVE  IndInv'
<1> USE DEF IndInv
<1>1. head \in Int /\ head' = head /\ cfg' = cfg /\ events' = events BY DEF TypeOK, chainVars
<1>2. Grows BY <1>1 DEF Grows, chainVars
<1>3. /\ pc' = "poll" /\ safe' = 0 /\ next' = 0 /\ chunks' = <<>> /\ results' = <<>>
      /\ queries' = <<>> /\ logs' = <<>> /\ handled' = 0 /\ batch' = {}
  BY DEF EndRound
<1>4. TypeOK'
  <2>1. 0 \in Heights BY DEF Heights
  <2> QED BY <1>3, <2>1 DEF TypeOK, chainVars
<1>5. RoundInv'
  <2>1. cfg.startBlock \in Int /\ frontier \in Int /\ frontier' \in Int
    BY ConfigType DEF TypeOK, Heights
  <2>2. cfg.startBlock <= frontier' BY <2>1 DEF RoundInv
  <2> QED BY <1>1, <1>3, <2>2 DEF RoundInv, InRound
<1>6. ChunkInv' BY <1>3 DEF ChunkInv
<1>7. HandleInv' BY <1>3 DEF HandleInv
<1>8. OnlyWanted' BY <1>1, <1>2, Kept
<1>9. WatchInv' BY Unwatched
<1> QED BY <1>4, <1>5, <1>6, <1>7, <1>8, <1>9

\* Commit: the blocks the cursor passes are those of chunks that are done.
LEMMA CommitInd ==
  ASSUME IndInv, Commit
  PROVE  IndInv'
<1> USE DEF IndInv
<1> DEFINE adv == CommitPoint(next, chunks, results)
<1>1. /\ pc = "chunk" /\ pc \in InRound /\ pc # "refused"
      /\ frontier' = IF adv > next THEN adv ELSE frontier
      /\ EndRound /\ UNCHANGED <<chainVars, events>> /\ faults' = faults
  BY DEF Commit, InRound
<1>2. /\ next = frontier /\ Turn - 1 \in 0..Len(chunks)
      /\ DOMAIN results = {chunks[i].from : i \in 1..(Turn - 1)}
      /\ \A i \in 1..(Turn - 1) : results[chunks[i].from] = "ok" => Done(chunks[i])
  BY <1>1 DEF RoundInv
<1>3. /\ FitsWord(next, safe, cfg.chunkSize)
      /\ IsPlan(chunks, next, safe, cfg.chunkSize)
      /\ Len(chunks) \in Nat /\ safe \in Nat /\ safe + 1 \in Heights
      /\ \A i \in 1..Len(chunks) : chunks[i].from \in 0..safe /\ chunks[i].to \in 0..safe
      /\ \A i, j \in 1..Len(chunks) : chunks[i].from = chunks[j].from => i = j
  BY <1>1, RoundFacts
<1>4. \/ adv = next
      \/ \E k \in 1..Len(chunks) :
            /\ adv = chunks[k].to + 1
            /\ \A i \in 1..k : chunks[i].from \in DOMAIN results /\ results[chunks[i].from] = "ok"
  <2>1. GetsTo(adv, next, chunks, results) BY <1>3, CommitsDone, Zenon
  <2> HIDE DEF adv
  <2> QED BY <2>1, Zenon DEF GetsTo
<1> HIDE DEF adv
<1>5. frontier \in Nat /\ frontier \in Heights BY DEF TypeOK, Heights
<1>6. head \in Int /\ head' \in Int /\ cfg' = cfg BY <1>1 DEF TypeOK, chainVars
<1>7. Grows BY <1>1, <1>6 DEF Grows, chainVars
<1>8. faults' \in 0..MaxFaults BY <1>1 DEF TypeOK
<1>9. CASE adv > next
  <2>1. PICK k \in 1..Len(chunks) :
            /\ adv = chunks[k].to + 1
            /\ \A i \in 1..k : chunks[i].from \in DOMAIN results /\ results[chunks[i].from] = "ok"
    BY <1>2, <1>4, <1>5, <1>9
  <2>2. ASSUME NEW i \in 1..k PROVE Done(chunks[i])
    <3>1. PICK j \in 1..(Turn - 1) : chunks[j].from = chunks[i].from BY <1>2, <2>1
    <3>2. i \in 1..Len(chunks) /\ j \in 1..Len(chunks) BY <1>2, <1>3
    <3>3. i = j BY <1>3, <3>1, <3>2
    <3> QED BY <1>2, <2>1, <3>3
  <2>3. frontier' \in Heights /\ frontier <= frontier'
    <3>1. chunks[k].to \in 0..safe BY <1>3
    <3>2. frontier' = chunks[k].to + 1 BY <1>1, <1>9, <2>1
    <3>3. frontier' \in Nat /\ frontier' <= safe + 1 BY <1>3, <3>1, <3>2
    <3> QED BY <1>1, <1>2, <1>3, <1>5, <1>9, <3>3 DEF Heights
  <2>4. NothingSkipped'
    <3> SUFFICES ASSUME NEW l \in ToSet(Logs), cfg.startBlock <= l.block,
                        l.block < frontier', AskedFor(l)'
                 PROVE  l \in events' \/ PassedOver(l)'
      BY <1>6 DEF NothingSkipped
    <3>1. AskedFor(l) /\ (PassedOver(l) => PassedOver(l)') BY <1>6, <1>7, AllGrow
    <3>2. l.block \in Nat BY LogsType, RoundAssumption DEF LogTypes
    <3>3. l \in events \/ PassedOver(l)
      <4>1. CASE l.block < frontier BY <3>1, <4>1 DEF NothingSkipped
      <4>2. CASE ~(l.block < frontier)
        <5>1. next <= l.block BY <1>2, <1>5, <3>2, <4>2
        <5>2. l.block <= chunks[k].to
          <6>1. chunks[k].to \in 0..safe /\ frontier' = chunks[k].to + 1
            BY <1>1, <1>3, <1>9, <2>1
          <6> QED BY <1>3, <3>2, <6>1
        <5>3. PICK i \in 1..k : l.block \in chunks[i].from..chunks[i].to
          BY <1>3, <3>2, <5>1, <5>2, ChunksCover
        <5>4. Done(chunks[i]) BY <2>2
        <5> QED BY <3>1, <5>3, <5>4 DEF Done, InChunk
      <4> QED BY <4>1, <4>2
    <3> QED BY <1>1, <3>1, <3>3
  <2> QED BY <1>1, <1>8, <2>3, <2>4, EndRoundInd
<1>10. CASE ~(adv > next)
  <2>1. frontier' = frontier BY <1>1, <1>10
  <2>2. frontier <= frontier' BY <1>5, <2>1
  <2>3. NothingSkipped' BY <1>6, <1>7, <2>1, Kept
  <2> QED BY <1>1, <1>5, <1>8, <2>1, <2>2, <2>3, EndRoundInd
<1> QED BY <1>9, <1>10

LEMMA FaultLeft ==
  ASSUME TypeOK, Fault
  PROVE  faults' \in 0..MaxFaults
BY RoundAssumption DEF TypeOK, Fault

\* SaveCursorErr and Restart: the round ends and the cursor stays.
LEMMA GivenUpInd ==
  ASSUME IndInv, SaveCursorErr \/ Restart
  PROVE  IndInv'
<1> USE DEF IndInv
<1>1. /\ pc # "refused" /\ Fault /\ EndRound
      /\ UNCHANGED <<chainVars, events>> /\ frontier' = frontier
  BY DEF SaveCursorErr, Restart, dbVars
<1>2. faults' \in 0..MaxFaults BY <1>1, FaultLeft
<1>3. frontier' \in Heights /\ frontier <= frontier' BY <1>1 DEF TypeOK, Heights
<1>4. NothingSkipped'
  <2>1. head' \in Int /\ Grows BY <1>1 DEF TypeOK, chainVars, Grows
  <2> QED BY <1>1, <2>1, Kept
<1> QED BY <1>1, <1>2, <1>3, <1>4, EndRoundInd

\* RangeRefused and ChunkErr: the chunk is not done.
LEMMA ChunkFailedInd ==
  ASSUME IndInv, RangeRefused \/ ChunkErr
  PROVE  IndInv'
<1> USE DEF IndInv
<1>1. /\ pc \in InRound /\ Turn <= Len(chunks) /\ Finish("err")
      /\ UNCHANGED chainVars /\ frontier' = frontier /\ events' = events
  BY DEF RangeRefused, ChunkErr, dbVars, InRound, ChunkInv
<1>2. faults' \in 0..MaxFaults
  <2>1. CASE RangeRefused BY <2>1 DEF RangeRefused, TypeOK
  <2>2. CASE ChunkErr BY <2>2, FaultLeft DEF ChunkErr
  <2> QED BY <2>1, <2>2
<1> QED BY <1>1, <1>2, FinishInd

\* SaveEvents and SaveEventsLost: all of the logs of the chunk are handled.
LEMMA SavedInd ==
  ASSUME IndInv, SaveEvents \/ SaveEventsLost
  PROVE  IndInv'
<1> USE DEF IndInv
<1>1. /\ pc = "handle" /\ pc \in InRound /\ handled = Len(logs)
      /\ events' = events \cup batch
      /\ UNCHANGED chainVars /\ frontier' = frontier
  BY DEF SaveEvents, SaveEventsLost, InRound
<1>2. head' \in Int /\ Grows BY <1>1 DEF TypeOK, chainVars, Grows
<1>3. /\ Turn <= Len(chunks) /\ Chunk.from <= Chunk.to /\ queries = <<>>
      /\ \A l \in ToSet(Logs) : InChunk(l, Chunk) /\ AskedFor(l) =>
            l \in ToSet(logs) \/ \E q \in ToSet(queries) : Matches(q, l)
  BY <1>1 DEF ChunkInv
<1>4. ASSUME NEW c, c = Chunk PROVE Done(c)'
  <2> SUFFICES ASSUME NEW l \in ToSet(Logs), InChunk(l, c), AskedFor(l)'
               PROVE  l \in events' \/ PassedOver(l)'
    BY <1>3, <1>4 DEF Done, InChunk
  <2>1. AskedFor(l) /\ (PassedOver(l) => PassedOver(l)') BY <1>2, AllGrow
  <2>2. l \in ToSet(logs) BY <1>3, <1>4, <2>1 DEF ToSet
  <2>3. PICK i \in 1..handled : l = logs[i]
    <3>1. DOMAIN logs = 1..Len(logs) BY DEF TypeOK
    <3> QED BY <1>1, <2>2, <3>1 DEF ToSet
  <2>4. l \in batch \/ PassedOver(l) BY <2>3 DEF HandleInv
  <2> QED BY <1>1, <2>1, <2>4
<1>5. CASE SaveEvents
  <2>1. Finish("ok") /\ faults' \in 0..MaxFaults BY <1>5 DEF SaveEvents, TypeOK
  <2> QED BY <1>1, <1>3, <1>4, <2>1, FinishInd
<1>6. CASE SaveEventsLost
  <2>1. Finish("err") /\ faults' \in 0..MaxFaults BY <1>6, FaultLeft DEF SaveEventsLost
  <2> QED BY <1>1, <1>3, <2>1, FinishInd
<1> QED BY <1>5, <1>6

\* A step within a round.
LEMMA RoundKept ==
  ASSUME IndInv, pc \in InRound, pc' \in InRound,
         UNCHANGED <<chainVars, dbVars, roundVars>>
  PROVE  /\ head' \in Int /\ Grows
         /\ WatchInv' /\ RoundInv' /\ NothingSkipped' /\ OnlyWanted'
<1> USE DEF IndInv
<1>1. /\ head \in Int /\ head' = head /\ cfg' = cfg
      /\ frontier' = frontier /\ events' = events
  BY DEF TypeOK, chainVars, dbVars
<1>2. /\ safe' = safe /\ next' = next /\ chunks' = chunks /\ results' = results
  BY DEF roundVars
<1>3. Grows BY <1>1 DEF Grows, chainVars
<1>4. RoundInv'
  <2>1. /\ next = frontier /\ next <= safe /\ Confirmed(safe)
        /\ chunks = PlanChunks(next, safe, cfg.chunkSize, MaxInflightChunks)
        /\ cfg.startBlock <= frontier /\ Accepted(cfg)
        /\ Turn - 1 \in 0..Len(chunks)
        /\ DOMAIN results = {chunks[i].from : i \in 1..(Turn - 1)}
        /\ \A i \in 1..(Turn - 1) : results[chunks[i].from] = "ok" => Done(chunks[i])
    BY DEF RoundInv, InRound
  <2>2. Turn' = Turn /\ Confirmed(safe)' BY <1>1, <1>2, <2>1 DEF Turn, Confirmed
  <2>3. \A i \in 1..(Turn - 1) : results[chunks[i].from] = "ok" => Done(chunks[i])'
    <3> SUFFICES ASSUME NEW i \in 1..(Turn - 1), results[chunks[i].from] = "ok"
                 PROVE  Done(chunks[i])'
      OBVIOUS
    <3> DEFINE c == chunks[i]
    <3>1. Done(c) BY <2>1
    <3> HIDE DEF c
    <3>2. \A x : x = c => Done(x)' BY <1>1, <1>3, <3>1, AllGrow
    <3>3. c' = c BY <1>2 DEF c
    <3>4. Done(c)' BY <3>2, <3>3
    <3> QED BY <3>4 DEF c
  <2> HIDE DEF Turn
  <2> QED BY <1>1, <1>2, <2>1, <2>2, <2>3 DEF RoundInv, InRound
<1>5. NothingSkipped' /\ OnlyWanted' BY <1>1, <1>3, Kept
<1>6. WatchInv' BY Unwatched
<1> QED BY <1>1, <1>3, <1>4, <1>5, <1>6

\* Plan.
LEMMA PlanInd ==
  ASSUME IndInv, Plan
  PROVE  IndInv'
<1> USE DEF IndInv
<1>1. /\ pc = "poll" /\ pc' = "chunk" /\ Confirmed(frontier)
      /\ safe' = SafeBlock(head, cfg.confirmations) /\ next' = frontier
      /\ chunks' = PlanChunks(next', safe', cfg.chunkSize, MaxInflightChunks)
      /\ UNCHANGED <<chainVars, dbVars, results, chunkVars, faults>>
  BY DEF Plan
<1>2. /\ head \in Int /\ head' = head /\ cfg' = cfg
      /\ frontier' = frontier /\ events' = events
  BY <1>1 DEF TypeOK, chainVars, dbVars
<1>3. Grows BY <1>1, <1>2 DEF Grows, chainVars
<1>4. results = <<>> /\ logs = <<>> /\ handled = 0
  BY <1>1 DEF RoundInv, ChunkInv, InRound
<1>5. /\ head \in Int /\ cfg.confirmations \in Int
      /\ frontier <= safe' /\ safe' + 1 <= MaxHead
  <2>1. /\ cfg.confirmations \in Int /\ frontier <= head - cfg.confirmations
        /\ head - cfg.confirmations + 1 <= MaxHead
    BY <1>1, ConfirmedBlock
  <2> QED BY <1>1, <1>2, <2>1 DEF SafeBlock
<1>6. frontier \in Nat /\ frontier \in Heights BY DEF TypeOK, Heights
<1>7. safe' \in Nat /\ safe' \in Heights
  <2>1. safe' \in Int BY <1>1, <1>5 DEF SafeBlock
  <2>2. MaxHead \in Nat /\ MaxHead < Word BY RoundAssumption
  <2> DEFINE s == safe'
  <2>3. s \in Int /\ frontier <= s /\ s + 1 <= MaxHead BY <1>5, <2>1
  <2> HIDE DEF s
  <2>4. s \in Nat /\ s \in Heights BY <1>6, <2>2, <2>3 DEF Heights
  <2> QED BY <2>4 DEF s
<1>8. TypeOK'
  BY <1>1, <1>2, <1>6, <1>7 DEF TypeOK, chainVars, chunkVars, InRound
<1>9. RoundInv'
  <2>1. Confirmed(safe)'
    BY <1>1, <1>2, <1>5 DEF Confirmed, HasSafeBlock, SafeBlock
  <2>2. Len(chunks') \in Nat
    <3>1. cfg.chunkSize \in Nat \ {0} /\ MaxInflightChunks \in Nat \ {0}
      BY ConfigType, RoundAssumption
    <3>2. IsPlan(chunks', next', safe', cfg.chunkSize)
      BY <1>1, <1>6, <1>7, <3>1, PlanIsPlan, Zenon
    <3> QED BY <3>2, Zenon DEF IsPlan
  <2>3. Turn' = 1 /\ DOMAIN results' = {}
    <3>1. results' = <<>> BY <1>1, <1>4
    <3>2. DOMAIN results' = {} BY <3>1
    <3> QED BY <3>2, FS_EmptySet DEF Turn
  <2>4. Accepted(cfg) /\ cfg.startBlock <= frontier BY <1>1 DEF RoundInv
  <2>5. next' = frontier' /\ next' <= safe' BY <1>1, <1>2, <1>5
  <2>6. (Turn - 1)' = 0 /\ 1..((Turn - 1)') = {} BY <2>3
  <2> HIDE DEF Turn
  <2> QED BY <1>1, <1>2, <2>1, <2>2, <2>3, <2>4, <2>5, <2>6 DEF RoundInv, InRound
<1>10. ChunkInv' /\ HandleInv'
  <2>1. logs' = <<>> /\ handled' = 0 /\ batch' = {} BY <1>1, <1>4 DEF TypeOK, chunkVars, ToSet
  <2> QED BY <1>1, <2>1 DEF ChunkInv, HandleInv
<1>11. NothingSkipped' /\ OnlyWanted' BY <1>2, <1>3, Kept
<1>12. WatchInv' BY <1>1, Unwatched
<1> QED BY <1>8, <1>9, <1>10, <1>11, <1>12

\* StartChunk: the queries ask for what the configuration asks for.
LEMMA StartChunkInd ==
  ASSUME IndInv, StartChunk
  PROVE  IndInv'
<1> USE DEF IndInv
<1>1. /\ pc = "chunk" /\ pc' = "fetch" /\ pc \in InRound /\ pc' \in InRound
      /\ Turn <= Len(chunks) /\ Chunk.from <= Chunk.to
      /\ queries' = BuildQueries(cfg)
      /\ UNCHANGED <<chainVars, dbVars, roundVars>>
      /\ logs' = logs /\ handled' = handled /\ batch' = batch /\ faults' = faults
  BY DEF StartChunk, InRound
<1>2. /\ head' \in Int /\ Grows
      /\ WatchInv' /\ RoundInv' /\ NothingSkipped' /\ OnlyWanted'
  BY <1>1, RoundKept
<1>3. logs = <<>> /\ handled = 0 BY <1>1 DEF ChunkInv
<1>4. cfg' = cfg BY <1>1 DEF chainVars
<1>5. /\ queries' \in Seq(QuerySpecs)
      /\ \A l \in ToSet(Logs) : AskedFor(l) <=> \E q \in ToSet(queries') : Matches(q, l)
  <2>1. cfg.max \in Int /\ cfg.specs \in Seq(QuerySpecs) BY ConfigType
  <2>2. /\ BuildQueries(cfg) \in Seq(QuerySpecs)
        /\ \A l \in LogTypes :
               (cfg.specs = <<>> \/ \E spec \in ToSet(cfg.specs) : Matches(spec, l))
                  <=> \E q \in ToSet(BuildQueries(cfg)) : Matches(q, l)
    BY <2>1, Asked
  <2> QED BY <1>1, <2>2, LogsType DEF AskedFor
<1>6. TypeOK'
  BY <1>1, <1>5 DEF TypeOK, chainVars, dbVars, roundVars
<1>7. ChunkInv'
  <2>1. /\ Turn' = Turn /\ Chunk' = Chunk /\ chunks' = chunks
    BY <1>1 DEF Turn, Chunk, roundVars
  <2>2. ASSUME NEW l \in ToSet(Logs)
        PROVE  AskedFor(l)' <=> \E q \in ToSet(queries') : Matches(q, l)
    BY <1>2, <1>5, AllGrow
  <2>3. ToSet(logs') = {} BY <1>1, <1>3 DEF ToSet
  <2> QED BY <1>1, <1>3, <2>1, <2>2, <2>3 DEF ChunkInv
<1>8. HandleInv'
  <2>1. batch' = {} /\ handled' = 0 BY <1>1, <1>3 DEF TypeOK, ToSet
  <2> QED BY <2>1 DEF HandleInv
<1> QED BY <1>2, <1>6, <1>7, <1>8

\* FilterLogs: what the next query returns is there after it.
LEMMA FilterLogsInd ==
  ASSUME IndInv, FilterLogs
  PROVE  IndInv'
<1> USE DEF IndInv
<1>1. /\ pc = "fetch" /\ pc' = "fetch" /\ pc \in InRound /\ pc' \in InRound
      /\ queries # <<>>
      /\ logs' = AddLogs(Head(queries)) /\ queries' = Tail(queries)
      /\ UNCHANGED <<chainVars, dbVars, roundVars>>
      /\ handled' = handled /\ batch' = batch /\ faults' = faults
  BY DEF FilterLogs, InRound
<1>2. /\ head' \in Int /\ Grows
      /\ WatchInv' /\ RoundInv' /\ NothingSkipped' /\ OnlyWanted'
  BY <1>1, RoundKept
<1>3. handled = 0 /\ cfg' = cfg BY <1>1 DEF ChunkInv, chainVars
<1> DEFINE q1 == Head(queries)
<1>4. /\ logs' \in Seq(ToSet(Logs))
      /\ \A l : l \in ToSet(logs') <=>
            l \in ToSet(logs) \/ (l \in ToSet(Logs) /\ InChunk(l, Chunk) /\ Matches(q1, l))
  BY <1>1, Fetched DEF TypeOK
<1>5. /\ queries \in Seq(QuerySpecs) /\ queries' \in Seq(QuerySpecs)
      /\ ToSet(queries) = {q1} \cup ToSet(queries')
  <2>1. queries \in Seq(QuerySpecs) /\ queries' \in Seq(QuerySpecs) BY <1>1 DEF TypeOK
  <2>2. /\ Len(queries) \in Nat \ {0} /\ DOMAIN queries = 1..Len(queries)
        /\ queries' = Tail(queries) /\ Len(queries') = Len(queries) - 1
        /\ DOMAIN queries' = 1..(Len(queries) - 1)
        /\ \A i \in 1..(Len(queries) - 1) : queries'[i] = queries[i + 1]
        /\ q1 = queries[1]
    BY <1>1, <2>1
  <2> DEFINE n == Len(queries)
             Q == queries'
  <2> HIDE DEF n, Q, q1
  <2>3. ASSUME NEW q \in ToSet(queries) PROVE q = q1 \/ q \in ToSet(Q)
    <3>1. PICK i \in 1..n : q = queries[i] BY <2>2 DEF ToSet, n
    <3>2. CASE i = 1 BY <2>2, <3>1, <3>2
    <3>3. CASE i # 1
      <4>1. i - 1 \in 1..(n - 1) /\ (i - 1) + 1 = i BY <2>2, <3>3 DEF n
      <4>2. Q[i - 1] = q /\ i - 1 \in DOMAIN Q BY <2>2, <3>1, <4>1 DEF n, Q
      <4> QED BY <4>2 DEF ToSet
    <3> QED BY <3>2, <3>3
  <2>4. ASSUME NEW q \in ToSet(Q) PROVE q \in ToSet(queries)
    <3>1. PICK i \in 1..(n - 1) : q = Q[i] BY <2>2 DEF ToSet, n, Q
    <3>2. i + 1 \in 1..n /\ q = queries[i + 1] BY <2>2, <3>1 DEF n, Q
    <3> QED BY <2>2, <3>2 DEF ToSet, n
  <2>5. q1 \in ToSet(queries)
    <3>1. 1 \in DOMAIN queries BY <2>2
    <3> QED BY <2>2, <3>1 DEF ToSet
  <2>6. ToSet(queries) = {q1} \cup ToSet(Q) BY <2>3, <2>4, <2>5
  <2> QED BY <2>1, <2>6 DEF Q
<1> HIDE DEF q1
<1>6. /\ batch' = batch /\ handled' = 0
      /\ batch' \subseteq ToSet(logs') /\ batch \subseteq ToSet(Logs)
  <2>1. batch \subseteq ToSet(logs) /\ logs \in Seq(ToSet(Logs)) BY DEF TypeOK
  <2>2. ToSet(logs) \subseteq ToSet(Logs) BY <2>1 DEF ToSet
  <2> QED BY <1>1, <1>3, <1>4, <2>1, <2>2
<1>7. TypeOK'
  BY <1>1, <1>3, <1>4, <1>5, <1>6 DEF TypeOK, chainVars, dbVars, roundVars
<1>8. ChunkInv'
  <2>1. /\ Turn' = Turn /\ Chunk' = Chunk /\ chunks' = chunks
    BY <1>1 DEF Turn, Chunk, roundVars
  <2>2. /\ Turn <= Len(chunks) /\ Chunk.from <= Chunk.to
        /\ \A q \in ToSet(queries), l \in ToSet(Logs) : Matches(q, l) => AskedFor(l)
        /\ \A l \in ToSet(logs) : InChunk(l, Chunk) /\ AskedFor(l)
        /\ \A l \in ToSet(Logs) : InChunk(l, Chunk) /\ AskedFor(l) =>
                l \in ToSet(logs) \/ \E q \in ToSet(queries) : Matches(q, l)
    BY <1>1 DEF ChunkInv
  <2>3. \A l : AskedFor(l)' <=> AskedFor(l) BY <1>2, AllGrow
  <2>4. \A l \in ToSet(logs') : InChunk(l, Chunk) /\ AskedFor(l)
    BY <1>4, <1>5, <2>2
  <2>5. \A l \in ToSet(Logs) : InChunk(l, Chunk) /\ AskedFor(l) =>
            l \in ToSet(logs') \/ \E q \in ToSet(queries') : Matches(q, l)
    BY <1>4, <1>5, <2>2
  <2>6. \A q \in ToSet(queries'), l \in ToSet(Logs) : Matches(q, l) => AskedFor(l)
    BY <1>5, <2>2
  <2> QED BY <1>1, <1>6, <2>1, <2>2, <2>3, <2>4, <2>5, <2>6 DEF ChunkInv, InChunk
<1>9. HandleInv'
  <2>1. \A l \in batch : Wanted(l) BY DEF HandleInv
  <2>2. \A l \in batch : Wanted(l)' BY <1>2, <1>6, <2>1, AllGrow
  <2> QED BY <1>6, <2>2 DEF HandleInv
<1> QED BY <1>2, <1>7, <1>8, <1>9

\* The chunk keeps its queries and its logs.
LEMMA SameLogs ==
  ASSUME IndInv, pc \in {"fetch", "handle"}, pc' = "handle", queries = <<>>,
         UNCHANGED <<chainVars, roundVars, queries, logs>>, Grows, head' \in Int
  PROVE  ChunkInv'
<1> USE DEF IndInv
<1>1. /\ Turn' = Turn /\ Chunk' = Chunk /\ chunks' = chunks /\ cfg' = cfg
  BY DEF Turn, Chunk, roundVars, chainVars
<1>2. \A l : AskedFor(l)' <=> AskedFor(l) BY AllGrow
<1> QED BY <1>1, <1>2 DEF ChunkInv, InChunk

\* LoadTxSenders.
LEMMA LoadTxSendersInd ==
  ASSUME IndInv, LoadTxSenders
  PROVE  IndInv'
<1> USE DEF IndInv
<1>1. /\ pc = "fetch" /\ pc' = "handle" /\ pc \in InRound /\ pc' \in InRound
      /\ queries = <<>>
      /\ UNCHANGED <<chainVars, dbVars, roundVars>>
      /\ queries' = queries /\ logs' = logs /\ handled' = handled /\ batch' = batch
      /\ faults' = faults
  BY DEF LoadTxSenders, InRound, chunkVars
<1>2. /\ head' \in Int /\ Grows
      /\ WatchInv' /\ RoundInv' /\ NothingSkipped' /\ OnlyWanted'
  BY <1>1, RoundKept
<1>3. TypeOK' BY <1>1 DEF TypeOK, chainVars, dbVars, roundVars
<1>4. handled = 0 BY <1>1 DEF ChunkInv
<1>5. ChunkInv'
  <2>1. UNCHANGED <<chainVars, roundVars, queries, logs>> BY <1>1
  <2> QED BY <1>1, <1>2, <2>1, SameLogs
<1>6. HandleInv'
  <2>1. \A l \in batch : Wanted(l) /\ l \in ToSet(Logs) BY DEF HandleInv, TypeOK, ToSet
  <2>2. \A l \in batch : Wanted(l)' BY <1>2, <2>1, AllGrow
  <2> QED BY <1>1, <1>4, <2>2 DEF HandleInv
<1> QED BY <1>2, <1>3, <1>5, <1>6

\* The decoders the index finds for a log are those that are configured for it,
\* and there is one at most.
LEMMA OneDecoder ==
  ASSUME TypeOK, RoundInv, pc # "refused", NEW l
  PROVE  /\ FindDecoder(cfg, l) = Decoders(l)
         /\ \A d, e \in Decoders(l) : d = e
<1> DEFINE ds == cfg.decoders
<1>1. ds \in Seq(Decoding) BY ConfigType
<1>2. DOMAIN ds = 1..Len(ds) /\ \A i \in DOMAIN ds : ds[i] \in Decoding BY <1>1
<1>3. \A i, j \in Enabled(ds) : DecoderKey(ds[i]) = DecoderKey(ds[j]) => i = j
  BY DEF RoundInv, Accepted, HandlerAccepted, IndexAccepted
<1> DEFINE For(i) == /\ i \in Enabled(ds) /\ l.topics # <<>>
                     /\ ds[i].factory = l.address /\ ds[i].topic0 = l.topics[1]
<1>4. \A i : For(i) <=> /\ i \in Enabled(ds) /\ l.topics # <<>>
                        /\ DecoderKey(ds[i]) = <<l.address, l.topics[1]>>
  BY DEF DecoderKey
<1>5. FindDecoder(cfg, l) = {ds[i] : i \in {j \in Enabled(ds) : For(j)}}
  BY <1>4 DEF FindDecoder
<1>6. \A d : d \in Decoders(l) <=> \E i \in Enabled(ds) : d = ds[i] /\ For(i)
  BY DEF Decoders, ToSet, Enabled
<1>7. ASSUME NEW d \in Decoders(l), NEW e \in Decoders(l) PROVE d = e
  <2>1. PICK i \in Enabled(ds) : d = ds[i] /\ For(i) BY <1>6
  <2>2. PICK j \in Enabled(ds) : e = ds[j] /\ For(j) BY <1>6
  <2>3. DecoderKey(ds[i]) = DecoderKey(ds[j]) BY <1>4, <2>1, <2>2
  <2> QED BY <1>3, <2>1, <2>2, <2>3
<1> HIDE DEF For, ds
<1>8. \A d : d \in FindDecoder(cfg, l) <=> d \in Decoders(l) BY <1>5, <1>6
<1> QED BY <1>7, <1>8

\* A log decodes if it is well formed: there are all of the senders.
LEMMA DecodesWellFormed ==
  ASSUME TypeOK, NEW l \in ToSet(logs)
  PROVE  Decodes(l, TxSenders) <=> WellFormed(l)
<1>1. l \in ToSet(Logs) BY DEF TypeOK, ToSet
<1>2. l.tx \in DOMAIN Sender BY <1>1, LogsType DEF LogTypes
<1>3. Sender[l.tx] # Zero BY <1>2, RoundAssumption
<1>4. l.tx \in DOMAIN TxSenders /\ TxSenders[l.tx] = Sender[l.tx]
  BY DEF TxSenders
<1> QED BY <1>3, <1>4 DEF Decodes, WellFormed

\* A log is handled that may be left out, or that is accepted and is wanted.
LEMMA HandledInd ==
  ASSUME IndInv, NEW l, Handling(l),
         UNCHANGED <<chainVars, dbVars, pc, roundVars, queries, logs, faults>>,
         handled' = handled + 1,
         \/ batch' = batch /\ PassedOver(l)
         \/ batch' = batch \cup {l} /\ Wanted(l)
  PROVE  IndInv'
<1> USE DEF IndInv
<1>1. /\ pc = "handle" /\ pc' = "handle" /\ pc \in InRound /\ pc' \in InRound
      /\ UNCHANGED <<chainVars, dbVars, roundVars>>
      /\ queries' = queries /\ logs' = logs /\ faults' = faults
  BY DEF InRound, Handling
<1>2. /\ head' \in Int /\ Grows
      /\ WatchInv' /\ RoundInv' /\ NothingSkipped' /\ OnlyWanted'
  BY <1>1, RoundKept
<1>3. /\ logs \in Seq(ToSet(Logs)) /\ handled \in 0..Len(logs) /\ batch \subseteq ToSet(logs)
      /\ Len(logs) \in Nat /\ DOMAIN logs = 1..Len(logs)
  BY DEF TypeOK
<1>4. handled + 1 \in 1..Len(logs) /\ l = logs[handled + 1]
  BY <1>3 DEF Handling
<1>5. l \in ToSet(logs) /\ ToSet(logs) \subseteq ToSet(Logs) BY <1>3, <1>4 DEF ToSet
<1>6. TypeOK'
  BY <1>1, <1>4, <1>5 DEF TypeOK, chainVars, dbVars, roundVars
<1>7. ChunkInv'
  <2>1. queries = <<>> /\ UNCHANGED <<chainVars, roundVars, queries, logs>>
    BY <1>1 DEF ChunkInv
  <2> QED BY <1>1, <1>2, <2>1, SameLogs
<1>8. HandleInv'
  <2>1. /\ \A i \in 1..handled : logs[i] \in batch \/ PassedOver(logs[i])
        /\ \A k \in batch : Wanted(k)
    BY DEF HandleInv
  <2>2. batch \subseteq batch' OBVIOUS
  <2>3. \A i \in 1..(handled + 1) : logs[i] \in batch' \/ PassedOver(logs[i])
    <3> SUFFICES ASSUME NEW i \in 1..(handled + 1)
                 PROVE  logs[i] \in batch' \/ PassedOver(logs[i])
      OBVIOUS
    <3>1. CASE i = handled + 1 BY <1>4, <3>1
    <3>2. CASE i # handled + 1
      <4>1. i \in 1..handled BY <1>3, <3>2
      <4> QED BY <2>1, <2>2, <4>1
    <3> QED BY <3>1, <3>2
  <2>4. \A i \in 1..(handled + 1) : logs[i] \in batch' \/ \A x : x = logs[i] => PassedOver(x)'
    BY <1>2, <2>3, AllGrow
  <2>5. \A k \in batch' : Wanted(k)'
    <3>1. \A k \in batch' : Wanted(k) /\ k \in ToSet(Logs) BY <1>3, <1>5, <2>1
    <3> QED BY <1>2, <3>1, AllGrow
  <2>6. \A i \in 1..handled' : (logs[i] \in batch \/ PassedOver(logs[i]))'
    <3> SUFFICES ASSUME NEW i \in 1..(handled + 1), logs[i]' \notin batch'
                 PROVE  PassedOver(logs[i])'
      OBVIOUS
    <3> DEFINE x == logs[i]
    <3>1. x' = x BY <1>1
    <3>2. \A y : y = x => PassedOver(y)' BY <2>4, <3>1
    <3> HIDE DEF x
    <3>3. PassedOver(x)' BY <3>1, <3>2
    <3> QED BY <3>3 DEF x
  <2> QED BY <2>5, <2>6 DEF HandleInv
<1> QED BY <1>2, <1>6, <1>7, <1>8

\* Unmatched, Undecodable and Filter: what the chunk does with a log.
LEMMA HandleInd ==
  ASSUME IndInv, NEW l, Unmatched(l) \/ Undecodable(l) \/ Filter(l)
  PROVE  IndInv'
<1> USE DEF IndInv
<1>1. /\ Handling(l) /\ pc = "handle" /\ pc \in InRound /\ pc # "refused"
      /\ UNCHANGED <<chainVars, dbVars, faults>>
      /\ frontier' = frontier /\ events' = events
  BY DEF Unmatched, Undecodable, Filter, Handling, InRound, dbVars
<1>2. l \in ToSet(logs) /\ l \in ToSet(Logs)
  <2>1. logs \in Seq(ToSet(Logs)) /\ DOMAIN logs = 1..Len(logs) /\ Len(logs) \in Nat
        /\ handled \in 0..Len(logs)
    BY DEF TypeOK
  <2>2. handled + 1 \in 1..Len(logs) /\ l = logs[handled + 1] BY <1>1, <2>1 DEF Handling
  <2> QED BY <2>1, <2>2 DEF ToSet
<1>3. /\ FindDecoder(cfg, l) = Decoders(l)
      /\ \A d, e \in Decoders(l) : d = e
      /\ Decodes(l, TxSenders) <=> WellFormed(l)
  BY <1>1, <1>2, OneDecoder, DecodesWellFormed
<1>4. faults' \in 0..MaxFaults /\ Turn <= Len(chunks)
  BY <1>1 DEF TypeOK, ChunkInv
<1>5. ASSUME Finish("err") PROVE IndInv'
  <2>1. UNCHANGED chainVars BY <1>1
  <2> HIDE DEF IndInv
  <2> QED BY <1>1, <1>4, <1>5, <2>1, FinishInd
<1>6. ASSUME Skip(l), PassedOver(l) PROVE IndInv'
  <2>1. /\ UNCHANGED <<chainVars, dbVars, pc, roundVars, queries, logs, faults>>
        /\ handled' = handled + 1 /\ batch' = batch
    BY <1>1, <1>6 DEF Skip
  <2> HIDE DEF IndInv
  <2> QED BY <1>1, <1>6, <2>1, HandledInd
<1>7. ASSUME Accept(l), Wanted(l) PROVE IndInv'
  <2>1. /\ UNCHANGED <<chainVars, dbVars, pc, roundVars, queries, logs, faults>>
        /\ handled' = handled + 1 /\ batch' = batch \cup {l}
    BY <1>1, <1>7 DEF Accept
  <2> HIDE DEF IndInv
  <2> QED BY <1>1, <1>7, <2>1, HandledInd
<1>8. CASE Unmatched(l)
  <2>1. Decoders(l) = {} /\ IF cfg.failOnUnmatched THEN Finish("err") ELSE Skip(l)
    BY <1>3, <1>8 DEF Unmatched
  <2> QED BY <1>5, <1>6, <2>1 DEF PassedOver
<1>9. CASE Undecodable(l)
  <2>1. ~WellFormed(l) /\ IF cfg.ignoreDecodeError THEN Skip(l) ELSE Finish("err")
    BY <1>3, <1>9 DEF Undecodable
  <2> QED BY <1>5, <1>6, <2>1 DEF PassedOver
<1>10. CASE Filter(l)
  <2>1. PICK d \in Decoders(l) :
            IF ApplyFilters(cfg, d, Creator(l), blacklist) THEN Accept(l) ELSE Skip(l)
    BY <1>3, <1>10 DEF Filter
  <2>2. WellFormed(l) BY <1>3, <1>10 DEF Filter
  <2>3. Screened(l) <=> Enabled(cfg.filters) # {} /\ Filtered(d)
    <3>1. (\E f \in ToSet(cfg.filters) : f.enabled) <=> Enabled(cfg.filters) # {}
      BY DEF ToSet, Enabled
    <3>2. (\E e \in Decoders(l) : e.eventName \in {"", "b20_created"})
             <=> d.eventName \in {"", "b20_created"}
      BY <1>3
    <3>3. d.eventName \in {"", "b20_created"} <=> Filtered(d) BY DEF Filtered, EventName
    <3> QED BY <3>1, <3>2, <3>3 DEF Screened
  <2>4. InChunk(l, Chunk) /\ AskedFor(l) BY <1>1, <1>2 DEF ChunkInv
  <2>5. Confirmed(l.block) /\ (cfg.startBlock <= l.block \/ MayWrap)
    <3>1. Turn \in 1..Len(chunks)
      <4>1. Turn \in Int /\ Turn >= 1
        <5>1. Turn - 1 \in 0..Len(chunks) BY <1>1 DEF RoundInv
        <5>2. Turn \in Int BY <1>1, TurnType
        <5> QED BY <5>1, <5>2
      <4>2. Len(chunks) \in Nat BY <1>1, RoundFacts
      <4> QED BY <1>4, <4>1, <4>2
    <3>2. InChunk(l, chunks[Turn]) BY <2>4 DEF Chunk
    <3> QED BY <1>1, <1>2, <3>1, <3>2, ChunkConfirmed
  <2>6. IF Creator(l) \in blacklist THEN l \in seenListed ELSE l \in seenFree
    BY <1>2, <2>5 DEF WatchInv
  <2>7. CASE ApplyFilters(cfg, d, Creator(l), blacklist)
    <3>1. Screened(l) => l \in seenFree
      BY <2>3, <2>6, <2>7 DEF ApplyFilters, IsBlacklisted
    <3>2. Wanted(l) BY <2>1, <2>2, <2>4, <2>5, <3>1 DEF Wanted
    <3> QED BY <1>7, <2>1, <2>7, <3>2
  <2>8. CASE ~ApplyFilters(cfg, d, Creator(l), blacklist)
    <3>1. Screened(l) /\ l \in seenListed
      BY <2>3, <2>6, <2>8 DEF ApplyFilters, IsBlacklisted
    <3> QED BY <1>6, <2>1, <2>8, <3>1 DEF PassedOver
  <2> QED BY <2>7, <2>8
<1> QED BY <1>8, <1>9, <1>10

\* The program does nothing.
LEMMA IdleInd ==
  ASSUME IndInv, Grows, head' \in 0..MaxHead, changes' \in 0..MaxChanges, WatchInv',
         UNCHANGED <<dbVars, pc, roundVars, chunkVars, faults>>
  PROVE  IndInv'
<1> USE DEF IndInv
<1>1. cfg' = cfg /\ head <= head' BY DEF Grows
<1>2. /\ frontier' = frontier /\ events' = events
      /\ safe' = safe /\ next' = next /\ chunks' = chunks /\ results' = results
      /\ queries' = queries /\ logs' = logs /\ handled' = handled /\ batch' = batch
      /\ pc' = pc /\ faults' = faults
  BY DEF dbVars, roundVars, chunkVars
<1>3. Grows /\ head' \in Int OBVIOUS
<1>4. TypeOK' BY <1>1, <1>2 DEF TypeOK
<1>5. RoundInv'
  <2>1. Turn' = Turn BY <1>2 DEF Turn
  <2>2. pc \in InRound => Confirmed(safe)'
    <3>1. safe \in Int BY DEF TypeOK, Heights
    <3>2. \A b \in Int : Confirmed(b) => Confirmed(b)' BY <1>3, AllGrow
    <3>3. \A b : b = safe /\ Confirmed(b) => Confirmed(b)' BY <3>1, <3>2
    <3>4. \A b : b = safe' /\ Confirmed(b) => Confirmed(b)' BY <1>2, <3>3
    <3> QED BY <1>2, <3>4 DEF RoundInv
  <2>3. ASSUME NEW c, Done(c) PROVE Done(c)' BY <1>3, <2>3, AllGrow
  <2> QED BY <1>1, <1>2, <2>1, <2>2, <2>3 DEF RoundInv
<1>6. ChunkInv'
  <2>1. Turn' = Turn /\ Chunk' = Chunk BY <1>2 DEF Turn, Chunk
  <2>2. \A l : AskedFor(l)' <=> AskedFor(l) BY <1>3, AllGrow
  <2> QED BY <1>2, <2>1, <2>2 DEF ChunkInv, InChunk
<1>7. HandleInv'
  <2>1. \A l \in batch : Wanted(l) /\ l \in ToSet(Logs) BY DEF HandleInv, TypeOK, ToSet
  <2>2. \A l \in batch : Wanted(l)' BY <1>3, <2>1, AllGrow
  <2>3. ASSUME NEW i \in 1..handled PROVE logs[i] \in batch \/ PassedOver(logs[i])'
    <3> DEFINE x == logs[i]
    <3>1. x \in batch \/ PassedOver(x) BY DEF HandleInv
    <3>2. x' = x BY <1>2
    <3> HIDE DEF x
    <3>3. \A y : y = x => y \in batch \/ PassedOver(y)' BY <1>3, <3>1, AllGrow
    <3>4. x \in batch \/ PassedOver(x)' BY <3>2, <3>3
    <3> QED BY <3>4 DEF x
  <2> QED BY <1>2, <2>2, <2>3 DEF HandleInv
<1>8. NothingSkipped' /\ OnlyWanted' BY <1>2, <1>3, Kept
<1> QED BY <1>4, <1>5, <1>6, <1>7, <1>8

\* Extend and ChangeBlacklist: what is confirmed is watched.
LEMMA WorldInd ==
  ASSUME IndInv, World
  PROVE  IndInv'
<1>1. TypeOK BY DEF IndInv
<1>2. /\ cfg' = cfg /\ head' \in 0..MaxHead /\ head <= head' /\ changes' \in 0..MaxChanges
      /\ UNCHANGED <<dbVars, pc, roundVars, chunkVars, faults>> /\ Watch
  <2>1. MaxHead \in Nat /\ MaxChanges \in Nat BY RoundAssumption
  <2> QED BY <1>1, <2>1 DEF World, Extend, ChangeBlacklist, TypeOK
<1>3. Grows BY <1>2 DEF Grows, Watch, dbVars
<1>4. WatchInv' BY <1>2 DEF WatchInv, Watch, Creator
<1> QED BY <1>2, <1>3, <1>4, IdleInd

LEMMA InitInd ==
  ASSUME Init
  PROVE  IndInv
<1>1. /\ cfg \in {WithDefaults(c) : c \in Configs}
      /\ head = 0 /\ blacklist = {} /\ frontier = cfg.startBlock /\ events = {}
      /\ pc = (IF Accepted(cfg) THEN "poll" ELSE "refused")
      /\ safe = 0 /\ results = <<>>
      /\ queries = <<>> /\ logs = <<>> /\ handled = 0 /\ batch = {}
      /\ seenFree = {} /\ seenListed = {}
      /\ changes = MaxChanges /\ faults = MaxFaults
  BY DEF Init
<1>2. MaxHead \in Nat /\ MaxChanges \in Nat /\ MaxFaults \in Nat /\ 0 \in Heights
  BY RoundAssumption DEF Heights
<1>3. cfg.startBlock \in Heights /\ cfg.confirmations \in Nat
  <2>1. PICK c \in Configs : cfg = WithDefaults(c) BY <1>1
  <2>2. c \in ConfigTypes BY RoundAssumption
  <2>3. DefaultConfirmations \in Heights BY RoundAssumption
  <2> QED BY <2>1, <2>2, <2>3 DEF WithDefaults, ConfigTypes, Heights
<1>4. TypeOK BY <1>1, <1>2, <1>3 DEF TypeOK
<1>5. \A b : ~Confirmed(b)
  BY <1>1, <1>3 DEF Confirmed, HasSafeBlock
<1>6. WatchInv BY <1>5 DEF WatchInv
<1>7. RoundInv BY <1>1, <1>3 DEF RoundInv, InRound, Heights
<1>8. ChunkInv BY <1>1 DEF ChunkInv
<1>9. HandleInv BY <1>1 DEF HandleInv
<1>10. NothingSkipped
  <2>1. \A l \in ToSet(Logs) : l.block \in Nat BY LogsType, RoundAssumption DEF LogTypes
  <2>2. frontier \in Nat /\ frontier = cfg.startBlock BY <1>1, <1>3 DEF Heights
  <2> QED BY <2>1, <2>2 DEF NothingSkipped
<1>11. OnlyWanted BY <1>1 DEF OnlyWanted
<1> QED BY <1>4, <1>6, <1>7, <1>8, <1>9, <1>10, <1>11 DEF IndInv

LEMMA NextInd ==
  ASSUME IndInv, [Next]_vars
  PROVE  IndInv'
<1>1. CASE World BY <1>1, WorldInd
<1>2. CASE Plan BY <1>2, PlanInd
<1>3. CASE RangeRefused \/ ChunkErr BY <1>3, ChunkFailedInd
<1>4. CASE StartChunk BY <1>4, StartChunkInd
<1>5. CASE FilterLogs BY <1>5, FilterLogsInd
<1>6. CASE LoadTxSenders BY <1>6, LoadTxSendersInd
<1>7. ASSUME NEW l, Unmatched(l) \/ Undecodable(l) \/ Filter(l) PROVE IndInv'
  BY <1>7, HandleInd
<1>8. CASE SaveEvents \/ SaveEventsLost BY <1>8, SavedInd
<1>9. CASE Commit BY <1>9, CommitInd
<1>10. CASE SaveCursorErr \/ Restart BY <1>10, GivenUpInd
<1>11. CASE UNCHANGED vars
  <2>1. UNCHANGED <<chainVars, dbVars, pc, roundVars, chunkVars, faults>>
    BY <1>11 DEF vars
  <2>2. head' \in 0..MaxHead /\ changes' \in 0..MaxChanges /\ Grows
    BY <2>1 DEF IndInv, TypeOK, chainVars, dbVars, Grows
  <2>3. WatchInv' BY <2>1, Unwatched DEF IndInv
  <2> QED BY <2>1, <2>2, <2>3, IdleInd
<1> QED
  BY <1>1, <1>2, <1>3, <1>4, <1>5, <1>6, <1>7, <1>8, <1>9, <1>10, <1>11
     DEF Next, Step, Failure, HandleLogs, CaughtUp, Refused

\* Whatever fails and whenever the process dies, a round knows what is done and
\* what is left.
THEOREM Invariance == Spec => []IndInv
<1>1. Init => IndInv BY InitInd
<1>2. IndInv /\ [Next]_vars => IndInv' BY NextInd
<1> QED BY <1>1, <1>2, PTL DEF Spec

\* Types: the locals of scanOnce, processChunk and HandleLogs are what the
\* code declares them to be; heights stay within a word.
THEOREM TypeCorrect == Spec => []TypeOK
<1>1. IndInv => TypeOK BY DEF IndInv
<1> QED BY <1>1, Invariance, PTL

\* No event is lost: the cursor passes a log the configuration asks for only when it
\* is recorded, or may be left out (Scanner.scanOnce, processChunk, HandleLogs).
THEOREM NothingSkippedHolds == Spec => []NothingSkipped
<1>1. IndInv => NothingSkipped BY DEF IndInv
<1> QED BY <1>1, Invariance, PTL

\* Nothing is recorded that was not asked for, or not to be let through
\* (BuildQueries, findDecoder, HandleLogs, CreatorBlacklistFilter).
THEOREM OnlyWantedHolds == Spec => []OnlyWanted
<1>1. IndInv => OnlyWanted BY DEF IndInv
<1> QED BY <1>1, Invariance, PTL
================================================================================
