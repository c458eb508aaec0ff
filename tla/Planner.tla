------------------------------- MODULE Planner -------------------------------
(***************************************************************************)
(* The arithmetic of a round of the scanner (src/chains/evm/scanner.go):   *)
(* which blocks are safe, how they are cut into chunks, and how far a      *)
(* round gets.  Heights are unsigned integers of the machine: sums wrap    *)
(* round at Word, which is 2^64 in the code.                               *)
(*                                                                         *)
(* Scanner.tla has the same with heights that do not wrap.                 *)
(***************************************************************************)
EXTENDS Integers, Sequences, FiniteSets

CONSTANT Word   \* how many values a height can have

ASSUME WordAssumption == Word \in Nat \ {0}

\* The heads that have a safe block, and the safe block they have.
HasSafeBlock(latest, confirmations) == latest > confirmations
SafeBlock(latest, confirmations)    == latest - confirmations

\* The last block of the chunk that begins at from.
NextToBlock(from, safe, size) ==
    LET to == (from + size - 1) % Word
    IN  IF to > safe THEN safe ELSE to

\* At most max chunks from next to safe, each beginning after the one before.
\* The chunk that ends at safe is the last; when a sum has wrapped round, a
\* chunk may end before it begins and the next begin before it.
PlanChunks(next, safe, size, max) ==
    LET To(from) == NextToBlock(from, safe, size)
        from[i \in 1..max] == IF i = 1 THEN next ELSE (To(from[i - 1]) + 1) % Word
        planned == {n \in 1..max : \A i \in 1..n :
                       /\ from[i] <= safe
                       /\ i < n => To(from[i]) # safe}
    IN  [i \in 1..Cardinality(planned) |-> [from |-> from[i], to |-> To(from[i])]]

\* The block after the chunks that are done without one before them that is
\* not.  The results are kept by the first block of their chunk.  A definition
\* whose name ends in X is the one after it with a bug that the checks are
\* tried on.
CommitPointX(next, chunks, results) ==
    LET Done(i)   == chunks[i].from \in DOMAIN results /\ results[chunks[i].from] = "ok"
        committed == {n \in DOMAIN chunks : \A i \in 1..n : Done(i)}
    IN  IF committed = {} THEN next
                          ELSE chunks[Cardinality(committed)].to
CommitPoint(next, chunks, results) ==
    LET Done(i)   == chunks[i].from \in DOMAIN results /\ results[chunks[i].from] = "ok"
        committed == {n \in DOMAIN chunks : \A i \in 1..n : Done(i)}
    IN  IF committed = {} THEN next
                          ELSE (chunks[Cardinality(committed)].to + 1) % Word
=============================================================================
