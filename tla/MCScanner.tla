------------------------------ MODULE MCScanner ------------------------------
(***************************************************************************)
(* Instances of Scanner for TLC.                                           *)
(***************************************************************************)
EXTENDS Scanner, TLC

CONSTANTS s1, s2

\* One log per block that has any, some in both forks of a block.
MCLogs == {<<1, 0, 1>>, <<2, 0, 1>>, <<2, 1, 1>>, <<3, 0, 1>>, <<4, 1, 1>>}

\* Two queries, and a chain that is never reorganised.
MCLogsChunks == {<<1, 0, 1>>, <<1, 0, 2>>, <<2, 0, 2>>, <<3, 0, 1>>}

\* The log of block 2 is another one after a reorganisation.
MCLogsReorg == {<<1, 0, 1>>, <<2, 0, 1>>, <<2, 1, 1>>}

MCSymmetry == Permutations(Scanners)
=============================================================================
