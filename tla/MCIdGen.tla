------------------------------- MODULE MCIdGen -------------------------------
(***************************************************************************)
(* Instances of IdGen for TLC.                                             *)
(***************************************************************************)
EXTENDS IdGen, TLC

CONSTANTS p1, p2, c1, c2, c3

MCProcessOf == [c \in Callers |-> IF c = c3 THEN p2 ELSE p1]

\* Neighbours, so that an ID that runs over its field is one of the other's.
MCWorkerID == [p \in Processes |-> IF p = p1 THEN 0 ELSE 1]
=============================================================================
