---------------------------- MODULE MCDispatcher ----------------------------
(***************************************************************************)
(* Instances of Dispatcher for TLC.                                        *)
(***************************************************************************)
EXTENDS Dispatcher, TLC

CONSTANTS r1, r2, w1, w2, w3, host

\* Every worker under an identifier of its own.
MCWorkerID == [w \in Workers |-> w]

\* Workers of the same index in processes on hosts of one name: they share an
\* identifier.
MCSharedID == [w \in Workers |-> host]

\* Workers can be exchanged as well as rows: none is known by an identifier that
\* the others do not have.
MCSymmetry == Permutations(Rows) \cup Permutations(Workers)
=============================================================================
