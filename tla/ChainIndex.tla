----------------------------- MODULE ChainIndex -----------------------------
(***************************************************************************)
(* What the indexer promises, with nothing of how the scanners do it.      *)
(*                                                                         *)
(* Beside a chain that grows and reorganises its last blocks, an index     *)
(* keeps a set of recorded logs and a frontier.  Only logs that are        *)
(* canonical and have their confirmations are ever recorded, and the       *)
(* frontier only moves forward, over blocks whose logs are all recorded.   *)
(*                                                                         *)
(* Scanner.tla implements this specification.                              *)
(***************************************************************************)
EXTENDS Chain

CONSTANTS
    StartBlock,     \* the first block that is indexed
    Confirmations,  \* how deep a block must be before it is indexed
    Logs            \* the logs of interest

VARIABLES
    recorded,   \* the logs recorded so far
    frontier    \* every canonical log below it is recorded

indexVars == <<recorded, frontier>>
vars == <<chainVars, indexVars>>

Confirmed(b) == b + Confirmations <= head

Init ==
    /\ ChainInit
    /\ recorded = {}
    /\ frontier = StartBlock

\* Any canonical, confirmed logs may be recorded, for the first time or again.
Record ==
    /\ recorded \subseteq recorded'
    /\ \A l \in recorded' \ recorded :
          l \in Logs /\ Canonical(l) /\ Confirmed(l[1])
    /\ UNCHANGED frontier

\* The frontier moves over confirmed blocks whose logs are recorded.
Advance ==
    /\ frontier' >= frontier
    /\ Confirmed(frontier' - 1)
    /\ \A l \in Logs :
          StartBlock <= l[1] /\ l[1] < frontier' /\ Canonical(l) => l \in recorded
    /\ UNCHANGED recorded

Next ==
    \/ (Extend \/ Reorg) /\ UNCHANGED indexVars
    \/ (Record \/ Advance) /\ UNCHANGED chainVars

Spec == Init /\ [][Next]_vars
=============================================================================
