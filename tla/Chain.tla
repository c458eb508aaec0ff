-------------------------------- MODULE Chain --------------------------------
(***************************************************************************)
(* The chain the program watches, as its RPC endpoints show it.  External: *)
(* nothing of it is in the repository, the scanner only sees it through    *)
(* eth_blockNumber and eth_getLogs.                                        *)
(*                                                                         *)
(* A block is its height; which of several competing blocks of a height is *)
(* canonical is the number of the fork it belongs to.  A log of interest   *)
(* is <<block, fork, query>>: it is emitted in that block of that fork and *)
(* returned by the query-th filter query that covers the block.            *)
(***************************************************************************)
EXTENDS Integers

CONSTANTS
    MaxHead,        \* bound on the height of the chain
    MaxReorgs,      \* bound on the number of reorganisations
    ReorgDepth      \* the most blocks one reorganisation replaces

ASSUME ChainAssumption ==
    /\ MaxHead \in Nat
    /\ MaxReorgs \in Nat
    /\ ReorgDepth \in Nat

Blocks == 0..MaxHead
Forks  == 0..MaxReorgs

VARIABLES
    head,       \* height of the chain
    fork        \* fork[b]: the fork the canonical block b belongs to

chainVars == <<head, fork>>

ChainTypeOK ==
    /\ head \in Blocks
    /\ fork \in [Blocks -> Forks]

ChainInit ==
    /\ head = 0
    /\ fork = [b \in Blocks |-> 0]

\* A log of the canonical chain, as it would be if the chain grew that far.
Canonical(l) == fork[l[1]] = l[2]

\* A block is appended to the chain.
Extend ==
    /\ head < MaxHead
    /\ head' = head + 1
    /\ UNCHANGED fork

\* The last d blocks are replaced by those of a new fork; whatever is mined
\* after them belongs to that fork as well.
Reorg ==
    /\ fork[MaxHead] < MaxReorgs
    /\ \E d \in 1..ReorgDepth :
          /\ d <= head
          /\ fork' = [b \in Blocks |-> IF b > head - d THEN fork[MaxHead] + 1
                                                       ELSE fork[b]]
    /\ UNCHANGED head
=============================================================================
