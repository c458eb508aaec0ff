---------------------------- MODULE MCEventStore ----------------------------
(***************************************************************************)
(* Instances of EventStore for TLC.                                        *)
(***************************************************************************)
EXTENDS EventStore, TLC

CONSTANTS s1, s2, k1, k2, n1, n2, i1, i2, i3, i4, i5, i6, i7, telegram

E(k, n) == [key |-> k, name |-> n]

\* In either order, one twice, and one under two names.
MCBatches ==
    {<<E(k1, n1), E(k2, n1)>>, <<E(k2, n1), E(k1, n1)>>, <<E(k1, n2), E(k1, n1)>>}

MCRoutes == <<telegram>>

MCSymmetry == Permutations(Savers) \cup Permutations(IDs)
=============================================================================
