----------------------------- MODULE MCRedisLock -----------------------------
(***************************************************************************)
(* Instances of RedisLock for TLC.                                         *)
(***************************************************************************)
EXTENDS RedisLock, TLC

CONSTANTS c1, c2, c3, t1, t2, t3, t4, t5
=============================================================================
