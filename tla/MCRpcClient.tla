----------------------------- MODULE MCRpcClient -----------------------------
(***************************************************************************)
(* Instances of RpcClient for TLC.                                         *)
(***************************************************************************)
EXTENDS RpcClient, TLC

CONSTANTS c1, c2, c3
=============================================================================
