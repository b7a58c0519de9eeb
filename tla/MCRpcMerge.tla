----------------------------- MODULE MCRpcMerge -----------------------------
(* A small instance of RpcMerge for TLC.                                   *)
EXTENDS RpcMerge
=============================================================================
