---------------------------- MODULE MCBroadcast ----------------------------
(* A small instance of Broadcast for TLC; without symmetry, as liveness is  *)
(* checked too.                                                            *)
EXTENDS Broadcast
=============================================================================
