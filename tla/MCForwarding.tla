---------------------------- MODULE MCForwarding ----------------------------
(* A small instance of Forwarding for TLC; without symmetry, as liveness is *)
(* checked too.                                                            *)
EXTENDS Forwarding
=============================================================================
