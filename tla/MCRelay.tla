------------------------------ MODULE MCRelay ------------------------------
(* A small instance of Relay for TLC.  Connection slots, networks, peer    *)
(* ids and keys are interchangeable, but a liveness property is checked,   *)
(* so no symmetry is used.                                                 *)
EXTENDS Relay
=============================================================================
