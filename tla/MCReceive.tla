------------------------------ MODULE MCReceive ------------------------------
(* A small instance of Receive for TLC.                                     *)
EXTENDS Receive
=============================================================================
