---------------------------- MODULE MCSendWindow ----------------------------
(* A small instance of SendWindow for TLC.  The history is bounded by the   *)
(* window itself, so no other bound is needed.                              *)
EXTENDS SendWindow
=============================================================================
