-------------------------- MODULE MCSecureSession --------------------------
(* Small instances of SecureSession for TLC.  The sockets of the peer are  *)
(* interchangeable; root keys are numbered in the order of their creation. *)
EXTENDS SecureSession, TLC

Symmetry == Permutations(Conns)
=============================================================================
