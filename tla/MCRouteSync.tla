---------------------------- MODULE MCRouteSync ----------------------------
(* Small instances of RouteSync for TLC.  Peers are interchangeable.       *)
EXTENDS RouteSync, TLC

Symmetry == Permutations(Peers)
=============================================================================
