---------------------------- MODULE MCPeerCenter ----------------------------
(* A small instance of PeerCenter for TLC; without symmetry, as liveness is *)
(* checked too.                                                            *)
EXTENDS PeerCenter

CONSTANTS p1, p2, i1, i2

\* p1 reports itself and p2, with changing infos of the latter; p2 reports p1.
MCReports(p) ==
    {r \in [Destinations -> Infos \cup {Nothing}] :
        IF p = p1 THEN r[p1] # i2 ELSE r[p2] = Nothing /\ r[p1] # i2}
=============================================================================
