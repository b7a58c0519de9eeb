\* Two peers with two transactions each, one of which may be pending, pieces and
\* bytes for less than two merges of three pieces; no symmetry, as liveness is
\* checked.
CONSTANTS
    Peers = {p1, p2}
    Txns = {t1, t2}
    Sizes = {0, 2}
    NoPiece = NoPiece
    MaxPieces = 3
    MaxTransactions = 1
    MaxPendingPieces = 5
    MaxPendingBytes = 5
    TTL = 2
SPECIFICATION LiveSpec
INVARIANTS
    CountersExact MergesExact LimitsKept
PROPERTIES
    NoLateJoin AbandonedGivenUp
